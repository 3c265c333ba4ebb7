----------------------- MODULE UringProviderFlowProofs -----------------------
(***************************************************************************)
(* The flow of requests and responses through the io_uring provider, for   *)
(* every size: what FlowInv adds to IInv is inductive relative to it, and  *)
(* what RequestInv adds is inductive relative to both.                     *)
(*                                                                         *)
(* A handler touches one connection.  The first lemmas say what each       *)
(* update of a context does to all of its fields; Grows and Only say what  *)
(* a handler does to the operations and to the other contexts.  The last   *)
(* part follows each request from tryHandleRequest to the end of its send. *)
(***************************************************************************)
EXTENDS UringProviderProofs, FiniteSetTheorems

(* onSubmit counts the operation and leaves the rest alone. *)
LEMMA Counted ==
    ASSUME NEW cx \in [Contexts -> Context], NEW c \in Contexts
    PROVE  LET q == onSubmit(cx, c) IN
           /\ q \in [Contexts -> Context] /\ \A d \in Contexts \ {c} : q[d] = cx[d]
           /\ q[c].connId = cx[c].connId /\ q[c].input = cx[c].input
           /\ q[c].outQueue = cx[c].outQueue /\ q[c].written = cx[c].written
           /\ q[c].sending = cx[c].sending /\ q[c].closing = cx[c].closing
           /\ q[c].pendingReqs = cx[c].pendingReqs /\ q[c].readPaused = cx[c].readPaused
  <1>. DEFINE q == onSubmit(cx, c)
  <1>1. PICK r \in Context : r = cx[c]
    OBVIOUS
  <1>2. PICK n \in Int : n = r.inflight + 1
    BY ContextFields
  <1>. DEFINE s == [r EXCEPT !.inflight = n]
  <1>3. q = [cx EXCEPT ![c] = s]
    BY <1>1, <1>2 DEF onSubmit
  <1>4. /\ s \in Context /\ s.connId = r.connId
        /\ s.input = r.input /\ s.outQueue = r.outQueue
        /\ s.written = r.written /\ s.sending = r.sending
        /\ s.closing = r.closing /\ s.pendingReqs = r.pendingReqs
        /\ s.readPaused = r.readPaused
    BY DEF Context
  <1>. HIDE DEF s, q
  <1>. QED BY <1>1, <1>3, <1>4 DEF q

(* close sets closing alone. *)
LEMMA Closing ==
    ASSUME NEW cx \in [Contexts -> Context], NEW c \in Contexts
    PROVE  LET q == [cx EXCEPT ![c].closing = TRUE] IN
           /\ q \in [Contexts -> Context] /\ \A d \in Contexts \ {c} : q[d] = cx[d]
           /\ q[c].connId = cx[c].connId /\ q[c].input = cx[c].input
           /\ q[c].outQueue = cx[c].outQueue /\ q[c].written = cx[c].written
           /\ q[c].sending = cx[c].sending /\ q[c].closing = TRUE
           /\ q[c].pendingReqs = cx[c].pendingReqs /\ q[c].readPaused = cx[c].readPaused
  <1>. DEFINE q == [cx EXCEPT ![c].closing = TRUE]
  <1>1. PICK r \in Context : r = cx[c]
    OBVIOUS
  <1>. DEFINE s == [r EXCEPT !.closing = TRUE]
  <1>2. q = [cx EXCEPT ![c] = s]
    BY <1>1
  <1>3. /\ s \in Context /\ s.connId = r.connId
        /\ s.input = r.input /\ s.outQueue = r.outQueue
        /\ s.written = r.written /\ s.sending = r.sending
        /\ s.closing = TRUE /\ s.pendingReqs = r.pendingReqs
        /\ s.readPaused = r.readPaused
    BY DEF Context
  <1>. HIDE DEF s, q
  <1>. QED BY <1>1, <1>2, <1>3 DEF q

(* The flag of the chain of sends. *)
LEMMA Sending ==
    ASSUME NEW cx \in [Contexts -> Context], NEW c \in Contexts, NEW b \in BOOLEAN
    PROVE  LET q == [cx EXCEPT ![c].sending = b] IN
           /\ q \in [Contexts -> Context] /\ \A d \in Contexts \ {c} : q[d] = cx[d]
           /\ q[c].connId = cx[c].connId /\ q[c].input = cx[c].input
           /\ q[c].outQueue = cx[c].outQueue /\ q[c].written = cx[c].written
           /\ q[c].sending = b /\ q[c].closing = cx[c].closing
           /\ q[c].pendingReqs = cx[c].pendingReqs /\ q[c].readPaused = cx[c].readPaused
  <1>. DEFINE q == [cx EXCEPT ![c].sending = b]
  <1>1. PICK r \in Context : r = cx[c]
    OBVIOUS
  <1>. DEFINE s == [r EXCEPT !.sending = b]
  <1>2. q = [cx EXCEPT ![c] = s]
    BY <1>1
  <1>3. /\ s \in Context /\ s.connId = r.connId
        /\ s.input = r.input /\ s.outQueue = r.outQueue
        /\ s.written = r.written /\ s.sending = b
        /\ s.closing = r.closing /\ s.pendingReqs = r.pendingReqs
        /\ s.readPaused = r.readPaused
    BY DEF Context
  <1>. HIDE DEF s, q
  <1>. QED BY <1>1, <1>2, <1>3 DEF q

(* The flag of back pressure. *)
LEMMA Pausing ==
    ASSUME NEW cx \in [Contexts -> Context], NEW c \in Contexts, NEW b \in BOOLEAN
    PROVE  LET q == [cx EXCEPT ![c].readPaused = b] IN
           /\ q \in [Contexts -> Context] /\ \A d \in Contexts \ {c} : q[d] = cx[d]
           /\ q[c].connId = cx[c].connId /\ q[c].input = cx[c].input
           /\ q[c].outQueue = cx[c].outQueue /\ q[c].written = cx[c].written
           /\ q[c].sending = cx[c].sending /\ q[c].closing = cx[c].closing
           /\ q[c].pendingReqs = cx[c].pendingReqs /\ q[c].readPaused = b
  <1>. DEFINE q == [cx EXCEPT ![c].readPaused = b]
  <1>1. PICK r \in Context : r = cx[c]
    OBVIOUS
  <1>. DEFINE s == [r EXCEPT !.readPaused = b]
  <1>2. q = [cx EXCEPT ![c] = s]
    BY <1>1
  <1>3. /\ s \in Context /\ s.connId = r.connId
        /\ s.input = r.input /\ s.outQueue = r.outQueue
        /\ s.written = r.written /\ s.sending = r.sending
        /\ s.closing = r.closing /\ s.pendingReqs = r.pendingReqs
        /\ s.readPaused = b
    BY DEF Context
  <1>. HIDE DEF s, q
  <1>. QED BY <1>1, <1>2, <1>3 DEF q

(* handleSend counts the units written. *)
LEMMA Advancing ==
    ASSUME NEW cx \in [Contexts -> Context], NEW c \in Contexts, NEW n \in Nat
    PROVE  LET q == [cx EXCEPT ![c].written = @ + n] IN
           /\ q \in [Contexts -> Context] /\ \A d \in Contexts \ {c} : q[d] = cx[d]
           /\ q[c].connId = cx[c].connId /\ q[c].input = cx[c].input
           /\ q[c].outQueue = cx[c].outQueue /\ q[c].written = cx[c].written + n
           /\ q[c].sending = cx[c].sending /\ q[c].closing = cx[c].closing
           /\ q[c].pendingReqs = cx[c].pendingReqs /\ q[c].readPaused = cx[c].readPaused
  <1>. DEFINE q == [cx EXCEPT ![c].written = @ + n]
  <1>1. PICK r \in Context : r = cx[c]
    OBVIOUS
  <1>2. PICK w \in Nat : w = r.written + n
    BY ContextFields
  <1>. DEFINE s == [r EXCEPT !.written = w]
  <1>3. q = [cx EXCEPT ![c] = s]
    BY <1>1, <1>2
  <1>4. /\ s \in Context /\ s.connId = r.connId
        /\ s.input = r.input /\ s.outQueue = r.outQueue
        /\ s.written = w /\ s.sending = r.sending
        /\ s.closing = r.closing /\ s.pendingReqs = r.pendingReqs
        /\ s.readPaused = r.readPaused
    BY DEF Context
  <1>. HIDE DEF s, q
  <1>. QED BY <1>1, <1>2, <1>3, <1>4 DEF q

(* deliverResponse queues the frame. *)
LEMMA Queued ==
    ASSUME NEW cx \in [Contexts -> Context], NEW c \in Contexts, NEW f \in Requests
    PROVE  LET q == [cx EXCEPT ![c].outQueue = Append(@, f)] IN
           /\ q \in [Contexts -> Context] /\ \A d \in Contexts \ {c} : q[d] = cx[d]
           /\ q[c].connId = cx[c].connId /\ q[c].input = cx[c].input
           /\ q[c].outQueue = Append(cx[c].outQueue, f) /\ q[c].written = cx[c].written
           /\ q[c].sending = cx[c].sending /\ q[c].closing = cx[c].closing
           /\ q[c].pendingReqs = cx[c].pendingReqs /\ q[c].readPaused = cx[c].readPaused
  <1>. DEFINE q == [cx EXCEPT ![c].outQueue = Append(@, f)]
  <1>1. PICK r \in Context : r = cx[c]
    OBVIOUS
  <1>2. PICK t \in Seq(Requests) : t = Append(r.outQueue, f)
    <2>1. PICK u \in Seq(Requests) : u = r.outQueue
      BY ContextFields
    <2>2. Append(u, f) \in Seq(Requests)
      OBVIOUS
    <2>. QED BY <2>1, <2>2
  <1>. DEFINE s == [r EXCEPT !.outQueue = t]
  <1>3. q = [cx EXCEPT ![c] = s]
    BY <1>1, <1>2
  <1>4. /\ s \in Context /\ s.connId = r.connId
        /\ s.input = r.input /\ s.outQueue = t
        /\ s.written = r.written /\ s.sending = r.sending
        /\ s.closing = r.closing /\ s.pendingReqs = r.pendingReqs
        /\ s.readPaused = r.readPaused
    BY DEF Context
  <1>. HIDE DEF s, q
  <1>. QED BY <1>1, <1>2, <1>3, <1>4 DEF q

(* handleSend pops the frame that is out. *)
LEMMA PoppedFields ==
    ASSUME NEW cx \in [Contexts -> Context], NEW c \in Contexts,
           cx[c].outQueue # << >>
    PROVE  LET q == Popped(c, cx) IN
           /\ q \in [Contexts -> Context] /\ \A d \in Contexts \ {c} : q[d] = cx[d]
           /\ q[c].connId = cx[c].connId /\ q[c].input = cx[c].input
           /\ q[c].outQueue = Tail(cx[c].outQueue) /\ q[c].written = 0
           /\ q[c].sending = cx[c].sending /\ q[c].closing = cx[c].closing
           /\ q[c].pendingReqs = cx[c].pendingReqs - 1 /\ q[c].readPaused = cx[c].readPaused
  <1>. DEFINE q == Popped(c, cx)
  <1>1. PICK r \in Context : r = cx[c]
    OBVIOUS
  <1>2. PICK t \in Seq(Requests) : t = Tail(r.outQueue)
    <2>1. PICK u \in Seq(Requests) : u = r.outQueue /\ u # << >>
      BY <1>1, ContextFields
    <2>2. Tail(u) \in Seq(Requests)
      BY <2>1
    <2>. QED BY <2>1, <2>2
  <1>3. PICK n \in Int : n = r.pendingReqs - 1
    BY ContextFields
  <1>. DEFINE s == [[[r EXCEPT !.outQueue = t] EXCEPT !.written = 0] EXCEPT !.pendingReqs = n]
  <1>4. q = [cx EXCEPT ![c] = s]
    BY <1>1, <1>2, <1>3 DEF Popped, Context
  <1>5. /\ s \in Context /\ s.connId = r.connId
        /\ s.input = r.input /\ s.outQueue = t
        /\ s.written = 0 /\ s.sending = r.sending
        /\ s.closing = r.closing /\ s.pendingReqs = n
        /\ s.readPaused = r.readPaused
    BY DEF Context
  <1>. HIDE DEF s, q
  <1>. QED BY <1>1, <1>2, <1>3, <1>4, <1>5 DEF q

(* tryHandleRequest takes k requests off the input. *)
LEMMA Dispatched ==
    ASSUME NEW cx \in [Contexts -> Context], NEW c \in Contexts, NEW k \in Nat,
           k * FrameUnits <= cx[c].input
    PROVE  LET q == AfterDispatch(c, k, cx) IN
           /\ q \in [Contexts -> Context] /\ \A d \in Contexts \ {c} : q[d] = cx[d]
           /\ q[c].connId = cx[c].connId /\ q[c].input = cx[c].input - k * FrameUnits
           /\ q[c].outQueue = cx[c].outQueue /\ q[c].written = cx[c].written
           /\ q[c].sending = cx[c].sending /\ q[c].closing = cx[c].closing
           /\ q[c].pendingReqs = cx[c].pendingReqs + k /\ q[c].readPaused = cx[c].readPaused
  <1>. DEFINE q == AfterDispatch(c, k, cx)
  <1>1. PICK r \in Context : r = cx[c]
    OBVIOUS
  <1>2. PICK n \in Nat : n = r.input - k * FrameUnits
    <2>1. r.input \in Nat /\ k * FrameUnits \in Nat
      BY ContextFields, ProviderAssumption
    <2>. QED BY <1>1, <2>1
  <1>3. PICK p \in Int : p = r.pendingReqs + k
    BY ContextFields
  <1>. DEFINE s == [[r EXCEPT !.input = n] EXCEPT !.pendingReqs = p]
  <1>4. q = [cx EXCEPT ![c] = s]
    BY <1>1, <1>2, <1>3 DEF AfterDispatch, Context
  <1>5. /\ s \in Context /\ s.connId = r.connId
        /\ s.input = n /\ s.outQueue = r.outQueue
        /\ s.written = r.written /\ s.sending = r.sending
        /\ s.closing = r.closing /\ s.pendingReqs = p
        /\ s.readPaused = r.readPaused
    BY DEF Context
  <1>. HIDE DEF s, q
  <1>. QED BY <1>1, <1>2, <1>3, <1>4, <1>5 DEF q

(* The input of a context once its completion is counted. *)
LEMMA ReapedInput ==
    ASSUME IInv, NEW STATE o, o \in ops, o.op \in {"RECV", "SEND"}
    PROVE  Reaped(o)[o.ctx].input =
             IF o.op = "RECV" /\ o.res > 0 /\ ~ctx[o.ctx].closing
             THEN ctx[o.ctx].input + o.res ELSE ctx[o.ctx].input
  <1>1. o.ctx \in Contexts /\ ctx \in [Contexts -> Context] /\ ctx[o.ctx] \in Context
    BY DEF IInv, TypeOK, ConnTypeOK, OpsInv
  <1>. QED BY <1>1 DEF Reaped, Context

-----------------------------------------------------------------------------
(* The operations that os leaves stay, and c gets SQEs of its own. *)
Grows(c, os) ==
    /\ os \subseteq ops'
    /\ \A x \in ops' \ os : /\ x.ctx = c /\ x.op \in {"RECV", "SEND"}
                            /\ x.stage = "sq" /\ x.res = Failed

(* A step that touches no context but c. *)
Only(c) ==
    /\ \A d \in Contexts \ {c} : ctx'[d] = ctx[d]
    /\ \A d \in Contexts \ {c} : \A x : x.ctx = d => (x \in ops' <=> x \in ops)

(* What a handler leaves behind of connection c: closed, or all in order. *)
Leaves(c) == FlowOf(c, ctx', ops') /\ ctx'[c].connId = ctx[c].connId

(* The SQEs of a connection. *)
LEMMA ConnSqes ==
    ASSUME NEW cx, NEW c, NEW fd
    PROVE  /\ LET s == RecvSqe(c, fd) IN
                 s.ctx = c /\ s.op = "RECV" /\ s.stage = "sq" /\ s.res = Failed
           /\ LET s == SendSqe(cx, c, fd) IN
                 /\ s.ctx = c /\ s.op = "SEND" /\ s.stage = "sq" /\ s.res = Failed
                 /\ s.frame = Head(cx[c].outQueue) /\ s.off = cx[c].written
  BY DEF RecvSqe, SendSqe, Sqe

(***************************************************************************)
(* The ends a handler on connection c can come to, from the values cx and  *)
(* os it has computed: the connection is closed, or is as it should be.    *)
(***************************************************************************)

(* The connection is closed. *)
LEMMA EndClosed ==
    ASSUME NEW STATE c, NEW STATE cx, NEW STATE os, NEW STATE fd,
           c \in Contexts, c # None, cx \in [Contexts -> Context],
           m_active[fd] = c, close(fd, m_active, m_idlePool, cx), ops' = os,
           cx[c].connId = ctx[c].connId,
           \A o \in os : o.ctx = c /\ o.op = "SEND" =>
              o.frame = Head(cx[c].outQueue) /\ o.off = cx[c].written
    PROVE  Leaves(c) /\ Grows(c, os) /\ \A d \in Contexts \ {c} : ctx'[d] = cx[d]
  <1>1. ctx' = [cx EXCEPT ![c].closing = TRUE]
    BY DEF close
  <1>2. /\ \A d \in Contexts \ {c} : ctx'[d] = cx[d]
        /\ ctx'[c].connId = cx[c].connId /\ ctx'[c].closing = TRUE
        /\ ctx'[c].outQueue = cx[c].outQueue /\ ctx'[c].written = cx[c].written
    BY <1>1, Closing
  <1>. QED BY <1>2 DEF Leaves, FlowOf, Grows

(* What cx must be for the handler to end well, up to sending and receiving. *)
Fit(c, cx) ==
    /\ cx[c].connId = ctx[c].connId
    /\ cx[c].input < FrameUnits
    /\ cx[c].readPaused <=> cx[c].pendingReqs >= kMaxInflightPerConn
    /\ cx[c].pendingReqs <= kMaxInflightPerConn - 1 + Burst
    /\ \A i \in 1 .. Len(cx[c].outQueue) : cx[c].outQueue[i].connId = cx[c].connId

(* The connection is kept, in order. *)
LEMMA EndKept ==
    ASSUME NEW STATE c, NEW STATE cx, NEW STATE os,
           c \in Contexts, Fit(c, cx), ctx' = cx, ops' = os,
           cx[c].readPaused \/ Has(os, c, "RECV"),
           ~cx[c].sending => cx[c].outQueue = << >>,
           \A o \in os : o.ctx = c /\ o.op = "SEND" =>
              o.frame = Head(cx[c].outQueue) /\ o.off = cx[c].written
    PROVE  Leaves(c)
  BY DEF Leaves, FlowOf, Fit

(* submitRecv, or close. *)
LEMMA EndRecv ==
    ASSUME NEW STATE c, NEW STATE cx, NEW STATE os, NEW STATE fd,
           c \in Contexts, c # None, cx \in [Contexts -> Context],
           m_active[fd] = c, Fit(c, cx), submitRecvOrClose(fd, cx, os),
           ~cx[c].sending => cx[c].outQueue = << >>,
           \A o \in os : o.ctx = c /\ o.op = "SEND" =>
              o.frame = Head(cx[c].outQueue) /\ o.off = cx[c].written
    PROVE  Leaves(c) /\ Grows(c, os) /\ \A d \in Contexts \ {c} : ctx'[d] = cx[d]
  <1>1. CASE SqFull(os)
    <2>1. close(fd, m_active, m_idlePool, cx) /\ ops' = os
      BY <1>1 DEF submitRecvOrClose
    <2>. QED BY <2>1, EndClosed DEF Fit
  <1>2. CASE ~SqFull(os)
    <2>. DEFINE cx2 == onSubmit(cx, c)
                s == RecvSqe(c, fd)
    <2>1. ctx' = cx2 /\ ops' = os \cup {s}
      BY <1>2 DEF submitRecvOrClose, find
    <2>2. /\ \A d \in Contexts \ {c} : cx2[d] = cx[d]
          /\ cx2[c].connId = cx[c].connId /\ cx2[c].input = cx[c].input
          /\ cx2[c].outQueue = cx[c].outQueue /\ cx2[c].written = cx[c].written
          /\ cx2[c].sending = cx[c].sending /\ cx2[c].closing = cx[c].closing
          /\ cx2[c].pendingReqs = cx[c].pendingReqs /\ cx2[c].readPaused = cx[c].readPaused
      BY Counted
    <2>3. s.ctx = c /\ s.op = "RECV" /\ s.stage = "sq" /\ s.res = Failed
      BY DEF RecvSqe, Sqe
    <2>. HIDE DEF cx2, s
    <2>4. Fit(c, cx2) /\ Has(ops', c, "RECV")
      BY <2>1, <2>2, <2>3 DEF Fit, Has
    <2>5. \A o \in ops' : o.ctx = c /\ o.op = "SEND" =>
            o.frame = Head(cx2[c].outQueue) /\ o.off = cx2[c].written
      BY <2>1, <2>2, <2>3
    <2>6. Leaves(c)
      BY <2>1, <2>2, <2>4, <2>5, EndKept
    <2>. QED BY <2>1, <2>2, <2>3, <2>6 DEF Grows
  <1>. QED BY <1>1, <1>2

(* submitSend when no SEND of c is left, or close. *)
LEMMA EndSend ==
    ASSUME NEW STATE c, NEW STATE cx, NEW STATE os, NEW STATE fd,
           c \in Contexts, c # None, cx \in [Contexts -> Context],
           m_active[fd] = c, Fit(c, cx), submitSendOrClose(fd, cx, os),
           ~Has(os, c, "SEND"), cx[c].readPaused \/ Has(os, c, "RECV")
    PROVE  Leaves(c) /\ Grows(c, os) /\ \A d \in Contexts \ {c} : ctx'[d] = cx[d]
  <1>0. \A o \in os : ~(o.ctx = c /\ o.op = "SEND")
    BY DEF Has
  <1>1. CASE cx[c].outQueue = << >>
    <2>. DEFINE cx2 == [cx EXCEPT ![c].sending = FALSE]
    <2>1. ctx' = cx2 /\ ops' = os
      BY <1>1 DEF submitSendOrClose, find
    <2>2. /\ \A d \in Contexts \ {c} : cx2[d] = cx[d]
          /\ cx2[c].connId = cx[c].connId /\ cx2[c].input = cx[c].input
          /\ cx2[c].outQueue = cx[c].outQueue
          /\ cx2[c].pendingReqs = cx[c].pendingReqs /\ cx2[c].readPaused = cx[c].readPaused
      BY Sending
    <2>. HIDE DEF cx2
    <2>3. Fit(c, cx2)
      BY <2>2 DEF Fit
    <2>4. Leaves(c)
      BY <1>0, <1>1, <2>1, <2>2, <2>3, EndKept
    <2>. QED BY <2>1, <2>2, <2>4 DEF Grows
  <1>2. CASE cx[c].outQueue # << >> /\ SqFull(os)
    <2>1. close(fd, m_active, m_idlePool, cx) /\ ops' = os
      BY <1>2 DEF submitSendOrClose, find
    <2>. QED BY <1>0, <2>1, EndClosed DEF Fit
  <1>3. CASE cx[c].outQueue # << >> /\ ~SqFull(os)
    <2>. DEFINE cx1 == onSubmit(cx, c)
                cx2 == [cx1 EXCEPT ![c].sending = TRUE]
                s == SendSqe(cx, c, fd)
    <2>1. ctx' = cx2 /\ ops' = os \cup {s}
      BY <1>3 DEF submitSendOrClose, find
    <2>2. /\ cx1 \in [Contexts -> Context] /\ \A d \in Contexts \ {c} : cx1[d] = cx[d]
          /\ cx1[c].connId = cx[c].connId /\ cx1[c].input = cx[c].input
          /\ cx1[c].outQueue = cx[c].outQueue /\ cx1[c].written = cx[c].written
          /\ cx1[c].pendingReqs = cx[c].pendingReqs /\ cx1[c].readPaused = cx[c].readPaused
      BY Counted
    <2>. HIDE DEF cx1
    <2>3. /\ \A d \in Contexts \ {c} : cx2[d] = cx1[d]
          /\ cx2[c].connId = cx1[c].connId /\ cx2[c].input = cx1[c].input
          /\ cx2[c].outQueue = cx1[c].outQueue /\ cx2[c].written = cx1[c].written
          /\ cx2[c].sending = TRUE
          /\ cx2[c].pendingReqs = cx1[c].pendingReqs /\ cx2[c].readPaused = cx1[c].readPaused
      BY <2>2, Sending
    <2>4. /\ s.ctx = c /\ s.op = "SEND" /\ s.stage = "sq" /\ s.res = Failed
          /\ s.frame = Head(cx[c].outQueue) /\ s.off = cx[c].written
      BY ConnSqes
    <2>. HIDE DEF cx2, s
    <2>5. Fit(c, cx2)
      BY <2>2, <2>3 DEF Fit
    <2>6. cx2[c].readPaused \/ Has(ops', c, "RECV")
      BY <2>1, <2>2, <2>3 DEF Has
    <2>7. \A o \in ops' : o.ctx = c /\ o.op = "SEND" =>
            o.frame = Head(cx2[c].outQueue) /\ o.off = cx2[c].written
      BY <1>0, <2>1, <2>2, <2>3, <2>4
    <2>8. Leaves(c)
      BY ZenonT(30), <2>1, <2>3, <2>5, <2>6, <2>7, EndKept
    <2>. QED BY <2>1, <2>2, <2>3, <2>4, <2>8 DEF Grows
  <1>. QED BY <1>1, <1>2, <1>3

(* What division bounds: how many requests are in n units. *)
LEMMA Quotient ==
    ASSUME NEW f \in Nat \ {0}, NEW n \in Nat, NEW k \in Nat, k * f <= n
    PROVE  k <= n \div f
  OBVIOUS

(* The input that is left when no whole request is. *)
LEMMA Remainder ==
    ASSUME NEW f \in Nat \ {0}, NEW n \in Nat, NEW k \in Nat, k * f <= n, (k + 1) * f > n
    PROVE  n - k * f < f
  <1>1. (k + 1) * f = k * f + f /\ k * f \in Nat
    OBVIOUS
  <1>. QED BY <1>1

(* What a handler finds: its context, live, and the state of its flow. *)
LEMMA HandlerFinds ==
    ASSUME IInv, FlowInv, NEW STATE o, o \in ops, o.op \in {"RECV", "SEND"},
           ~LastOfClosing(o.ctx)
    PROVE  /\ o.ctx \in Contexts /\ o.ctx \in m_allConns /\ o.ctx # None
           /\ ~ctx[o.ctx].closing /\ m_active[ctx[o.ctx].fd] = o.ctx
           /\ ctx[o.ctx] \in Context /\ FlowOf(o.ctx, ctx, ops)
           /\ \A d \in Contexts \ {o.ctx} : \A x : x.ctx = d => (x \in ops \ {o} <=> x \in ops)
  <1>1. o.ctx \in Contexts /\ ctx[o.ctx] \in Context
    BY DEF IInv, TypeOK, ConnTypeOK, OpsInv
  <1>2. /\ ~ctx[o.ctx].closing /\ o.ctx \in m_allConns /\ m_active[ctx[o.ctx].fd] = o.ctx
    BY LiveOrLast
  <1>3. FlowOf(o.ctx, ctx, ops)
    BY <1>2 DEF FlowInv, ConnFlow
  <1>. QED BY <1>1, <1>2, <1>3, NoneAssumption

(* handleRecv on its connection. *)
LEMMA RecvFlow ==
    ASSUME IInv, FlowInv, NEW STATE o, o \in ops, HandleRecv(o)
    PROVE  /\ o.ctx \in m_allConns /\ ~ctx[o.ctx].closing /\ o.ctx \in Contexts
           /\ Leaves(o.ctx) /\ Grows(o.ctx, ops \ {o})
           /\ \A d \in Contexts \ {o.ctx} : ctx'[d] = ctx[d]
  <1>. DEFINE c  == o.ctx
              fd == ctx[c].fd
              cx == Reaped(o)
              os == ops \ {o}
  <1>1. o.op = "RECV" /\ ~LastOfClosing(c)
    BY DEF HandleRecv, Reaps
  <1>2. /\ c \in Contexts /\ c \in m_allConns /\ c # None
        /\ ~ctx[c].closing /\ m_active[fd] = c
        /\ ctx[c] \in Context /\ FlowOf(c, ctx, ops)
    BY <1>1, HandlerFinds
  <1>3. /\ cx \in [Contexts -> Context] /\ \A d \in Contexts \ {c} : cx[d] = ctx[d]
        /\ cx[c].connId = ctx[c].connId /\ cx[c].closing = ctx[c].closing
        /\ cx[c].outQueue = ctx[c].outQueue /\ cx[c].sending = ctx[c].sending
        /\ cx[c].readPaused = ctx[c].readPaused /\ cx[c].written = ctx[c].written
        /\ cx[c].pendingReqs = ctx[c].pendingReqs
    BY <1>1, ReapedFacts
  <1>4. cx[c].input = IF o.res > 0 THEN ctx[c].input + o.res ELSE ctx[c].input
    BY <1>1, <1>2, ReapedInput
  <1>5. ~ctx[c].readPaused
    <2>1. Has(ops, c, "RECV")
      BY <1>1 DEF Has
    <2>. QED BY <1>2, <2>1 DEF IInv, FlagInv
  <1>6. /\ \A x \in os : x.ctx = c /\ x.op = "SEND" =>
              x.frame = Head(cx[c].outQueue) /\ x.off = cx[c].written
        /\ ~cx[c].sending => cx[c].outQueue = << >>
        /\ cx[c].pendingReqs < kMaxInflightPerConn /\ ctx[c].input < FrameUnits
        /\ \A i \in 1 .. Len(cx[c].outQueue) : cx[c].outQueue[i].connId = cx[c].connId
    <2>1. /\ \A x \in os : x.ctx = c /\ x.op = "SEND" =>
                x.frame = Head(ctx[c].outQueue) /\ x.off = ctx[c].written
          /\ ~ctx[c].sending => ctx[c].outQueue = << >>
          /\ ctx[c].pendingReqs < kMaxInflightPerConn /\ ctx[c].input < FrameUnits
          /\ \A i \in 1 .. Len(ctx[c].outQueue) : ctx[c].outQueue[i].connId = ctx[c].connId
      <3>1. ctx[c].pendingReqs \in Int /\ kMaxInflightPerConn \in Nat
        BY <1>2, ContextFields, ProviderAssumption
      <3>. QED BY <1>2, <1>5, <3>1 DEF FlowOf
    <2>. HIDE DEF cx, os, c
    <2>. QED BY <1>3, <2>1
  <1>7. /\ ctx[c].input \in Nat /\ cx[c].input \in Nat /\ o.res \in Int /\ o.res <= ChunkUnits
        /\ cx[c].pendingReqs \in Int /\ FrameUnits \in Nat \ {0}
        /\ kMaxInflightPerConn \in Nat \ {0} /\ ChunkUnits \in Nat \ {0}
    <2>1. o.res \in Int /\ o.res <= ChunkUnits
      BY <1>1 DEF IInv, TypeOK, KernelTypeOK, Ops, FlowInv, ConnFlow
    <2>. QED BY <1>2, <1>3, <2>1, ContextFields, ProviderAssumption, SizeAssumption
  <1>8. Burst \in Nat
    <2>1. FrameUnits - 1 + ChunkUnits \in Nat
      BY <1>7
    <2>. QED BY <1>7, <2>1 DEF Burst
  <1>9. \/ RecvFailed(o, fd, cx, os) \/ RecvNoBufs(o, fd, cx, os)
        \/ RecvReject(o, fd, cx, os) \/ RecvDrained(o, fd, cx, os)
    BY <1>2 DEF HandleRecv
  <1>10. SUFFICES /\ Leaves(c) /\ Grows(c, os)
                  /\ \A d \in Contexts \ {c} : ctx'[d] = cx[d]
    BY <1>2, <1>3
  <1>. HIDE DEF fd, cx, os
  <1>11. CASE RecvFailed(o, fd, cx, os)
    BY <1>2, <1>3, <1>6, <1>11, EndClosed DEF RecvFailed
  <1>12. CASE RecvNoBufs(o, fd, cx, os)
    <2>1. cx[c].input = ctx[c].input
      BY <1>4, <1>12 DEF RecvNoBufs, ENOBUFS
    <2>2. Fit(c, cx)
      BY <1>3, <1>5, <1>6, <1>7, <1>8, <2>1 DEF Fit
    <2>. QED BY <1>2, <1>3, <1>6, <1>12, <2>2, EndRecv DEF RecvNoBufs
  <1>13. CASE RecvReject(o, fd, cx, os)
    <2>1. PICK k \in 0 .. cx[c].input :
            /\ k * FrameUnits < cx[c].input
            /\ close(fd, m_active, m_idlePool, AfterDispatch(c, k, cx))
            /\ ops' = os
      BY <1>13 DEF RecvReject
    <2>. DEFINE cx2 == AfterDispatch(c, k, cx)
    <2>2. k \in Nat /\ k * FrameUnits <= cx[c].input
      BY <1>7, <2>1
    <2>3. /\ cx2 \in [Contexts -> Context] /\ \A d \in Contexts \ {c} : cx2[d] = cx[d]
          /\ cx2[c].connId = cx[c].connId
          /\ cx2[c].outQueue = cx[c].outQueue /\ cx2[c].written = cx[c].written
      BY <1>2, <1>3, <2>2, Dispatched
    <2>4. close(fd, m_active, m_idlePool, cx2) /\ ops' = os
      BY <2>1
    <2>. HIDE DEF cx2
    <2>. QED BY <1>2, <1>3, <1>6, <2>3, <2>4, EndClosed
  <1>14. CASE RecvDrained(o, fd, cx, os)
    <2>1. PICK k \in 0 .. cx[c].input :
            /\ k * FrameUnits <= cx[c].input /\ (k + 1) * FrameUnits > cx[c].input
            /\ IF AfterDispatch(c, k, cx)[c].pendingReqs >= kMaxInflightPerConn
               THEN /\ ctx' = [AfterDispatch(c, k, cx) EXCEPT ![c].readPaused = TRUE]
                    /\ ops' = os
               ELSE submitRecvOrClose(fd, AfterDispatch(c, k, cx), os)
      BY <1>14 DEF RecvDrained
    <2>. DEFINE cx2 == AfterDispatch(c, k, cx)
    <2>2. k \in Nat
      BY <1>7
    <2>3. /\ cx2 \in [Contexts -> Context] /\ \A d \in Contexts \ {c} : cx2[d] = cx[d]
          /\ cx2[c].connId = cx[c].connId
          /\ cx2[c].input = cx[c].input - k * FrameUnits
          /\ cx2[c].outQueue = cx[c].outQueue /\ cx2[c].written = cx[c].written
          /\ cx2[c].sending = cx[c].sending /\ cx2[c].readPaused = cx[c].readPaused
          /\ cx2[c].pendingReqs = cx[c].pendingReqs + k
      BY <1>2, <1>3, <2>1, <2>2, Dispatched
    <2>4. \/ /\ cx2[c].pendingReqs >= kMaxInflightPerConn
             /\ ctx' = [cx2 EXCEPT ![c].readPaused = TRUE] /\ ops' = os
          \/ /\ ~(cx2[c].pendingReqs >= kMaxInflightPerConn)
             /\ submitRecvOrClose(fd, cx2, os)
      BY <2>1
    <2>. HIDE DEF cx2
    <2>5. cx2[c].input < FrameUnits
      BY <1>7, <2>1, <2>2, <2>3, Remainder
    <2>6. cx2[c].pendingReqs <= kMaxInflightPerConn - 1 + Burst
      <3>1. FrameUnits - 1 + ChunkUnits \in Nat
        BY <1>7
      <3>2. cx[c].input <= FrameUnits - 1 + ChunkUnits
        BY SMTT(30), <1>4, <1>6, <1>7, <1>14 DEF RecvDrained
      <3>3. k * FrameUnits <= FrameUnits - 1 + ChunkUnits
        <4>1. k * FrameUnits \in Nat
          BY <1>7, <2>2
        <4>. QED BY <1>7, <2>1, <3>1, <3>2, <4>1
      <3>4. k <= Burst
        BY <1>7, <2>2, <3>1, <3>3, Quotient DEF Burst
      <3>. QED BY <1>6, <1>7, <1>8, <2>2, <2>3, <3>4
    <2>7. CASE /\ cx2[c].pendingReqs >= kMaxInflightPerConn
               /\ ctx' = [cx2 EXCEPT ![c].readPaused = TRUE] /\ ops' = os
      <3>. DEFINE cx3 == [cx2 EXCEPT ![c].readPaused = TRUE]
      <3>1. /\ \A d \in Contexts \ {c} : cx3[d] = cx2[d]
            /\ cx3[c].connId = cx2[c].connId /\ cx3[c].input = cx2[c].input
            /\ cx3[c].outQueue = cx2[c].outQueue /\ cx3[c].written = cx2[c].written
            /\ cx3[c].sending = cx2[c].sending /\ cx3[c].pendingReqs = cx2[c].pendingReqs
            /\ cx3[c].readPaused = TRUE
        BY <1>2, <2>3, Pausing
      <3>2. ctx' = cx3 /\ ops' = os
        BY <2>7
      <3>. HIDE DEF cx3
      <3>3. Fit(c, cx3)
        <4>1. /\ cx3[c].connId = ctx[c].connId /\ cx3[c].input < FrameUnits
              /\ cx3[c].pendingReqs <= kMaxInflightPerConn - 1 + Burst
          BY <1>3, <2>3, <2>5, <2>6, <3>1
        <4>2. cx3[c].readPaused <=> cx3[c].pendingReqs >= kMaxInflightPerConn
          BY <2>7, <3>1
        <4>3. \A i \in 1 .. Len(cx3[c].outQueue) : cx3[c].outQueue[i].connId = cx3[c].connId
          BY <1>3, <1>6, <2>3, <3>1
        <4>. QED BY <4>1, <4>2, <4>3 DEF Fit
      <3>4. Leaves(c)
        BY <1>2, <1>6, <2>3, <3>1, <3>2, <3>3, EndKept
      <3>. QED BY <2>3, <3>1, <3>2, <3>4 DEF Grows
    <2>8. CASE /\ ~(cx2[c].pendingReqs >= kMaxInflightPerConn)
               /\ submitRecvOrClose(fd, cx2, os)
      <3>1. Fit(c, cx2)
        BY <1>3, <1>5, <1>6, <2>3, <2>5, <2>6, <2>8 DEF Fit
      <3>. QED BY <1>2, <1>6, <2>3, <2>8, <3>1, EndRecv
    <2>. QED BY <2>4, <2>7, <2>8
  <1>. QED BY <1>9, <1>11, <1>12, <1>13, <1>14

(* handleSend's last lines. *)
LEMMA EndNext ==
    ASSUME NEW STATE c, NEW STATE cx, NEW STATE os, NEW STATE fd,
           c \in Contexts, c # None, cx \in [Contexts -> Context],
           m_active[fd] = c, Fit(c, cx), SendNext(c, fd, cx, os),
           ~Has(os, c, "SEND"), cx[c].readPaused \/ Has(os, c, "RECV")
    PROVE  Leaves(c) /\ Grows(c, os) /\ \A d \in Contexts \ {c} : ctx'[d] = cx[d]
  <1>1. submitSendOrClose(fd, cx, os)
    BY DEF SendNext, submitSendOrClose, find
  <1>. QED BY <1>1, EndSend

(* The frames behind the head keep what holds of all frames. *)
LEMMA TailHolds ==
    ASSUME NEW q \in Seq(Requests), q # << >>, NEW id,
           \A i \in 1 .. Len(q) : q[i].connId = id
    PROVE  \A i \in 1 .. Len(Tail(q)) : Tail(q)[i].connId = id
  <1>1. Len(q) \in Nat /\ Len(Tail(q)) = Len(q) - 1 /\ \A i \in 1 .. Len(q) - 1 : Tail(q)[i] = q[i + 1]
    OBVIOUS
  <1>2. \A i \in 1 .. Len(q) - 1 : i + 1 \in 1 .. Len(q)
    BY <1>1
  <1>. QED BY <1>1, <1>2

(* handleSend on its connection. *)
LEMMA SendFlow ==
    ASSUME IInv, FlowInv, NEW STATE o, o \in ops, HandleSend(o)
    PROVE  /\ o.ctx \in m_allConns /\ ~ctx[o.ctx].closing /\ o.ctx \in Contexts
           /\ Leaves(o.ctx) /\ Grows(o.ctx, ops \ {o})
           /\ \A d \in Contexts \ {o.ctx} : ctx'[d] = ctx[d]
  <1>. DEFINE c  == o.ctx
              fd == ctx[c].fd
              cx == Reaped(o)
              os == ops \ {o}
  <1>1. o.op = "SEND" /\ ~LastOfClosing(c)
    BY DEF HandleSend, Reaps
  <1>2. /\ c \in Contexts /\ c \in m_allConns /\ c # None
        /\ ~ctx[c].closing /\ m_active[fd] = c
        /\ ctx[c] \in Context /\ FlowOf(c, ctx, ops)
    BY <1>1, HandlerFinds
  <1>3. /\ cx \in [Contexts -> Context] /\ \A d \in Contexts \ {c} : cx[d] = ctx[d]
        /\ cx[c].connId = ctx[c].connId
        /\ cx[c].outQueue = ctx[c].outQueue
        /\ cx[c].readPaused = ctx[c].readPaused
        /\ cx[c].pendingReqs = ctx[c].pendingReqs
    BY <1>1, ReapedFacts
  <1>4. cx[c].input = ctx[c].input
    BY <1>1, ReapedInput
  <1>5. ~Has(os, c, "SEND") /\ (Has(os, c, "RECV") <=> Has(ops, c, "RECV"))
    BY <1>1, ReapOK
  <1>6. Fit(c, cx) /\ (cx[c].readPaused \/ Has(os, c, "RECV"))
    <2>1. /\ ctx[c].input < FrameUnits
          /\ ctx[c].readPaused \/ Has(ops, c, "RECV")
          /\ ctx[c].readPaused <=> ctx[c].pendingReqs >= kMaxInflightPerConn
          /\ ctx[c].pendingReqs <= kMaxInflightPerConn - 1 + Burst
          /\ \A i \in 1 .. Len(ctx[c].outQueue) : ctx[c].outQueue[i].connId = ctx[c].connId
      BY <1>2 DEF FlowOf
    <2>. HIDE DEF cx, os, c
    <2>. QED BY <1>3, <1>4, <1>5, <2>1 DEF Fit
  <1>7. cx[c].outQueue # << >> /\ cx[c].outQueue \in Seq(Requests)
    BY <1>1, <1>2, <1>3, ContextFields DEF IInv, OpsInv
  <1>8. /\ o.res \in Int /\ cx[c].pendingReqs \in Int /\ kMaxInflightPerConn \in Nat
        /\ Burst \in Nat
    <2>1. o.res \in Int
      BY DEF IInv, TypeOK, KernelTypeOK, Ops
    <2>2. FrameUnits - 1 + ChunkUnits \in Nat /\ FrameUnits \in Nat \ {0}
      BY SizeAssumption, ProviderAssumption
    <2>3. Burst \in Nat
      BY <2>2 DEF Burst
    <2>. QED BY <1>2, <1>3, <2>1, <2>3, ContextFields, ProviderAssumption
  <1>9. SendFailed(o, fd, cx, os) \/ SendPartial(o, fd, cx, os) \/ SendWhole(o, fd, cx, os)
    BY DEF HandleSend
  <1>10. SUFFICES /\ Leaves(c) /\ Grows(c, os)
                  /\ \A d \in Contexts \ {c} : ctx'[d] = cx[d]
    BY <1>2, <1>3
  <1>11. \A x \in os : ~(x.ctx = c /\ x.op = "SEND")
    BY <1>5 DEF Has
  <1>. HIDE DEF fd, cx, os
  <1>12. CASE SendFailed(o, fd, cx, os)
    BY <1>2, <1>3, <1>11, <1>12, EndClosed DEF SendFailed
  <1>13. CASE SendPartial(o, fd, cx, os)
    <2>1. PICK n \in Nat : n = o.res
      BY <1>8, <1>13 DEF SendPartial
    <2>. DEFINE cx2 == [cx EXCEPT ![c].written = @ + n]
    <2>2. SendNext(c, fd, cx2, os)
      BY <1>13, <2>1 DEF SendPartial
    <2>3. /\ cx2 \in [Contexts -> Context] /\ \A d \in Contexts \ {c} : cx2[d] = cx[d]
          /\ cx2[c].connId = cx[c].connId /\ cx2[c].input = cx[c].input
          /\ cx2[c].outQueue = cx[c].outQueue
          /\ cx2[c].pendingReqs = cx[c].pendingReqs /\ cx2[c].readPaused = cx[c].readPaused
      BY <1>2, <1>3, Advancing
    <2>. HIDE DEF cx2
    <2>4. Fit(c, cx2)
      <3>. HIDE DEF c
      <3>. QED BY <1>6, <2>3 DEF Fit
    <2>5. /\ c \in Contexts /\ c # None /\ m_active[fd] = c /\ ~Has(os, c, "SEND")
          /\ cx2[c].readPaused \/ Has(os, c, "RECV")
      BY <1>2, <1>5, <1>6, <2>3
    <2>. HIDE DEF c
    <2>. QED BY <2>2, <2>3, <2>4, <2>5, EndNext
  <1>14. CASE SendWhole(o, fd, cx, os)
    <2>. DEFINE cx1 == Popped(c, cx)
                cx2 == [cx1 EXCEPT ![c].readPaused = FALSE]
    <2>1. /\ cx1 \in [Contexts -> Context] /\ \A d \in Contexts \ {c} : cx1[d] = cx[d]
          /\ cx1[c].connId = cx[c].connId /\ cx1[c].input = cx[c].input
          /\ cx1[c].outQueue = Tail(cx[c].outQueue) /\ cx1[c].closing = cx[c].closing
          /\ cx1[c].pendingReqs = cx[c].pendingReqs - 1 /\ cx1[c].readPaused = cx[c].readPaused
      BY <1>2, <1>3, <1>7, PoppedFields
    <2>2. IF ~ResumesRecv(c, cx1) THEN SendNext(c, fd, cx1, os)
          ELSE IF find(fd) = None \/ SqFull(os)
          THEN close(fd, m_active, m_idlePool, cx2) /\ ops' = os
          ELSE SendNext(c, fd, onSubmit(cx2, find(fd)), os \cup {RecvSqe(find(fd), fd)})
      BY <1>14 DEF SendWhole
    <2>. HIDE DEF cx1
    <2>3. \A i \in 1 .. Len(cx1[c].outQueue) : cx1[c].outQueue[i].connId = cx1[c].connId
      BY <1>6, <1>7, <2>1, TailHolds DEF Fit
    <2>4. CASE ~ResumesRecv(c, cx1)
      <3>1. Fit(c, cx1)
        <4>. HIDE DEF c
        <4>1. cx1[c].pendingReqs <= kMaxInflightPerConn - 1 + Burst
          BY <1>6, <1>8, <2>1 DEF Fit
        <4>2. cx1[c].readPaused <=> cx1[c].pendingReqs >= kMaxInflightPerConn
          <5>1. cx[c].readPaused <=> cx[c].pendingReqs >= kMaxInflightPerConn
            BY <1>6 DEF Fit
          <5>2. cx1[c].readPaused => ~(cx1[c].pendingReqs < kMaxInflightPerConn)
            BY <2>4 DEF ResumesRecv
          <5>. QED BY <1>8, <2>1, <5>1, <5>2
        <4>. QED BY <1>6, <2>1, <2>3, <4>1, <4>2 DEF Fit
      <3>2. /\ c \in Contexts /\ c # None /\ m_active[fd] = c /\ ~Has(os, c, "SEND")
            /\ cx1[c].readPaused \/ Has(os, c, "RECV")
        BY <1>2, <1>5, <1>6, <2>1
      <3>3. SendNext(c, fd, cx1, os)
        BY <2>2, <2>4
      <3>. HIDE DEF c
      <3>. QED BY <2>1, <3>1, <3>2, <3>3, EndNext
    <2>5. CASE ResumesRecv(c, cx1)
      <3>1. /\ cx2 \in [Contexts -> Context] /\ \A d \in Contexts \ {c} : cx2[d] = cx1[d]
            /\ cx2[c].connId = cx1[c].connId /\ cx2[c].input = cx1[c].input
            /\ cx2[c].outQueue = cx1[c].outQueue
            /\ cx2[c].pendingReqs = cx1[c].pendingReqs /\ cx2[c].readPaused = FALSE
        BY <1>2, <2>1, Pausing
      <3>2. \/ close(fd, m_active, m_idlePool, cx2) /\ ops' = os
            \/ SendNext(c, fd, onSubmit(cx2, c), os \cup {RecvSqe(c, fd)})
        BY <1>2, <2>2, <2>5 DEF find
      <3>. HIDE DEF cx2
      <3>3. Fit(c, cx2)
        BY <1>6, <1>8, <2>1, <2>3, <2>5, <3>1 DEF Fit, ResumesRecv
      <3>4. CASE close(fd, m_active, m_idlePool, cx2) /\ ops' = os
        <4>1. cx2[c].connId = ctx[c].connId
          BY <1>3, <2>1, <3>1
        <4>. QED BY <1>2, <1>11, <2>1, <3>1, <3>4, <4>1, EndClosed
      <3>5. CASE SendNext(c, fd, onSubmit(cx2, c), os \cup {RecvSqe(c, fd)})
        <4>. DEFINE cx3 == onSubmit(cx2, c)
                    s == RecvSqe(c, fd)
                    os2 == os \cup {s}
        <4>1. /\ cx3 \in [Contexts -> Context] /\ \A d \in Contexts \ {c} : cx3[d] = cx2[d]
              /\ cx3[c].connId = cx2[c].connId /\ cx3[c].input = cx2[c].input
              /\ cx3[c].outQueue = cx2[c].outQueue
              /\ cx3[c].pendingReqs = cx2[c].pendingReqs /\ cx3[c].readPaused = cx2[c].readPaused
          BY <1>2, <3>1, Counted
        <4>2. s.ctx = c /\ s.op = "RECV" /\ s.stage = "sq" /\ s.res = Failed
          BY DEF RecvSqe, Sqe
        <4>3. SendNext(c, fd, cx3, os2)
          BY <3>5
        <4>. HIDE DEF cx3, s
        <4>4. Fit(c, cx3)
          BY <3>3, <4>1 DEF Fit
        <4>5. ~Has(os2, c, "SEND") /\ Has(os2, c, "RECV")
          BY <1>5, <4>2 DEF Has
        <4>. HIDE DEF os2
        <4>6. Leaves(c) /\ Grows(c, os2) /\ \A d \in Contexts \ {c} : ctx'[d] = cx3[d]
          BY <1>2, <4>1, <4>3, <4>4, <4>5, EndNext
        <4>7. Grows(c, os)
          BY <4>2, <4>6 DEF Grows, os2
        <4>. QED BY <2>1, <3>1, <4>1, <4>6, <4>7
      <3>. QED BY <3>2, <3>4, <3>5
    <2>. QED BY <2>4, <2>5
  <1>. QED BY <1>9, <1>12, <1>13, <1>14

(* A frame that is queued keeps what holds of all frames, if it holds of it. *)
LEMMA AppendHolds ==
    ASSUME NEW q \in Seq(Requests), NEW f \in Requests,
           \A i \in 1 .. Len(q) : q[i].connId = f.connId
    PROVE  /\ \A i \in 1 .. Len(Append(q, f)) : Append(q, f)[i].connId = f.connId
           /\ Append(q, f) # << >> /\ (q # << >> => Head(Append(q, f)) = Head(q))
  <1>1. /\ Len(q) \in Nat /\ Len(Append(q, f)) = Len(q) + 1 /\ Append(q, f) \in Seq(Requests)
        /\ Append(q, f)[Len(q) + 1] = f
        /\ \A i \in 1 .. Len(q) : Append(q, f)[i] = q[i]
    OBVIOUS
  <1>2. Append(q, f) # << >>
    BY <1>1
  <1>3. ASSUME q # << >> PROVE Head(Append(q, f)) = Head(q)
    <2>1. 1 \in 1 .. Len(q)
      BY <1>1, <1>3
    <2>. QED BY <1>1, <1>2, <1>3, <2>1
  <1>. QED BY <1>1, <1>2, <1>3

(* A resumed coroutine: nothing happens, or its own connection gets the frame. *)
LEMMA ResumeFlow ==
    ASSUME IInv, FlowInv, ResumeCoro
    PROVE  \/ UNCHANGED <<ctx, ops, m_active, m_idlePool>>
           \/ \E c \in m_allConns :
                /\ ~ctx[c].closing /\ c \in Contexts
                /\ Leaves(c) /\ Grows(c, ops)
                /\ \A d \in Contexts \ {c} : ctx'[d] = ctx[d]
  <1>1. PICK e \in Coros : e = Head(ready)
    BY DEF ResumeCoro, IInv, TypeOK
  <1>2. PICK r \in Requests : r = e.req
    BY DEF Coros
  <1>3. \/ UNCHANGED <<ctx, ops, m_active, m_idlePool>>
        \/ StillOpen(r) /\ deliverResponse(r)
    BY <1>1, <1>2 DEF ResumeCoro, deliverResponse
  <1>4. CASE StillOpen(r) /\ deliverResponse(r)
    <2>. DEFINE c == m_active[r.fd]
                cx == [ctx EXCEPT ![c].outQueue = Append(@, r)]
    <2>1. r.fd \in Fds
      BY DEF Requests
    <2>2. /\ c # None /\ c \in Contexts /\ c \in m_allConns /\ ~ctx[c].closing
          /\ ctx[c].connId = r.connId /\ ctx \in [Contexts -> Context] /\ ctx[c] \in Context
      BY <1>4, <2>1 DEF StillOpen, find, IInv, LifeInv, TypeOK, ConnTypeOK
    <2>3. \/ ctx[c].sending /\ ctx' = cx /\ UNCHANGED ops
          \/ ~ctx[c].sending /\ submitSendOrClose(r.fd, cx, ops)
      BY <1>4 DEF deliverResponse, find
    <2>4. m_active[r.fd] = c
      OBVIOUS
    <2>. HIDE DEF c
    <2>5. /\ cx \in [Contexts -> Context] /\ \A d \in Contexts \ {c} : cx[d] = ctx[d]
          /\ cx[c].connId = ctx[c].connId /\ cx[c].input = ctx[c].input
          /\ cx[c].outQueue = Append(ctx[c].outQueue, r) /\ cx[c].written = ctx[c].written
          /\ cx[c].sending = ctx[c].sending /\ cx[c].closing = ctx[c].closing
          /\ cx[c].pendingReqs = ctx[c].pendingReqs /\ cx[c].readPaused = ctx[c].readPaused
      BY <2>2, Queued
    <2>. HIDE DEF cx
    <2>6. FlowOf(c, ctx, ops)
      BY <2>2 DEF FlowInv, ConnFlow
    <2>7. ctx[c].outQueue \in Seq(Requests)
      BY <2>2, ContextFields
    <2>8. /\ \A i \in 1 .. Len(cx[c].outQueue) : cx[c].outQueue[i].connId = cx[c].connId
          /\ ctx[c].outQueue # << >> => Head(cx[c].outQueue) = Head(ctx[c].outQueue)
      <3>1. \A i \in 1 .. Len(ctx[c].outQueue) : ctx[c].outQueue[i].connId = r.connId
        BY <2>2, <2>6 DEF FlowOf
      <3>. QED BY <2>2, <2>5, <2>7, <3>1, AppendHolds
    <2>9. Fit(c, cx) /\ (cx[c].readPaused \/ Has(ops, c, "RECV"))
      BY <2>2, <2>5, <2>6, <2>8 DEF Fit, FlowOf
    <2>10. CASE ctx[c].sending /\ ctx' = cx /\ UNCHANGED ops
      <3>1. \A x \in ops : x.ctx = c /\ x.op = "SEND" => ctx[c].outQueue # << >>
        BY DEF IInv, OpsInv
      <3>2. \A x \in ops : x.ctx = c /\ x.op = "SEND" =>
              x.frame = Head(cx[c].outQueue) /\ x.off = cx[c].written
        BY <2>5, <2>6, <2>8, <3>1 DEF FlowOf
      <3>3. Leaves(c)
        BY <2>2, <2>5, <2>9, <2>10, <3>2, EndKept
      <3>. QED BY <2>2, <2>5, <2>10, <3>3 DEF Grows
    <2>11. CASE ~ctx[c].sending /\ submitSendOrClose(r.fd, cx, ops)
      <3>1. ~Has(ops, c, "SEND")
        BY <2>2, <2>11 DEF IInv, FlagInv
      <3>2. Leaves(c) /\ Grows(c, ops) /\ \A d \in Contexts \ {c} : ctx'[d] = cx[d]
        BY <2>2, <2>4, <2>5, <2>9, <2>11, <3>1, EndSend
      <3>. QED BY <2>2, <2>5, <3>2
    <2>. QED BY <2>3, <2>10, <2>11
  <1>. QED BY <1>3, <1>4

-----------------------------------------------------------------------------
(***************************************************************************)
(* The parts of FlowInv a step leaves alone.                               *)
(***************************************************************************)

(* A step on at most one connection c keeps the flow of all the others. *)
LEMMA ConnStep ==
    ASSUME IInv, ConnFlow, NEW STATE c, Only(c),
           \A d \in m_allConns' : d # c => d \in m_allConns,
           nextId' = nextId \/ nextId' = nextId + 1,
           c \in m_allConns' => FlowOf(c, ctx', ops'),
           c \in Contexts => ctx'[c].connId < nextId',
           \A x \in ops' : x.op = "RECV" => x \in ops \/ x.res <= ChunkUnits
    PROVE  ConnFlow'
  <1>0. /\ m_allConns \subseteq Contexts /\ nextId \in Nat
        /\ \A d \in Contexts : ctx[d].connId \in Nat
    BY ContextFields DEF IInv, TypeOK, ConnTypeOK
  <1>1. \A x \in ops' : x.op = "RECV" => x.res <= ChunkUnits
    BY DEF ConnFlow
  <1>2. ASSUME NEW d \in Contexts PROVE ctx'[d].connId < nextId'
    <2>1. CASE d = c
      BY <2>1
    <2>2. CASE d # c
      <3>1. ctx'[d] = ctx[d] /\ ctx[d].connId < nextId
        BY <2>2 DEF Only, ConnFlow
      <3>. QED BY <1>0, <3>1
    <2>. QED BY <2>1, <2>2
  <1>3. ASSUME NEW d \in m_allConns' PROVE FlowOf(d, ctx', ops')
    <2>1. CASE d = c
      BY <2>1
    <2>2. CASE d # c
      <3>1. d \in m_allConns /\ d \in Contexts \ {c}
        BY <1>0, <2>2
      <3>2. FlowOf(d, ctx, ops) /\ ctx'[d] = ctx[d] /\ \A x : x.ctx = d => (x \in ops' <=> x \in ops)
        BY <3>1 DEF ConnFlow, Only
      <3>3. Has(ops', d, "RECV") <=> Has(ops, d, "RECV")
        BY <3>2 DEF Has
      <3>. QED BY <3>2, <3>3 DEF FlowOf
    <2>. QED BY <2>1, <2>2
  <1>. QED BY <1>1, <1>2, <1>3 DEF ConnFlow

(* The two permanent operations stay armed. *)
LEMMA ArmedStays ==
    ASSUME ArmedInv, UNCHANGED <<m_acceptPending, m_notifyPending, pc>>,
           \A k \in {"ACCEPT", "NOTIFY"} : Has(ops, None, k) => Has(ops', None, k)
    PROVE  ArmedInv'
  BY DEF ArmedInv, Has

(* A wake-up that is on its way stays on its way. *)
LEMMA WakeStays ==
    ASSUME NoLostWakeup, UNCHANGED <<eventfd, worker, m_readyCoros>>,
           \A x \in ops : x.op = "NOTIFY" /\ x.stage = "cq" => x \in ops'
    PROVE  NoLostWakeup'
  BY DEF NoLostWakeup

(* The provided buffers stay where they are. *)
LEMMA BuffersStay ==
    ASSUME BufferInv, UNCHANGED freeBufs, Filled(ops') = Filled(ops)
    PROVE  BufferInv'
  <1>1. Filled(ops)' = Filled(ops)
    BY DEF Filled
  <1>. QED BY <1>1 DEF BufferInv

(* A reaped completion gives back the buffer it holds. *)
LEMMA BufferReturned ==
    ASSUME IInv, BufferInv, NEW STATE o, o \in ops, o.stage = "cq", ReturnBuffer(o),
           Filled(ops') = Filled(ops \ {o})
    PROVE  BufferInv'
  <1>0. freeBufs \in Int /\ NBufs \in Nat
    BY SizeAssumption DEF IInv, TypeOK, KernelTypeOK
  <1>1. PICK F : F = Filled(ops) /\ IsFiniteSet(F)
    BY DEF BufferInv
  <1>2. Filled(ops)' = F \ {o}
    BY <1>1 DEF Filled
  <1>3. /\ IsFiniteSet(F \ {o}) /\ Cardinality(F) \in Nat
        /\ Cardinality(F \ {o}) = IF o \in F THEN Cardinality(F) - 1 ELSE Cardinality(F)
    BY <1>1, FS_RemoveElement, FS_CardinalityType
  <1>4. o \in F <=> o.op = "RECV" /\ o.res > 0
    BY <1>1 DEF Filled
  <1>5. freeBufs' = IF o \in F THEN freeBufs + 1 ELSE freeBufs
    BY <1>4 DEF ReturnBuffer
  <1>6. freeBufs + Cardinality(F) = NBufs
    BY <1>1 DEF BufferInv
  <1>7. freeBufs' + Cardinality(F \ {o}) = NBufs
    BY <1>0, <1>3, <1>5, <1>6
  <1>. QED BY <1>2, <1>3, <1>7 DEF BufferInv

(* What a handler on connection c does to the rest, if it consumed gone. *)
LEMMA HandlerRest ==
    ASSUME IInv, FlowInv, NEW STATE c, c \in Contexts, NEW STATE gone,
           \A x \in gone : x.ctx = c /\ x.op \in {"RECV", "SEND"},
           c \in m_allConns, Leaves(c), Grows(c, ops \ gone),
           \A d \in Contexts \ {c} : ctx'[d] = ctx[d],
           UNCHANGED <<m_allConns, nextId, m_acceptPending, m_notifyPending, pc>>
    PROVE  /\ ConnFlow' /\ ArmedInv' /\ Filled(ops') = Filled(ops \ gone)
           /\ \A x \in ops : x.op = "NOTIFY" /\ x.stage = "cq" => x \in ops'
  <1>0. /\ c # None /\ ChunkUnits \in Nat /\ \A x \in gone : x.op \notin {"ACCEPT", "NOTIFY"}
    BY NoneAssumption, SizeAssumption
  <1>1. Only(c)
    BY <1>0 DEF Only, Grows
  <1>2. ctx'[c].connId < nextId' /\ FlowOf(c, ctx', ops')
    BY DEF Leaves, FlowInv, ConnFlow
  <1>3. \A x \in ops' : x.op = "RECV" => x \in ops \/ x.res <= ChunkUnits
    BY <1>0 DEF Grows, Failed
  <1>4. ConnFlow'
    BY <1>1, <1>2, <1>3, ConnStep DEF FlowInv
  <1>5. \A x \in ops : x.op \in {"ACCEPT", "NOTIFY"} => x \in ops'
    BY <1>0 DEF Grows
  <1>6. ArmedInv'
    <2>1. \A k \in {"ACCEPT", "NOTIFY"} : Has(ops, None, k) => Has(ops', None, k)
      BY <1>5 DEF Has
    <2>. QED BY <2>1, ArmedStays DEF FlowInv
  <1>7. Filled(ops') = Filled(ops \ gone)
    BY DEF Grows, Filled
  <1>. QED BY <1>4, <1>5, <1>6, <1>7

-----------------------------------------------------------------------------
(***************************************************************************)
(* One lemma per step of the reactor, of the workers and of the kernel.    *)
(***************************************************************************)

(* handleRecv keeps the flow, and returns its buffer. *)
LEMMA HandleRecvFlow ==
    ASSUME IInv, FlowInv, NEW STATE o, o \in ops, HandleRecv(o)
    PROVE  FlowInv'
  <1>. DEFINE c == o.ctx
              gone == {o}
  <1>1. /\ o.op = "RECV" /\ o.stage = "cq" /\ ReturnBuffer(o)
        /\ UNCHANGED <<eventfd, m_allConns, nextId, pc, m_acceptPending,
                       m_notifyPending, worker, m_readyCoros>>
    BY DEF HandleRecv, Reaps
  <1>2. /\ c \in m_allConns /\ c \in Contexts
        /\ Leaves(c) /\ Grows(c, ops \ gone)
        /\ \A d \in Contexts \ {c} : ctx'[d] = ctx[d]
    BY RecvFlow
  <1>3. \A x \in gone : x.ctx = c /\ x.op \in {"RECV", "SEND"}
    BY <1>1
  <1>. HIDE DEF c, gone
  <1>4. /\ ConnFlow' /\ ArmedInv' /\ Filled(ops') = Filled(ops \ gone)
        /\ \A x \in ops : x.op = "NOTIFY" /\ x.stage = "cq" => x \in ops'
    BY <1>1, <1>2, <1>3, HandlerRest
  <1>5. BufferInv'
    BY <1>1, <1>4, BufferReturned DEF FlowInv, gone
  <1>6. NoLostWakeup'
    BY <1>1, <1>4, WakeStays DEF FlowInv
  <1>. QED BY <1>4, <1>5, <1>6 DEF FlowInv

(* handleSend keeps the flow. *)
LEMMA HandleSendFlow ==
    ASSUME IInv, FlowInv, NEW STATE o, o \in ops, HandleSend(o)
    PROVE  FlowInv'
  <1>. DEFINE c == o.ctx
              gone == {o}
  <1>1. /\ o.op = "SEND"
        /\ UNCHANGED <<freeBufs, eventfd, m_allConns, nextId, pc, m_acceptPending,
                       m_notifyPending, worker, m_readyCoros>>
    BY DEF HandleSend, Reaps, provVars
  <1>2. /\ c \in m_allConns /\ c \in Contexts
        /\ Leaves(c) /\ Grows(c, ops \ gone)
        /\ \A d \in Contexts \ {c} : ctx'[d] = ctx[d]
    BY SendFlow
  <1>3. \A x \in gone : x.ctx = c /\ x.op \in {"RECV", "SEND"}
    BY <1>1
  <1>. HIDE DEF c, gone
  <1>4. /\ ConnFlow' /\ ArmedInv' /\ Filled(ops') = Filled(ops \ gone)
        /\ \A x \in ops : x.op = "NOTIFY" /\ x.stage = "cq" => x \in ops'
    BY <1>1, <1>2, <1>3, HandlerRest
  <1>5. Filled(ops \ gone) = Filled(ops)
    BY <1>1 DEF Filled, gone
  <1>6. BufferInv'
    BY <1>1, <1>4, <1>5, BuffersStay DEF FlowInv
  <1>7. NoLostWakeup'
    BY <1>1, <1>4, WakeStays DEF FlowInv
  <1>. QED BY <1>4, <1>6, <1>7 DEF FlowInv

(* Steps that change neither the contexts nor the operations on them. *)
LEMMA ConnIdle ==
    ASSUME IInv, FlowInv, UNCHANGED <<ctx, m_allConns, nextId>>,
           \A x : x.op \notin {"ACCEPT", "NOTIFY"} => (x \in ops' <=> x \in ops),
           \A x \in ops' : x.op \in {"ACCEPT", "NOTIFY"} => x.ctx = None
    PROVE  ConnFlow' /\ Filled(ops') = Filled(ops)
  <1>1. Only(None)
    <2>1. \A x \in ops : x.op \in {"ACCEPT", "NOTIFY"} => x.ctx = None
      BY DEF IInv, OpsInv
    <2>. QED BY <2>1, NoneAssumption DEF Only
  <1>2. None \notin Contexts /\ None \notin m_allConns'
    BY NoneAssumption DEF IInv, TypeOK, ConnTypeOK
  <1>3. \A x \in ops' : x.op = "RECV" => x \in ops
    OBVIOUS
  <1>4. ConnFlow'
    BY <1>1, <1>2, <1>3, ConnStep DEF FlowInv
  <1>. QED BY <1>4 DEF Filled

(* A resumed coroutine keeps the flow. *)
LEMMA ResumeCoroFlow ==
    ASSUME IInv, FlowInv, ResumeCoro
    PROVE  FlowInv'
  <1>1. UNCHANGED <<freeBufs, eventfd, m_allConns, nextId, pc, m_acceptPending,
                    m_notifyPending, worker, m_readyCoros>>
    BY DEF ResumeCoro
  <1>2. CASE UNCHANGED <<ctx, ops>>
    BY <1>1, <1>2 DEF FlowInv, ArmedInv, BufferInv, NoLostWakeup, ConnFlow, Has, Filled, FlowOf
  <1>3. CASE \E c \in m_allConns :
                /\ ~ctx[c].closing /\ c \in Contexts
                /\ Leaves(c) /\ Grows(c, ops)
                /\ \A d \in Contexts \ {c} : ctx'[d] = ctx[d]
    <2>1. PICK c \in m_allConns :
                /\ ~ctx[c].closing /\ c \in Contexts
                /\ Leaves(c) /\ Grows(c, ops)
                /\ \A d \in Contexts \ {c} : ctx'[d] = ctx[d]
      BY <1>3
    <2>. DEFINE gone == {}
    <2>2. ops \ gone = ops
      OBVIOUS
    <2>3. \A x \in gone : x.ctx = c /\ x.op \in {"RECV", "SEND"}
      OBVIOUS
    <2>. HIDE DEF gone
    <2>4. /\ ConnFlow' /\ ArmedInv' /\ Filled(ops') = Filled(ops \ gone)
          /\ \A x \in ops : x.op = "NOTIFY" /\ x.stage = "cq" => x \in ops'
      BY <1>1, <2>1, <2>2, <2>3, HandlerRest
    <2>5. BufferInv'
      BY <1>1, <2>2, <2>4, BuffersStay DEF FlowInv
    <2>6. NoLostWakeup'
      BY <1>1, <2>4, WakeStays DEF FlowInv
    <2>. QED BY <2>4, <2>5, <2>6 DEF FlowInv
  <1>. QED BY <1>2, <1>3, ResumeFlow

(* The last completion of a closing connection. *)
LEMMA ReapLastFlow ==
    ASSUME IInv, FlowInv, NEW STATE o, o \in ops, ReapLast(o)
    PROVE  FlowInv'
  <1>. DEFINE c == o.ctx
              gone == {o}
  <1>1. /\ o.op \in {"RECV", "SEND"} /\ o.stage = "cq" /\ ctx[c].closing
        /\ ops' = ops \ gone /\ ctx' = Reaped(o) /\ ReturnBuffer(o)
        /\ UNCHANGED <<eventfd, m_allConns, nextId, pc, m_acceptPending,
                       m_notifyPending, worker, m_readyCoros>>
    BY DEF ReapLast, Reaps, LastOfClosing, provVars
  <1>2. /\ c \in Contexts /\ \A d \in Contexts \ {c} : ctx'[d] = ctx[d]
        /\ ctx'[c].connId = ctx[c].connId /\ ctx'[c].closing = ctx[c].closing
        /\ ctx'[c].outQueue = ctx[c].outQueue /\ ctx'[c].written = ctx[c].written
    BY <1>1, ReapedFacts
  <1>3. c \in m_allConns
    BY <1>1, <1>2 DEF IInv, LifeInv, Has
  <1>4. \A x \in gone : x.ctx = c /\ x.op \in {"RECV", "SEND"}
    BY <1>1
  <1>. HIDE DEF c, gone
  <1>5. FlowOf(c, ctx, ops)
    BY <1>3 DEF FlowInv, ConnFlow
  <1>6. Leaves(c) /\ Grows(c, ops \ gone)
    BY <1>1, <1>2, <1>5 DEF Leaves, Grows, FlowOf
  <1>7. /\ ConnFlow' /\ ArmedInv' /\ Filled(ops') = Filled(ops \ gone)
        /\ \A x \in ops : x.op = "NOTIFY" /\ x.stage = "cq" => x \in ops'
    BY <1>1, <1>2, <1>3, <1>4, <1>6, HandlerRest
  <1>8. BufferInv'
    BY <1>1, <1>7, BufferReturned DEF FlowInv, gone
  <1>9. NoLostWakeup'
    BY <1>1, <1>7, WakeStays DEF FlowInv
  <1>. QED BY <1>7, <1>8, <1>9 DEF FlowInv

(* An operation moves on: its connection, its frame and its kind stay. *)
LEMMA BecomesFlow ==
    ASSUME IInv, FlowInv, NEW STATE o, o \in ops, NEW STATE o2, o.stage # "cq",
           Becomes(o, o2), o2.op = o.op, o2.ctx = o.ctx, o2.frame = o.frame,
           o2.off = o.off, o2.op = "RECV" => o2.res <= ChunkUnits,
           UNCHANGED <<connVars, m_acceptPending, m_notifyPending, pc>>
    PROVE  /\ ConnFlow' /\ ArmedInv'
           /\ \A x \in ops : x.op = "NOTIFY" /\ x.stage = "cq" => x \in ops'
           /\ Filled(ops') = Filled(ops) \cup Filled({o2})
           /\ o2 \notin Filled(ops)
  <1>1. ops' = (ops \ {o}) \cup {o2}
    BY DEF Becomes
  <1>2. \A d, k : Has(ops', d, k) <=> Has(ops, d, k)
    BY <1>1 DEF Has
  <1>3. ASSUME NEW d \in m_allConns PROVE FlowOf(d, ctx', ops')
    <2>1. FlowOf(d, ctx, ops) /\ ctx' = ctx
      BY DEF FlowInv, ConnFlow, connVars
    <2>2. \A x \in ops' : x.ctx = d /\ x.op = "SEND" =>
            x.frame = Head(ctx[d].outQueue) /\ x.off = ctx[d].written
      BY <1>1, <2>1 DEF FlowOf
    <2>. QED BY <1>2, <2>1, <2>2 DEF FlowOf
  <1>4. ConnFlow'
    BY <1>1, <1>3 DEF FlowInv, ConnFlow, connVars
  <1>5. ArmedInv'
    BY <1>2, ArmedStays DEF FlowInv
  <1>6. Filled(ops') = Filled(ops) \cup Filled({o2})
    BY <1>1 DEF Filled
  <1>7. o2 \notin Filled(ops)
    <2>1. \A x \in ops : x.ctx = o2.ctx /\ x.op = o2.op => x = o
      BY DEF IInv, OpsInv
    <2>. QED BY <2>1 DEF Filled
  <1>. QED BY <1>1, <1>4, <1>5, <1>6, <1>7

(* Completing an operation and handing it over leave its frame alone. *)
LEMMA SameFrame ==
    ASSUME NEW o \in Ops, NEW n, NEW s, NEW fd
    PROVE  /\ LET q == [o EXCEPT !.stage = "cq", !.res = n] IN
                 /\ q.op = o.op /\ q.ctx = o.ctx /\ q.frame = o.frame /\ q.off = o.off
                 /\ q.stage = "cq" /\ q.res = n
           /\ LET q == [o EXCEPT !.stage = "kernel"] IN
                 /\ q.op = o.op /\ q.ctx = o.ctx /\ q.frame = o.frame /\ q.off = o.off
                 /\ q.stage = "kernel" /\ q.res = o.res
           /\ LET q == [o EXCEPT !.stage = "kernel", !.sock = s] IN
                 /\ q.op = o.op /\ q.ctx = o.ctx /\ q.frame = o.frame /\ q.off = o.off
                 /\ q.stage = "kernel" /\ q.res = o.res
           /\ LET q == [o EXCEPT !.stage = "cq", !.res = n, !.fd = fd] IN
                 /\ q.op = o.op /\ q.ctx = o.ctx /\ q.frame = o.frame /\ q.off = o.off
                 /\ q.stage = "cq" /\ q.res = n
  BY DEF Ops

(* Handing an SQE to the kernel keeps the flow. *)
LEMMA SubmitOneFlow ==
    ASSUME IInv, FlowInv, NEW STATE o, o \in ops, SubmitOne(o)
    PROVE  FlowInv'
  <1>0. o \in Ops /\ ChunkUnits \in Nat /\ (o.op = "RECV" => o.res <= ChunkUnits)
    BY SizeAssumption DEF IInv, TypeOK, KernelTypeOK, FlowInv, ConnFlow
  <1>1. /\ o.stage = "sq" /\ Becomes(o, Resolve(o))
        /\ UNCHANGED <<freeBufs, eventfd, connVars, m_acceptPending, m_notifyPending, pc,
                       worker, m_readyCoros>>
    BY DEF SubmitOne, provVars
  <1>2. PICK o2 : o2 = Resolve(o)
    OBVIOUS
  <1>3. /\ o2.op = o.op /\ o2.ctx = o.ctx /\ o2.frame = o.frame /\ o2.off = o.off
        /\ o2.op = "RECV" => o2.res <= ChunkUnits
        /\ ~(o2.stage = "cq" /\ o2.res > 0)
    BY <1>0, <1>2, SameFrame DEF Resolve, Failed
  <1>4. /\ ConnFlow' /\ ArmedInv'
        /\ \A x \in ops : x.op = "NOTIFY" /\ x.stage = "cq" => x \in ops'
        /\ Filled(ops') = Filled(ops) \cup Filled({o2})
    BY <1>1, <1>2, <1>3, BecomesFlow
  <1>5. Filled({o2}) = {}
    BY <1>3 DEF Filled
  <1>6. BufferInv'
    BY <1>1, <1>4, <1>5, BuffersStay DEF FlowInv
  <1>7. NoLostWakeup'
    BY <1>1, <1>4, WakeStays DEF FlowInv
  <1>. QED BY <1>4, <1>6, <1>7 DEF FlowInv

(* A completion without a provided buffer, and not of the eventfd. *)
LEMMA CompleteFlow ==
    ASSUME IInv, FlowInv, NEW STATE o, o \in ops, NEW STATE o2, o.stage = "kernel",
           Becomes(o, o2), o2.op = o.op, o2.ctx = o.ctx, o2.frame = o.frame,
           o2.off = o.off, o2.op = "RECV" => o2.res <= 0, o2.res \in Int,
           UNCHANGED <<freeBufs, eventfd, connVars, provVars>>
    PROVE  FlowInv'
  <1>0. ChunkUnits \in Nat /\ UNCHANGED <<m_acceptPending, m_notifyPending, pc, worker, m_readyCoros>>
    BY SizeAssumption DEF provVars
  <1>1. /\ ConnFlow' /\ ArmedInv'
        /\ \A x \in ops : x.op = "NOTIFY" /\ x.stage = "cq" => x \in ops'
        /\ Filled(ops') = Filled(ops) \cup Filled({o2})
    BY <1>0, BecomesFlow
  <1>2. Filled({o2}) = {}
    BY DEF Filled
  <1>3. BufferInv'
    BY <1>1, <1>2, BuffersStay DEF FlowInv
  <1>4. NoLostWakeup'
    BY <1>0, <1>1, WakeStays DEF FlowInv
  <1>. QED BY <1>1, <1>3, <1>4 DEF FlowInv

(* Data in a provided buffer. *)
LEMMA KRecvDataFlow ==
    ASSUME IInv, FlowInv, NEW STATE o, o \in ops, KRecvData(o), UNCHANGED <<connVars, provVars>>
    PROVE  FlowInv'
  <1>0. /\ o \in Ops /\ ChunkUnits \in Nat /\ freeBufs \in Int
        /\ UNCHANGED <<m_acceptPending, m_notifyPending, pc, worker, m_readyCoros>>
    BY SizeAssumption DEF IInv, TypeOK, KernelTypeOK, provVars
  <1>1. /\ o.op = "RECV" /\ o.stage = "kernel" /\ freeBufs' = freeBufs - 1
        /\ UNCHANGED eventfd
    BY DEF KRecvData
  <1>2. PICK n \in 1 .. ChunkUnits : Complete(o, n)
    BY DEF KRecvData
  <1>3. PICK o2 : o2 = [o EXCEPT !.stage = "cq", !.res = n]
    OBVIOUS
  <1>4. /\ o2.op = o.op /\ o2.ctx = o.ctx /\ o2.frame = o.frame /\ o2.off = o.off
        /\ o2.stage = "cq" /\ o2.res = n /\ Becomes(o, o2)
    BY <1>0, <1>2, <1>3, SameFrame DEF Complete
  <1>5. /\ ConnFlow' /\ ArmedInv'
        /\ \A x \in ops : x.op = "NOTIFY" /\ x.stage = "cq" => x \in ops'
        /\ Filled(ops') = Filled(ops) \cup Filled({o2}) /\ o2 \notin Filled(ops)
    BY <1>0, <1>1, <1>2, <1>4, BecomesFlow
  <1>6. Filled({o2}) = {o2}
    BY <1>1, <1>2, <1>4 DEF Filled
  <1>7. BufferInv'
    <2>1. PICK F : F = Filled(ops) /\ IsFiniteSet(F) /\ freeBufs + Cardinality(F) = NBufs
      BY DEF FlowInv, BufferInv
    <2>2. /\ IsFiniteSet(F \cup {o2}) /\ Cardinality(F) \in Nat
          /\ Cardinality(F \cup {o2}) = Cardinality(F) + 1
      BY <1>5, <2>1, FS_AddElement, FS_CardinalityType
    <2>3. Filled(ops)' = F \cup {o2}
      BY <1>5, <1>6, <2>1 DEF Filled
    <2>4. freeBufs' + Cardinality(F \cup {o2}) = NBufs
      BY <1>0, <1>1, <2>1, <2>2
    <2>. QED BY <2>2, <2>3, <2>4 DEF BufferInv
  <1>8. NoLostWakeup'
    BY <1>0, <1>1, <1>5, WakeStays DEF FlowInv
  <1>. QED BY <1>5, <1>7, <1>8 DEF FlowInv

(* The read of the eventfd completes: its CQE is the wake-up now. *)
LEMMA KNotifyFlow ==
    ASSUME IInv, FlowInv, NEW STATE o, o \in ops, KNotify(o), UNCHANGED <<connVars, provVars>>
    PROVE  FlowInv'
  <1>0. o \in Ops /\ UNCHANGED <<m_acceptPending, m_notifyPending, pc>>
    BY DEF IInv, TypeOK, KernelTypeOK, provVars
  <1>1. /\ o.op = "NOTIFY" /\ o.stage = "kernel" /\ UNCHANGED freeBufs /\ Complete(o, 1)
    BY DEF KNotify
  <1>2. PICK o2 : o2 = [o EXCEPT !.stage = "cq", !.res = 1]
    OBVIOUS
  <1>3. /\ o2.op = o.op /\ o2.ctx = o.ctx /\ o2.frame = o.frame /\ o2.off = o.off
        /\ o2.stage = "cq" /\ Becomes(o, o2)
    BY <1>0, <1>1, <1>2, SameFrame DEF Complete
  <1>4. /\ ConnFlow' /\ ArmedInv' /\ Filled(ops') = Filled(ops) \cup Filled({o2})
    BY <1>0, <1>1, <1>3, BecomesFlow
  <1>5. Filled({o2}) = {}
    BY <1>1, <1>3 DEF Filled
  <1>6. BufferInv'
    BY <1>1, <1>4, <1>5, BuffersStay DEF FlowInv
  <1>7. NoLostWakeup'
    BY <1>1, <1>3 DEF NoLostWakeup, Becomes
  <1>. QED BY <1>4, <1>6, <1>7 DEF FlowInv

(* Every completion keeps the flow. *)
LEMMA KernelFlow ==
    ASSUME IInv, FlowInv, Kernel
    PROVE  FlowInv'
  <1>1. PICK o \in ops : KernelOn(o)
    BY DEF Kernel
  <1>2. UNCHANGED <<connVars, provVars>> /\ o \in Ops
    BY DEF Kernel, IInv, TypeOK, KernelTypeOK
  <1>3. CASE KRecvData(o)
    BY <1>2, <1>3, KRecvDataFlow
  <1>4. CASE KNotify(o)
    BY <1>2, <1>4, KNotifyFlow
  <1>5. CASE KAccept(o)
    <2>1. PICK fd : Becomes(o, [o EXCEPT !.stage = "cq", !.res = 1, !.fd = fd])
      BY <1>5 DEF KAccept
    <2>2. PICK o2 : o2 = [o EXCEPT !.stage = "cq", !.res = 1, !.fd = fd]
      OBVIOUS
    <2>3. /\ o2.op = o.op /\ o2.ctx = o.ctx /\ o2.frame = o.frame /\ o2.off = o.off
          /\ o2.res = 1 /\ Becomes(o, o2)
      BY <1>2, <2>1, <2>2, SameFrame
    <2>4. o.op = "ACCEPT" /\ o.stage = "kernel" /\ UNCHANGED <<freeBufs, eventfd>>
      BY <1>5 DEF KAccept
    <2>. QED BY <1>2, <2>3, <2>4, CompleteFlow
  <1>6. CASE \/ KAcceptError(o) \/ KRecvNoBufs(o) \/ KRecvEnd(o)
             \/ KSendData(o) \/ KSendError(o)
    <2>1. PICK n \in Int : Complete(o, n) /\ (o.op = "RECV" => n <= 0)
      BY <1>6, SizeAssumption
         DEF KAcceptError, KRecvNoBufs, KRecvEnd, KSendData, KSendError, Failed, ENOBUFS
    <2>2. PICK o2 : o2 = [o EXCEPT !.stage = "cq", !.res = n]
      OBVIOUS
    <2>3. /\ o2.op = o.op /\ o2.ctx = o.ctx /\ o2.frame = o.frame /\ o2.off = o.off
          /\ o2.res = n /\ Becomes(o, o2)
      BY <1>2, <2>1, <2>2, SameFrame DEF Complete
    <2>4. o.stage = "kernel" /\ UNCHANGED <<freeBufs, eventfd>>
      BY <1>6 DEF KAcceptError, KRecvNoBufs, KRecvEnd, KSendData, KSendError
    <2>. QED BY <1>2, <2>1, <2>3, <2>4, CompleteFlow
  <1>. QED BY <1>1, <1>3, <1>4, <1>5, <1>6 DEF KernelOn

(* Steps of the loop that arm, reap or defer only permanent operations. *)
LEMMA PermFlow ==
    ASSUME IInv, FlowInv, NEW STATE gone, NEW STATE more,
           \A x \in gone : x.op \in {"ACCEPT", "NOTIFY"},
           more \subseteq {AcceptSqe, NotifySqe},
           ops' = (ops \ gone) \cup more,
           UNCHANGED <<freeBufs, ctx, m_allConns, nextId>>
    PROVE  ConnFlow' /\ BufferInv'
  <1>1. \A x \in more : x.op \in {"ACCEPT", "NOTIFY"} /\ x.ctx = None
    BY PermSqes
  <1>2. \A x \in ops : x.op \in {"ACCEPT", "NOTIFY"} => x.ctx = None
    BY DEF IInv, OpsInv
  <1>3. /\ \A x : x.op \notin {"ACCEPT", "NOTIFY"} => (x \in ops' <=> x \in ops)
        /\ \A x \in ops' : x.op \in {"ACCEPT", "NOTIFY"} => x.ctx = None
    BY <1>1, <1>2
  <1>4. ConnFlow' /\ Filled(ops') = Filled(ops)
    BY <1>3, ConnIdle
  <1>. QED BY <1>4, BuffersStay DEF FlowInv

(* handleNotify takes every coroutine the wake-up was for. *)
LEMMA HandleNotifyFlow ==
    ASSUME IInv, FlowInv, NEW STATE o, o \in ops, HandleNotify(o)
    PROVE  FlowInv'
  <1>. DEFINE gone == {o}
              more == {}
  <1>1. /\ o.op = "NOTIFY" /\ ops' = (ops \ gone) \cup more /\ more \subseteq {AcceptSqe, NotifySqe}
        /\ UNCHANGED <<freeBufs, ctx, m_allConns, nextId, m_acceptPending>>
        /\ pc' = "notify" /\ m_readyCoros' = << >>
    BY DEF HandleNotify, Reaps, connVars
  <1>2. \A x \in gone : x.op = "NOTIFY"
    BY <1>1
  <1>. HIDE DEF gone, more
  <1>3. ConnFlow' /\ BufferInv'
    BY <1>1, <1>2, PermFlow
  <1>4. Has(ops, None, "ACCEPT") => Has(ops', None, "ACCEPT")
    BY <1>1, <1>2 DEF Has
  <1>5. ArmedInv' /\ NoLostWakeup'
    BY <1>1, <1>4 DEF FlowInv, ArmedInv, NoLostWakeup, Has
  <1>. QED BY <1>3, <1>5 DEF FlowInv

(* The read of the eventfd is armed again, or remembered. *)
LEMMA NotifyDoneFlow ==
    ASSUME IInv, FlowInv, NotifyDone
    PROVE  FlowInv'
  <1>. DEFINE gone == {}
              more == IF SqFull(ops) THEN {} ELSE {NotifySqe}
  <1>1. /\ ops' = (ops \ gone) \cup more /\ more \subseteq {AcceptSqe, NotifySqe}
        /\ m_notifyPending' = (m_notifyPending \/ SqFull(ops))
        /\ UNCHANGED <<freeBufs, eventfd, ctx, m_allConns, nextId, m_acceptPending, worker, m_readyCoros>>
    BY DEF NotifyDone, submitNotifyRead, connVars
  <1>2. \A x \in gone : FALSE
    OBVIOUS
  <1>3. SqFull(ops) \/ NotifySqe \in more
    OBVIOUS
  <1>. HIDE DEF gone, more
  <1>4. ConnFlow' /\ BufferInv'
    BY <1>1, <1>2, PermFlow
  <1>5. \A x \in ops : x \in ops'
    BY <1>1, <1>2
  <1>6. /\ Has(ops, None, "ACCEPT") => Has(ops', None, "ACCEPT")
        /\ SqFull(ops) \/ Has(ops', None, "NOTIFY")
    BY <1>1, <1>3, <1>5, PermSqes DEF Has
  <1>7. ArmedInv'
    BY <1>1, <1>6 DEF FlowInv, ArmedInv, Has
  <1>8. NoLostWakeup'
    BY <1>1, <1>5, WakeStays DEF FlowInv
  <1>. QED BY <1>4, <1>7, <1>8 DEF FlowInv

(* The accept is armed again, or remembered. *)
LEMMA HandleAcceptErrorFlow ==
    ASSUME IInv, FlowInv, NEW STATE o, o \in ops, HandleAcceptError(o)
    PROVE  FlowInv'
  <1>. DEFINE gone == {o}
              more == IF SqFull(ops \ {o}) THEN {} ELSE {AcceptSqe}
  <1>1. /\ o.op = "ACCEPT"
        /\ ops' = (ops \ gone) \cup more /\ more \subseteq {AcceptSqe, NotifySqe}
        /\ m_acceptPending' = (m_acceptPending \/ SqFull(ops \ {o}))
        /\ UNCHANGED <<freeBufs, eventfd, ctx, m_allConns, nextId, m_notifyPending, pc,
                       worker, m_readyCoros>>
    BY DEF HandleAcceptError, Reaps, submitAccept, connVars
  <1>2. \A x \in gone : x.op = "ACCEPT"
    BY <1>1
  <1>3. SqFull(ops \ {o}) \/ AcceptSqe \in more
    OBVIOUS
  <1>. HIDE DEF gone, more
  <1>4. ConnFlow' /\ BufferInv'
    BY <1>1, <1>2, PermFlow
  <1>5. \A x \in ops : x.op = "NOTIFY" => x \in ops'
    BY <1>1, <1>2
  <1>6. /\ Has(ops, None, "NOTIFY") => Has(ops', None, "NOTIFY")
        /\ SqFull(ops \ {o}) \/ Has(ops', None, "ACCEPT")
    BY <1>1, <1>3, <1>5, PermSqes DEF Has
  <1>7. ArmedInv'
    BY <1>1, <1>6 DEF FlowInv, ArmedInv, Has
  <1>8. NoLostWakeup'
    BY <1>1, <1>5, WakeStays DEF FlowInv
  <1>. QED BY <1>4, <1>7, <1>8 DEF FlowInv

(* What was remembered is armed when there is room. *)
LEMMA WaitReturnsFlow ==
    ASSUME IInv, FlowInv, WaitReturns
    PROVE  FlowInv'
  <1>1. PICK ra \in BOOLEAN, rn \in BOOLEAN :
          /\ ops' = (ops \cup (IF ra THEN {AcceptSqe} ELSE {})) \cup (IF rn THEN {NotifySqe} ELSE {})
          /\ m_acceptPending' = (m_acceptPending /\ ~ra)
          /\ m_notifyPending' = (m_notifyPending /\ ~rn)
    <2>. DEFINE ra == m_acceptPending /\ ~SqFull(ops)
                os == IF ra THEN ops \cup {AcceptSqe} ELSE ops
                rn == m_notifyPending /\ ~SqFull(os)
    <2>1. /\ ops' = IF rn THEN os \cup {NotifySqe} ELSE os
          /\ m_acceptPending' = (m_acceptPending /\ ~ra)
          /\ m_notifyPending' = (m_notifyPending /\ ~rn)
      BY DEF WaitReturns
    <2>2. os = ops \cup (IF ra THEN {AcceptSqe} ELSE {}) /\ ra \in BOOLEAN
      OBVIOUS
    <2>3. rn \in BOOLEAN
      OBVIOUS
    <2>. HIDE DEF ra, rn, os
    <2>4. ops' = (ops \cup (IF ra THEN {AcceptSqe} ELSE {})) \cup (IF rn THEN {NotifySqe} ELSE {})
      BY <2>1, <2>2
    <2>. QED BY <2>1, <2>2, <2>3, <2>4
  <1>. DEFINE gone == {}
              more == (IF ra THEN {AcceptSqe} ELSE {}) \cup (IF rn THEN {NotifySqe} ELSE {})
  <1>2. /\ ops' = (ops \ gone) \cup more /\ more \subseteq {AcceptSqe, NotifySqe}
        /\ \A x \in gone : FALSE
        /\ ra => AcceptSqe \in more
        /\ rn => NotifySqe \in more
    BY <1>1
  <1>3. /\ pc = "submit" /\ pc' = "reap"
        /\ UNCHANGED <<freeBufs, eventfd, ctx, m_allConns, nextId, worker, m_readyCoros>>
    BY DEF WaitReturns, connVars
  <1>. HIDE DEF gone, more
  <1>4. ConnFlow' /\ BufferInv'
    BY <1>2, <1>3, PermFlow
  <1>5. \A x \in ops : x \in ops'
    BY <1>2
  <1>6. /\ Has(ops, None, "ACCEPT") \/ ra => Has(ops', None, "ACCEPT")
        /\ Has(ops, None, "NOTIFY") \/ rn => Has(ops', None, "NOTIFY")
    BY <1>2, <1>5, PermSqes DEF Has
  <1>7. ArmedInv'
    BY <1>1, <1>3, <1>6 DEF FlowInv, ArmedInv, Has
  <1>8. NoLostWakeup'
    BY <1>3, <1>5, WakeStays DEF FlowInv
  <1>. QED BY <1>4, <1>7, <1>8 DEF FlowInv

(* Nothing the flow is about changes, except where the reactor is. *)
LEMMA SameFlow ==
    ASSUME IInv, FlowInv, UNCHANGED <<ops, freeBufs, ctx, m_allConns, nextId,
                                      m_acceptPending, m_notifyPending>>,
           pc' = pc \/ (pc # "notify" /\ pc' # "notify"),
           NoLostWakeup'
    PROVE  FlowInv'
  <1>1. ArmedInv' /\ ConnFlow'
    BY DEF FlowInv, ArmedInv, Has, ConnFlow, FlowOf
  <1>2. BufferInv'
    BY BuffersStay DEF FlowInv, Filled
  <1>. QED BY <1>1, <1>2 DEF FlowInv

(* A worker queues its coroutine before it wakes the reactor. *)
LEMMA WorkerFlow ==
    ASSUME IInv, FlowInv, NEW w \in Workers, Worker(w)
    PROVE  FlowInv'
  <1>0. worker \in [Workers -> WorkerStates] /\ m_readyCoros \in Seq(Coros)
    BY DEF IInv, TypeOK
  <1>1. CASE WorkerTake(w)
    <2>1. /\ UNCHANGED <<kernelVars, connVars, m_acceptPending, m_notifyPending, pc, m_readyCoros>>
          /\ worker[w].st = "idle" /\ \A v \in Workers : v # w => worker'[v] = worker[v]
      BY <1>0, <1>1 DEF WorkerTake
    <2>2. NoLostWakeup'
      BY <2>1 DEF FlowInv, NoLostWakeup, kernelVars
    <2>. QED BY <2>1, <2>2, SameFlow DEF kernelVars, connVars
  <1>2. CASE PoolDone(w)
    <2>1. /\ UNCHANGED <<kernelVars, connVars, m_acceptPending, m_notifyPending, pc>>
          /\ worker' = [worker EXCEPT ![w].st = "wake"]
      BY <1>2 DEF PoolDone
    <2>2. worker[w] \in [st : {"call", "wake"}, req : Requests]
      BY <1>0, <1>2 DEF PoolDone, WorkerStates
    <2>3. worker'[w].st = "wake"
      BY <1>0, <2>1, <2>2
    <2>4. NoLostWakeup'
      BY <2>3 DEF NoLostWakeup
    <2>. QED BY <2>1, <2>4, SameFlow DEF kernelVars, connVars
  <1>3. CASE WorkerWake(w)
    <2>1. /\ UNCHANGED <<ops, freeBufs, connVars, m_acceptPending, m_notifyPending, pc>>
          /\ eventfd' = TRUE
      BY <1>3 DEF WorkerWake
    <2>2. NoLostWakeup'
      BY <2>1 DEF NoLostWakeup
    <2>. QED BY <2>1, <2>2, SameFlow DEF connVars
  <1>. QED BY <1>1, <1>2, <1>3 DEF Worker

(* Going back to submit_and_wait, and stuttering. *)
LEMMA StillFlow ==
    ASSUME IInv, FlowInv, PeekEmpty \/ UNCHANGED vars
    PROVE  FlowInv'
  <1>1. /\ UNCHANGED <<kernelVars, connVars, m_acceptPending, m_notifyPending, worker, m_readyCoros>>
        /\ pc' = pc \/ (pc # "notify" /\ pc' # "notify")
    BY DEF PeekEmpty, vars, provVars
  <1>2. NoLostWakeup'
    BY <1>1, WakeStays DEF FlowInv, kernelVars
  <1>. QED BY <1>1, <1>2, SameFlow DEF kernelVars, connVars

(* How handleAccept can end: connection c has the id nextId and nothing to  *)
(* do; it receives (new = {its SQE}) or was closed again at once (new = {}). *)
AcceptEnd(o, c, new) ==
    /\ c \in Contexts /\ ~Has(ops, c, "RECV") /\ ~Has(ops, c, "SEND")
    /\ m_allConns' = m_allConns \cup {c}
    /\ new = {} \/ new = {RecvSqe(c, o.fd)}
    /\ submitAccept((ops \ {o}) \cup new)
    /\ \A d \in Contexts \ {c} : ctx'[d] = ctx[d]
    /\ ctx'[c].connId = nextId /\ (ctx'[c].closing \/ new # {})
    /\ ctx'[c].input = 0 /\ ctx'[c].outQueue = << >> /\ ctx'[c].sending = FALSE
    /\ ctx'[c].pendingReqs = 0 /\ ctx'[c].readPaused = FALSE

(* handleAccept comes to one of these ends. *)
LEMMA AcceptEnds ==
    ASSUME IInv, NEW STATE o, o \in ops, HandleAccept(o)
    PROVE  \E c, new : AcceptEnd(o, c, new)
  <1>. DEFINE os == ops \ {o}
  <1>0. nextId \in Nat /\ ctx \in [Contexts -> Context] /\ o.op = "ACCEPT"
    BY DEF HandleAccept, Reaps, IInv, TypeOK, ConnTypeOK
  <1>1. PICK fd \in Fds : fd = o.fd
    BY <1>0 DEF HandleAccept, IInv, SockInv, Accepted, Reaps
  <1>. DEFINE cxN(c) == [ctx EXCEPT ![c] = ResetContext(fd, nextId)]
              actN(c) == [m_active EXCEPT ![fd] = c]
  <1>2. PICK c \in Acquirable :
          /\ m_allConns' = m_allConns \cup {c}
          /\ IF SqFull(os)
             THEN /\ close(fd, actN(c), PoolAfterAcquire, cxN(c))
                  /\ submitAccept(os)
             ELSE /\ ctx' = onSubmit(cxN(c), c)
                  /\ submitAccept(os \cup {RecvSqe(c, fd)})
    BY <1>1 DEF HandleAccept
  <1>3. c \in Contexts /\ c # None /\ ~Has(ops, c, "RECV") /\ ~Has(ops, c, "SEND")
    BY AcquireFacts, NoneAssumption
  <1>4. PICK r \in Context :
          /\ r = ResetContext(fd, nextId)
          /\ r.connId = nextId /\ r.input = 0 /\ r.outQueue = << >> /\ r.sending = FALSE
          /\ r.pendingReqs = 0 /\ r.readPaused = FALSE
    <2>1. PICK r : r = ResetContext(fd, nextId)
      OBVIOUS
    <2>2. r \in Context
      BY <1>0, <2>1, FreshContext
    <2>3. /\ r.connId = nextId /\ r.input = 0 /\ r.outQueue = << >> /\ r.sending = FALSE
          /\ r.pendingReqs = 0 /\ r.readPaused = FALSE
      BY <2>1 DEF ResetContext
    <2>. QED BY <2>1, <2>2, <2>3
  <1>. DEFINE cx == cxN(c)
              s  == RecvSqe(c, fd)
  <1>5. /\ cx \in [Contexts -> Context] /\ cx[c] = r /\ actN(c)[fd] = c
        /\ \A d \in Contexts \ {c} : cx[d] = ctx[d]
    BY <1>0, <1>3, <1>4 DEF IInv, TypeOK, ConnTypeOK
  <1>6. \/ /\ ctx' = [cx EXCEPT ![c].closing = TRUE] /\ submitAccept(os)
        \/ /\ ctx' = onSubmit(cx, c) /\ submitAccept(os \cup {s})
    BY <1>2, <1>3, <1>5 DEF close
  <1>7. s = RecvSqe(c, o.fd)
    BY <1>1
  <1>. HIDE DEF cxN, actN, cx, s
  <1>8. CASE ctx' = [cx EXCEPT ![c].closing = TRUE] /\ submitAccept(os)
    <2>1. /\ \A d \in Contexts \ {c} : ctx'[d] = cx[d]
          /\ ctx'[c].connId = cx[c].connId /\ ctx'[c].input = cx[c].input
          /\ ctx'[c].outQueue = cx[c].outQueue /\ ctx'[c].sending = cx[c].sending
          /\ ctx'[c].closing = TRUE
          /\ ctx'[c].pendingReqs = cx[c].pendingReqs /\ ctx'[c].readPaused = cx[c].readPaused
      BY <1>3, <1>5, <1>8, Closing
    <2>2. os \cup {} = os
      OBVIOUS
    <2>3. submitAccept(os \cup {})
      BY <1>8, <2>2
    <2>4. AcceptEnd(o, c, {})
      BY <1>2, <1>3, <1>4, <1>5, <2>1, <2>3 DEF AcceptEnd
    <2>. QED BY <2>4
  <1>9. CASE ctx' = onSubmit(cx, c) /\ submitAccept(os \cup {s})
    <2>1. /\ \A d \in Contexts \ {c} : ctx'[d] = cx[d]
          /\ ctx'[c].connId = cx[c].connId /\ ctx'[c].input = cx[c].input
          /\ ctx'[c].outQueue = cx[c].outQueue /\ ctx'[c].sending = cx[c].sending
          /\ ctx'[c].pendingReqs = cx[c].pendingReqs /\ ctx'[c].readPaused = cx[c].readPaused
      BY <1>3, <1>5, <1>9, Counted
    <2>2. AcceptEnd(o, c, {s})
      BY <1>2, <1>3, <1>4, <1>5, <1>7, <1>9, <2>1 DEF AcceptEnd
    <2>. QED BY <2>2
  <1>. QED BY <1>6, <1>8, <1>9

(* A new connection starts in order. *)
LEMMA HandleAcceptFlow ==
    ASSUME IInv, FlowInv, NEW STATE o, o \in ops, HandleAccept(o)
    PROVE  FlowInv'
  <1>0. /\ nextId \in Nat /\ ChunkUnits \in Nat
        /\ FrameUnits \in Nat \ {0} /\ kMaxInflightPerConn \in Nat \ {0} /\ Burst \in Nat
        /\ o.op = "ACCEPT" /\ o.ctx = None
    <2>1. nextId \in Nat /\ o.op = "ACCEPT" /\ o.ctx = None
      BY DEF IInv, TypeOK, ConnTypeOK, HandleAccept, Reaps, OpsInv
    <2>2. FrameUnits - 1 + ChunkUnits \in Nat /\ FrameUnits \in Nat \ {0}
      BY SizeAssumption, ProviderAssumption
    <2>3. Burst \in Nat
      BY <2>2 DEF Burst
    <2>. QED BY <2>1, <2>3, SizeAssumption, ProviderAssumption
  <1>1. /\ nextId' = nextId + 1
        /\ UNCHANGED <<freeBufs, eventfd, pc, m_notifyPending, worker, m_readyCoros>>
    BY DEF HandleAccept
  <1>2. PICK c, new : AcceptEnd(o, c, new)
    BY AcceptEnds
  <1>. DEFINE os == ops \ {o}
              full == SqFull(os \cup new)
              more == IF full THEN {} ELSE {AcceptSqe}
  <1>3. /\ ops' = (os \cup new) \cup more
        /\ m_acceptPending' = (m_acceptPending \/ full)
    BY <1>2 DEF AcceptEnd, submitAccept
  <1>4. /\ \A x \in more : x.op = "ACCEPT" /\ x.ctx = None
        /\ full \/ \E x \in more : x.op = "ACCEPT" /\ x.ctx = None
    BY PermSqes
  <1>5. \A x \in new : x.op = "RECV" /\ x.ctx = c /\ x.stage = "sq" /\ x.res <= ChunkUnits
    <2>1. RecvSqe(c, o.fd).op = "RECV" /\ RecvSqe(c, o.fd).ctx = c
          /\ RecvSqe(c, o.fd).stage = "sq" /\ RecvSqe(c, o.fd).res = 0
      BY DEF RecvSqe, Sqe, Failed
    <2>. QED BY <1>0, <1>2, <2>1 DEF AcceptEnd
  <1>6. c \in Contexts /\ ctx'[c].connId = nextId /\ \A d \in Contexts \ {c} : ctx'[d] = ctx[d]
    BY <1>2 DEF AcceptEnd
  <1>. HIDE DEF full, more
  <1>7. Only(c)
    BY <1>0, <1>3, <1>4, <1>5, <1>6, NoneAssumption DEF Only
  <1>8. \A x \in ops' : x.op = "RECV" => x \in ops \/ x.res <= ChunkUnits
    BY <1>3, <1>4, <1>5
  <1>9. FlowOf(c, ctx', ops')
    <2>1. \A x \in ops' : ~(x.ctx = c /\ x.op = "SEND")
      BY <1>2, <1>3, <1>4, <1>5 DEF AcceptEnd, Has
    <2>2. ctx'[c].closing \/ Has(ops', c, "RECV")
      BY <1>2, <1>3, <1>5 DEF AcceptEnd, Has
    <2>3. /\ 0 < FrameUnits /\ ~(0 >= kMaxInflightPerConn)
          /\ 0 <= kMaxInflightPerConn - 1 + Burst
      BY <1>0
    <2>4. /\ ctx'[c].input = 0 /\ ctx'[c].outQueue = << >> /\ ctx'[c].pendingReqs = 0
          /\ ctx'[c].readPaused = FALSE
      BY <1>2 DEF AcceptEnd
    <2>5. \A i \in 1 .. Len(ctx'[c].outQueue) : FALSE
      BY <2>4
    <2>. QED BY <2>1, <2>2, <2>3, <2>4, <2>5 DEF FlowOf
  <1>10. ctx'[c].connId < nextId'
    BY <1>0, <1>1, <1>6
  <1>11. ConnFlow'
    <2>1. \A d \in m_allConns' : d # c => d \in m_allConns
      BY <1>2 DEF AcceptEnd
    <2>. QED BY <1>1, <1>7, <1>8, <1>9, <1>10, <2>1, ConnStep DEF FlowInv
  <1>12. \A x \in ops : x.op = "NOTIFY" => x \in ops'
    BY <1>0, <1>3
  <1>13. ArmedInv'
    <2>1. full \/ Has(ops', None, "ACCEPT")
      BY <1>3, <1>4 DEF Has
    <2>2. Has(ops, None, "NOTIFY") => Has(ops', None, "NOTIFY")
      BY <1>12 DEF Has
    <2>. QED BY <1>1, <1>3, <2>1, <2>2 DEF FlowInv, ArmedInv, Has
  <1>14. BufferInv'
    <2>1. Filled(ops') = Filled(ops)
      BY <1>0, <1>3, <1>4, <1>5 DEF Filled
    <2>. QED BY <1>1, <2>1, BuffersStay DEF FlowInv
  <1>15. NoLostWakeup'
    BY <1>1, <1>12, WakeStays DEF FlowInv
  <1>. QED BY <1>11, <1>13, <1>14, <1>15 DEF FlowInv

-----------------------------------------------------------------------------
(* The flow is in order when Run enters the loop. *)
LEMMA InitFlow == Init => FlowInv
  <1>. SUFFICES ASSUME Init PROVE FlowInv
    OBVIOUS
  <1>1. /\ ops = {AcceptSqe, NotifySqe} /\ m_allConns = {} /\ freeBufs = NBufs
        /\ ctx = [c \in Contexts |-> ResetContext(None, 0)] /\ nextId = 1
        /\ m_readyCoros = << >>
    BY DEF Init, KernelInit, ConnInit
  <1>2. ArmedInv /\ NoLostWakeup
    BY <1>1, PermSqes DEF ArmedInv, NoLostWakeup, Has
  <1>3. Filled(ops) = {}
    BY <1>1, PermSqes DEF Filled
  <1>4. BufferInv
    <2>1. IsFiniteSet({}) /\ Cardinality({}) = 0 /\ NBufs + 0 = NBufs
      BY FS_EmptySet, SizeAssumption
    <2>. QED BY <1>1, <1>3, <2>1 DEF BufferInv
  <1>5. \A c \in Contexts : ctx[c].connId = 0
    BY <1>1 DEF ResetContext
  <1>6. ConnFlow
    BY <1>1, <1>5, PermSqes DEF ConnFlow
  <1>. QED BY <1>2, <1>4, <1>6 DEF FlowInv

(* Every step keeps the flow. *)
LEMMA NextFlow ==
    ASSUME IInv, FlowInv, [Next]_vars
    PROVE  FlowInv'
  <1>1. ASSUME NEW o \in ops, ReactorOn(o) PROVE FlowInv'
    <2>1. CASE SubmitOne(o)
      BY <2>1, SubmitOneFlow
    <2>2. CASE ReapLast(o)
      BY <2>2, ReapLastFlow
    <2>3. CASE HandleAcceptError(o)
      BY <2>3, HandleAcceptErrorFlow
    <2>4. CASE HandleAccept(o)
      BY <2>4, HandleAcceptFlow
    <2>5. CASE HandleRecv(o)
      BY <2>5, HandleRecvFlow
    <2>6. CASE HandleSend(o)
      BY <2>6, HandleSendFlow
    <2>7. CASE HandleNotify(o)
      BY <2>7, HandleNotifyFlow
    <2>. QED BY <1>1, <2>1, <2>2, <2>3, <2>4, <2>5, <2>6, <2>7 DEF ReactorOn
  <1>2. CASE Reactor
    BY <1>1, <1>2, WaitReturnsFlow, StillFlow, ResumeCoroFlow, NotifyDoneFlow DEF Reactor
  <1>3. CASE \E w \in Workers : Worker(w)
    BY <1>3, WorkerFlow
  <1>4. CASE Kernel
    BY <1>4, KernelFlow
  <1>5. CASE UNCHANGED vars
    BY <1>5, StillFlow
  <1>. QED BY <1>2, <1>3, <1>4, <1>5 DEF Next

(* Requests and responses flow as uringrpcprovider.cc means them to: every *)
(* handler, kernel completion and worker step keeps FlowInv.               *)
THEOREM FlowInvariance == Spec => [](IInv /\ FlowInv)
  <1>1. Init => FlowInv
    BY InitFlow
  <1>2. IInv /\ FlowInv /\ [Next]_vars => FlowInv'
    BY NextFlow
  <1>. QED BY <1>1, <1>2, Invariance, PTL DEF Spec

(* The active contexts are the live ones. *)
LEMMA ActiveLive ==
    ASSUME IInv, NEW c \in Active
    PROVE  c \in m_allConns /\ c \in Contexts /\ ~ctx[c].closing
  BY NoneAssumption DEF Active, IInv, LifeInv

(* handleSend and deliverResponse: a SEND in flight reads the head of its  *)
(* connection's queue behind the bytes already out, one at a time, and a   *)
(* connection with something queued is sending.                            *)
THEOREM SendBuffers == Spec => []SendBufferStable
  <1>1. IInv /\ FlowInv => SendBufferStable
    <2>1. ASSUME IInv, FlowInv PROVE SendBufferStable
      <3>1. ASSUME NEW o \in ops, o.op = "SEND"
            PROVE  /\ ctx[o.ctx].outQueue # << >> /\ o.frame = Head(ctx[o.ctx].outQueue)
                   /\ o.off = ctx[o.ctx].written
        <4>1. o.ctx \in Contexts /\ ctx[o.ctx].outQueue # << >> /\ Has(ops, o.ctx, "SEND")
          BY <2>1, <3>1 DEF IInv, OpsInv, Has
        <4>2. o.ctx \in m_allConns
          BY <2>1, <4>1 DEF IInv, LifeInv
        <4>. QED BY <2>1, <3>1, <4>1, <4>2 DEF FlowInv, ConnFlow, FlowOf
      <3>2. ASSUME NEW c \in Active
            PROVE  /\ ctx[c].sending <=> OpsOf(c, "SEND") # {}
                   /\ ~ctx[c].sending => ctx[c].outQueue = << >>
        <4>1. c \in m_allConns /\ ~ctx[c].closing
          BY <2>1, ActiveLive
        <4>2. OpsOf(c, "SEND") # {} <=> Has(ops, c, "SEND")
          BY DEF OpsOf, Has
        <4>. QED BY <2>1, <4>1, <4>2 DEF IInv, FlagInv, FlowInv, ConnFlow, FlowOf
      <3>. QED BY <3>1, <3>2 DEF SendBufferStable
    <2>. QED BY <2>1
  <1>. QED BY <1>1, FlowInvariance, PTL

(* Back pressure: handleRecv never lets a connection have more requests    *)
(* outstanding than the threshold minus one and what one chunk completes.  *)
THEOREM BackPressure == Spec => []PendingBounded
  <1>1. IInv /\ FlowInv => PendingBounded
    <2>1. ASSUME IInv, FlowInv, NEW c \in Active
          PROVE  ctx[c].pendingReqs <=
                   kMaxInflightPerConn - 1 + ((FrameUnits - 1 + ChunkUnits) \div FrameUnits)
      <3>1. c \in m_allConns /\ ~ctx[c].closing
        BY <2>1, ActiveLive
      <3>. QED BY <2>1, <3>1 DEF FlowInv, ConnFlow, FlowOf, Burst
    <2>. QED BY <2>1 DEF PendingBounded
  <1>. QED BY <1>1, FlowInvariance, PTL

(* The reactor never loses its accept or its read of the eventfd: each is  *)
(* armed once, or remembered as pending (the SQ was full), or handled.     *)
THEOREM PermanentlyArmed == Spec => []PermanentOps
  <1>1. IInv /\ FlowInv => PermanentOps
    <2>1. ASSUME IInv, FlowInv PROVE PermanentOps
      <3>1. \A o1, o2 \in ops : o1.ctx = o2.ctx /\ o1.op = o2.op => o1 = o2
        BY <2>1 DEF IInv, OpsInv
      <3>2. \A o \in ops : o.op \in {"ACCEPT", "NOTIFY"} => o.ctx = None
        BY <2>1 DEF IInv, OpsInv
      <3>3. ASSUME NEW k \in {"ACCEPT", "NOTIFY"}, NEW S, S = {o \in ops : o.op = k}
            PROVE  /\ Has(ops, None, k) => Cardinality(S) = 1
                   /\ ~Has(ops, None, k) => Cardinality(S) = 0
        <4>1. ASSUME Has(ops, None, k) PROVE Cardinality(S) = 1
          <5>1. PICK o \in ops : o.ctx = None /\ o.op = k
            BY <4>1 DEF Has
          <5>2. S = {o}
            BY <3>1, <3>2, <3>3, <5>1
          <5>. QED BY <5>2, FS_Singleton
        <4>2. ASSUME ~Has(ops, None, k) PROVE Cardinality(S) = 0
          <5>1. S = {}
            BY <3>2, <3>3, <4>2 DEF Has
          <5>. QED BY <5>1, FS_EmptySet
        <4>. QED BY <4>1, <4>2
      <3>4. /\ m_acceptPending <=> ~Has(ops, None, "ACCEPT")
            /\ (m_notifyPending \/ pc = "notify") <=> ~Has(ops, None, "NOTIFY")
        BY <2>1 DEF IInv, PermInv, FlowInv, ArmedInv
      <3>. QED BY <3>3, <3>4 DEF PermanentOps
    <2>. QED BY <2>1
  <1>. QED BY <1>1, FlowInvariance, PTL

(* No provided buffer is lost: the reactor returns the buffer of every     *)
(* RECV completion, whatever becomes of the connection.                    *)
THEOREM BufferRing == Spec => []BuffersConserved
  <1>1. IInv /\ FlowInv => BuffersConserved
    BY DEF FlowInv, BufferInv, Filled, BuffersConserved
  <1>. QED BY <1>1, FlowInvariance, PTL

(* resumeOnReactor queues the coroutine before it writes the eventfd:      *)
(* no coroutine waits in m_readyCoros without a wake-up on its way.        *)
THEOREM WakeupsKept == Spec => []NoLostWakeup
  <1>1. IInv /\ FlowInv => NoLostWakeup
    BY DEF FlowInv
  <1>. QED BY <1>1, FlowInvariance, PTL

(* A step leaves a pooled context alone, or gives it a new connection. *)
LEMMA PooledKept ==
    ASSUME IInv, FlowInv, [Next]_vars, NEW c \in Contexts,
           ctx[c].closing, ctx[c].inflight = 0
    PROVE  ctx'[c] = ctx[c] \/ ctx'[c].connId # ctx[c].connId
  <1>1. ASSUME NEW o \in ops, ReactorOn(o)
        PROVE  ctx'[c] = ctx[c] \/ ctx'[c].connId # ctx[c].connId
    <2>1. CASE HandleRecv(o)
      BY <2>1, RecvFlow
    <2>2. CASE HandleSend(o)
      BY <2>2, SendFlow
    <2>3. CASE ReapLast(o)
      <3>1. /\ o.op \in {"RECV", "SEND"} /\ ctx[o.ctx].inflight - 1 = 0 /\ ctx' = Reaped(o)
        BY <2>3 DEF ReapLast, Reaps, LastOfClosing
      <3>. QED BY <3>1, ReapedFacts
    <2>4. CASE HandleAccept(o)
      <3>1. PICK d, new : AcceptEnd(o, d, new)
        BY <2>4, AcceptEnds
      <3>2. ctx[c].connId < nextId /\ ctx[c].connId \in Nat /\ nextId \in Nat
        BY ContextFields DEF FlowInv, ConnFlow, IInv, TypeOK, ConnTypeOK
      <3>. QED BY <3>1, <3>2 DEF AcceptEnd
    <2>5. CASE SubmitOne(o) \/ HandleAcceptError(o) \/ HandleNotify(o)
      BY <2>5 DEF SubmitOne, HandleAcceptError, HandleNotify, connVars
    <2>. QED BY <1>1, <2>1, <2>2, <2>3, <2>4, <2>5 DEF ReactorOn
  <1>2. CASE ResumeCoro
    BY <1>2, ResumeFlow
  <1>3. CASE WaitReturns \/ PeekEmpty \/ NotifyDone
    BY <1>3 DEF WaitReturns, PeekEmpty, NotifyDone, connVars
  <1>4. CASE (\E w \in Workers : Worker(w)) \/ Kernel \/ UNCHANGED vars
    BY <1>4 DEF Worker, WorkerTake, PoolDone, WorkerWake, Kernel, vars, connVars
  <1>. QED BY <1>1, <1>2, <1>3, <1>4 DEF Next, Reactor

(* ConnectionManager: once close or onComplete has recycled a context, no   *)
(* handler writes to it until acquire hands it to a new connection.         *)
THEOREM RecycledLeftAlone == Spec => RecycledUntouched
  <1>1. IInv /\ FlowInv /\ [Next]_vars =>
          [\A c \in Contexts :
             c \in Range(m_idlePool) /\ c \in Range(m_idlePool')
               => ctx'[c] = ctx[c] \/ ctx'[c].connId # ctx[c].connId]_vars
    <2>1. ASSUME IInv, FlowInv, [Next]_vars, NEW c \in Contexts, c \in Range(m_idlePool)
          PROVE  ctx'[c] = ctx[c] \/ ctx'[c].connId # ctx[c].connId
      <3>1. ctx[c].closing /\ ctx[c].inflight = 0
        <4>1. m_idlePool \in Seq(Contexts)
          BY <2>1 DEF IInv, TypeOK, ConnTypeOK
        <4>2. \E i \in 1 .. Len(m_idlePool) : m_idlePool[i] = c
          BY <2>1, <4>1 DEF Range
        <4>. QED BY <2>1, <4>2 DEF IInv, PoolInv
      <3>. QED BY <2>1, <3>1, PooledKept
    <2>. QED BY <2>1
  <1>. QED BY <1>1, FlowInvariance, PTL DEF Spec, RecycledUntouched

-----------------------------------------------------------------------------
(***************************************************************************)
(* Requests on their way.  First, what taking from and adding to the       *)
(* queues does to the requests in them.                                    *)
(***************************************************************************)

(* What is in a sequence. *)
LEMMA RangeOf ==
    ASSUME NEW S, NEW q \in Seq(S)
    PROVE  \A x : x \in Range(q) <=> \E i \in 1 .. Len(q) : q[i] = x
  BY DEF Range

(* Tail takes the head, which was there once. *)
LEMMA TailTakes ==
    ASSUME NEW S, NEW q \in Seq(S), q # << >>,
           \A i, j \in 1 .. Len(q) : q[i] = q[j] => i = j
    PROVE  /\ Range(Tail(q)) = Range(q) \ {Head(q)} /\ Head(q) \in Range(q)
           /\ \A i, j \in 1 .. Len(Tail(q)) : Tail(q)[i] = Tail(q)[j] => i = j
  <1>1. /\ Len(q) \in Nat /\ Len(q) >= 1 /\ Len(Tail(q)) = Len(q) - 1 /\ Head(q) = q[1]
        /\ \A i \in 1 .. Len(q) - 1 : Tail(q)[i] = q[i + 1]
        /\ Tail(q) \in Seq(S)
    OBVIOUS
  <1>2. \A i \in 1 .. Len(q) - 1 : i + 1 \in 1 .. Len(q) /\ i + 1 # 1
    BY <1>1
  <1>3. \A i \in 1 .. Len(q) : i = 1 \/ (i - 1 \in 1 .. Len(q) - 1 /\ (i - 1) + 1 = i)
    BY <1>1
  <1>4. 1 \in 1 .. Len(q)
    BY <1>1
  <1>5. \A x : x \in Range(Tail(q)) <=> \E i \in 1 .. Len(q) - 1 : q[i + 1] = x
    <2>1. PICK t \in Seq(S) : t = Tail(q)
      BY <1>1
    <2>2. \A x : x \in Range(t) <=> \E i \in 1 .. Len(t) : t[i] = x
      BY RangeOf
    <2>3. Len(t) = Len(q) - 1 /\ \A i \in 1 .. Len(q) - 1 : t[i] = q[i + 1]
      BY <1>1, <2>1
    <2>4. \A x : x \in Range(t) <=> \E i \in 1 .. Len(q) - 1 : q[i + 1] = x
      BY <2>2, <2>3
    <2>. QED BY <2>1, <2>4
  <1>6. \A x : x \in Range(q) <=> \E i \in 1 .. Len(q) : q[i] = x
    BY RangeOf
  <1>7. ASSUME NEW x PROVE x \in Range(Tail(q)) <=> x \in Range(q) /\ x # Head(q)
    <2>1. ASSUME x \in Range(Tail(q)) PROVE x \in Range(q) /\ x # Head(q)
      <3>1. PICK i \in 1 .. Len(q) - 1 : q[i + 1] = x
        BY <1>5, <2>1
      <3>. QED BY <1>1, <1>2, <1>4, <1>6, <3>1
    <2>2. ASSUME x \in Range(q), x # Head(q) PROVE x \in Range(Tail(q))
      <3>1. PICK i \in 1 .. Len(q) : q[i] = x
        BY <1>6, <2>2
      <3>2. i - 1 \in 1 .. Len(q) - 1 /\ (i - 1) + 1 = i
        BY <1>1, <1>3, <2>2, <3>1
      <3>. QED BY <1>5, <3>1, <3>2
    <2>. QED BY <2>1, <2>2
  <1>8. Head(q) \in Range(q)
    BY <1>1, <1>4, <1>6
  <1>9. ASSUME NEW i \in 1 .. Len(Tail(q)), NEW j \in 1 .. Len(Tail(q)), Tail(q)[i] = Tail(q)[j]
        PROVE  i = j
    <2>1. i + 1 = j + 1
      BY <1>1, <1>2, <1>9
    <2>. QED BY <1>1, <2>1
  <1>. QED BY <1>7, <1>8, <1>9

(* Append adds its element, once if it was not there. *)
LEMMA AppendAdds ==
    ASSUME NEW S, NEW q \in Seq(S), NEW x \in S
    PROVE  /\ Range(Append(q, x)) = Range(q) \cup {x}
           /\ (\A i, j \in 1 .. Len(q) : q[i] = q[j] => i = j) /\ x \notin Range(q) =>
                \A i, j \in 1 .. Len(Append(q, x)) : Append(q, x)[i] = Append(q, x)[j] => i = j
  <1>. DEFINE p == Append(q, x)
  <1>1. /\ Len(q) \in Nat /\ Len(p) = Len(q) + 1 /\ p \in Seq(S)
        /\ p[Len(q) + 1] = x /\ \A i \in 1 .. Len(q) : p[i] = q[i]
    OBVIOUS
  <1>2. \A i \in 1 .. Len(p) : i \in 1 .. Len(q) \/ i = Len(q) + 1
    BY <1>1
  <1>3. \A i \in 1 .. Len(q) : i \in 1 .. Len(p)
    BY <1>1
  <1>4. Len(q) + 1 \in 1 .. Len(p)
    BY <1>1
  <1>5. \A y : y \in Range(p) <=> \E i \in 1 .. Len(p) : p[i] = y
    BY <1>1, RangeOf
  <1>6. \A y : y \in Range(q) <=> \E i \in 1 .. Len(q) : q[i] = y
    BY RangeOf
  <1>. HIDE DEF p
  <1>7. Range(p) = Range(q) \cup {x}
    BY <1>1, <1>2, <1>3, <1>4, <1>5, <1>6
  <1>8. ASSUME \A i, j \in 1 .. Len(q) : q[i] = q[j] => i = j, x \notin Range(q)
        PROVE  \A i, j \in 1 .. Len(p) : p[i] = p[j] => i = j
    BY <1>1, <1>2, <1>6, <1>8
  <1>. QED BY <1>7, <1>8 DEF p

(* Concatenation of disjoint sequences without repetition. *)
LEMMA JoinAdds ==
    ASSUME NEW S, NEW q \in Seq(S), NEW t \in Seq(S)
    PROVE  /\ Range(q \o t) = Range(q) \cup Range(t)
           /\ /\ \A i, j \in 1 .. Len(q) : q[i] = q[j] => i = j
              /\ \A i, j \in 1 .. Len(t) : t[i] = t[j] => i = j
              /\ Range(q) \cap Range(t) = {}
              => \A i, j \in 1 .. Len(q \o t) : (q \o t)[i] = (q \o t)[j] => i = j
  <1>. DEFINE p == q \o t
              n == Len(q)
              m == Len(t)
  <1>1. /\ n \in Nat /\ m \in Nat /\ Len(p) = n + m /\ p \in Seq(S)
        /\ \A i \in 1 .. n : p[i] = q[i]
        /\ \A i \in 1 .. n + m : i > n => p[i] = t[i - n]
    OBVIOUS
  <1>2. \A y : y \in Range(p) <=> \E i \in 1 .. Len(p) : p[i] = y
    BY <1>1, RangeOf
  <1>3. /\ \A y : y \in Range(q) <=> \E i \in 1 .. n : q[i] = y
        /\ \A y : y \in Range(t) <=> \E i \in 1 .. m : t[i] = y
    BY RangeOf
  <1>. HIDE DEF p, n, m
  <1>4. \A i \in 1 .. n + m : i \in 1 .. n \/ (i > n /\ i - n \in 1 .. m)
    BY <1>1
  <1>5. \A i \in 1 .. m : i + n \in 1 .. n + m /\ i + n > n /\ (i + n) - n = i
    BY <1>1
  <1>6. \A i \in 1 .. n : i \in 1 .. n + m
    BY <1>1
  <1>7. \A i \in 1 .. m : p[i + n] = t[i]
    BY <1>1, <1>5
  <1>8. ASSUME NEW y PROVE y \in Range(p) <=> (y \in Range(q) \/ y \in Range(t))
    <2>1. ASSUME NEW i \in 1 .. n + m, p[i] = y PROVE y \in Range(q) \/ y \in Range(t)
      BY <1>1, <1>3, <1>4, <2>1
    <2>2. y \in Range(q) => y \in Range(p)
      BY <1>1, <1>2, <1>3, <1>6
    <2>3. y \in Range(t) => y \in Range(p)
      BY <1>1, <1>2, <1>3, <1>5, <1>7
    <2>. QED BY <1>1, <1>2, <2>1, <2>2, <2>3
  <1>9. ASSUME \A i, j \in 1 .. n : q[i] = q[j] => i = j,
               \A i, j \in 1 .. m : t[i] = t[j] => i = j,
               Range(q) \cap Range(t) = {}
        PROVE  \A i, j \in 1 .. Len(p) : p[i] = p[j] => i = j
    <2>. SUFFICES ASSUME NEW i \in 1 .. n + m, NEW j \in 1 .. n + m, p[i] = p[j]
                  PROVE  i = j
      BY <1>1
    <2>1. CASE i \in 1 .. n /\ j \in 1 .. n
      BY <1>1, <1>9, <2>1
    <2>2. CASE i > n /\ i - n \in 1 .. m /\ j > n /\ j - n \in 1 .. m
      <3>1. t[i - n] = t[j - n]
        BY <1>1, <2>2
      <3>2. i - n = j - n
        BY <1>9, <2>2, <3>1
      <3>. QED BY <1>1, <3>2
    <2>3. CASE i \in 1 .. n /\ j > n /\ j - n \in 1 .. m
      BY <1>1, <1>3, <1>9, <2>3
    <2>4. CASE j \in 1 .. n /\ i > n /\ i - n \in 1 .. m
      BY <1>1, <1>3, <1>9, <2>4
    <2>. QED BY <1>4, <2>1, <2>2, <2>3, <2>4
  <1>. QED BY <1>8, <1>9 DEF p, n, m

(* The same for the requests of a sequence of coroutines. *)
ReqsOf(s) == [i \in 1 .. Len(s) |-> s[i].req]

(* ReqsOf commutes with the operations on sequences. *)
LEMMA ReqsOfFacts ==
    ASSUME NEW s \in Seq(Coros)
    PROVE  /\ ReqsOf(s) \in Seq(Requests) /\ Len(ReqsOf(s)) = Len(s)
           /\ \A i \in 1 .. Len(s) : ReqsOf(s)[i] = s[i].req
           /\ Range(ReqsOf(s)) = {e.req : e \in Range(s)}
           /\ Distinct(s) <=>
                \A i, j \in 1 .. Len(ReqsOf(s)) : ReqsOf(s)[i] = ReqsOf(s)[j] => i = j
           /\ s # << >> => /\ ReqsOf(Tail(s)) = Tail(ReqsOf(s)) /\ ReqsOf(s) # << >>
                           /\ Head(ReqsOf(s)) = Head(s).req
           /\ \A e \in Coros : ReqsOf(Append(s, e)) = Append(ReqsOf(s), e.req)
  <1>. DEFINE q == ReqsOf(s)
  <1>1. Len(s) \in Nat /\ \A i \in 1 .. Len(s) : s[i] \in Coros /\ s[i].req \in Requests
    <2>1. \A e \in Coros : e.req \in Requests
      BY DEF Coros
    <2>. QED BY <2>1
  <1>2. q \in Seq(Requests) /\ Len(q) = Len(s) /\ \A i \in 1 .. Len(s) : q[i] = s[i].req
    BY <1>1 DEF ReqsOf
  <1>3. Range(q) = {e.req : e \in Range(s)}
    <2>1. \A y : y \in Range(q) <=> \E i \in 1 .. Len(s) : s[i].req = y
      BY <1>2, RangeOf
    <2>2. \A y : y \in Range(s) <=> \E i \in 1 .. Len(s) : s[i] = y
      BY RangeOf
    <2>. HIDE DEF q
    <2>. QED BY <2>1, <2>2
  <1>4. Distinct(s) <=> \A i, j \in 1 .. Len(q) : q[i] = q[j] => i = j
    <2>. HIDE DEF q
    <2>. QED BY <1>2 DEF Distinct
  <1>5. ASSUME s # << >>
        PROVE  ReqsOf(Tail(s)) = Tail(q) /\ q # << >> /\ Head(q) = Head(s).req
    <2>1. /\ Len(Tail(s)) = Len(s) - 1 /\ Len(s) >= 1 /\ Head(s) = s[1]
          /\ \A i \in 1 .. Len(s) - 1 : Tail(s)[i] = s[i + 1]
      BY <1>5
    <2>2. /\ q # << >> /\ Head(q) = q[1] /\ Tail(q) \in Seq(Requests)
          /\ Len(Tail(q)) = Len(s) - 1 /\ \A i \in 1 .. Len(s) - 1 : Tail(q)[i] = q[i + 1]
      <3>1. q \in Seq(Requests) /\ Len(q) >= 1
        BY <1>2, <2>1
      <3>. HIDE DEF q
      <3>2. q # << >>
        BY <3>1
      <3>3. /\ Head(q) = q[1] /\ Tail(q) \in Seq(Requests) /\ Len(Tail(q)) = Len(q) - 1
            /\ \A i \in 1 .. Len(q) - 1 : Tail(q)[i] = q[i + 1]
        BY <3>1, <3>2
      <3>. QED BY <1>2, <3>2, <3>3
    <2>3. \A i \in 1 .. Len(s) - 1 : i + 1 \in 1 .. Len(s)
      BY <1>1
    <2>4. Tail(q) = [i \in 1 .. Len(s) - 1 |-> Tail(q)[i]]
      <3>1. PICK t \in Seq(Requests) : t = Tail(q)
        BY <2>2
      <3>2. Len(t) = Len(s) - 1
        BY <2>2, <3>1
      <3>3. t = [i \in 1 .. Len(t) |-> t[i]]
        OBVIOUS
      <3>. HIDE DEF q
      <3>. QED BY <3>1, <3>2, <3>3
    <2>5. ReqsOf(Tail(s)) = [i \in 1 .. Len(s) - 1 |-> s[i + 1].req]
      BY <2>1 DEF ReqsOf
    <2>6. \A i \in 1 .. Len(s) - 1 : Tail(q)[i] = s[i + 1].req
      BY <1>2, <2>2, <2>3
    <2>7. 1 \in 1 .. Len(s)
      BY <1>1, <2>1
    <2>. HIDE DEF q
    <2>. QED BY <1>2, <2>1, <2>2, <2>4, <2>5, <2>6, <2>7
  <1>6. ASSUME NEW e \in Coros PROVE ReqsOf(Append(s, e)) = Append(q, e.req)
    <2>1. e.req \in Requests
      BY DEF Coros
    <2>. DEFINE p == Append(q, e.req)
    <2>2. /\ p \in Seq(Requests) /\ Len(p) = Len(s) + 1 /\ p[Len(s) + 1] = e.req
          /\ \A i \in 1 .. Len(s) : p[i] = q[i]
      <3>. HIDE DEF q
      <3>. QED BY <1>1, <1>2, <2>1
    <2>3. /\ Len(Append(s, e)) = Len(s) + 1 /\ Append(s, e)[Len(s) + 1] = e
          /\ \A i \in 1 .. Len(s) : Append(s, e)[i] = s[i]
      OBVIOUS
    <2>4. \A i \in 1 .. Len(s) + 1 : i \in 1 .. Len(s) \/ i = Len(s) + 1
      BY <1>1
    <2>. HIDE DEF q, p
    <2>5. p = [i \in 1 .. Len(s) + 1 |-> p[i]]
      BY <1>1, <2>2
    <2>6. \A i \in 1 .. Len(s) + 1 : p[i] = Append(s, e)[i].req
      BY <1>2, <2>2, <2>3, <2>4
    <2>7. ReqsOf(Append(s, e)) = [i \in 1 .. Len(s) + 1 |-> Append(s, e)[i].req]
      BY <2>3 DEF ReqsOf
    <2>. QED BY <2>5, <2>6, <2>7 DEF p
  <1>. HIDE DEF q
  <1>. QED BY <1>2, <1>3, <1>4, <1>5, <1>6 DEF q

(* The k requests that tryHandleRequest reads in a row. *)
NewReqs(fd, id, n, k) == [i \in 1 .. k |-> [fd |-> fd, connId |-> id, rid |-> n + i]]

(* They are new, different and as many as were read. *)
LEMMA NewReqsFacts ==
    ASSUME NEW fd \in Fds, NEW id \in Nat, NEW n \in Nat, NEW k \in Nat
    PROVE  LET t == NewReqs(fd, id, n, k) IN
           /\ t \in Seq(Requests)
           /\ \A i, j \in 1 .. Len(t) : t[i] = t[j] => i = j
           /\ \A r \in Range(t) : /\ r \in Requests /\ r.fd = fd /\ r.connId = id
                                  /\ r.rid > n /\ r.rid <= n + k
           /\ IsFiniteSet(Range(t)) /\ Cardinality(Range(t)) = k
  <1>. DEFINE t == NewReqs(fd, id, n, k)
              S == 1 .. k
  <1>1. \A i \in S : /\ t[i] = [fd |-> fd, connId |-> id, rid |-> n + i]
                     /\ n + i \in Nat /\ n + i > n /\ n + i <= n + k
    BY DEF NewReqs
  <1>2. \A i \in S : /\ t[i] \in Requests /\ t[i].fd = fd /\ t[i].connId = id
                     /\ t[i].rid = n + i /\ t[i].rid > n /\ t[i].rid <= n + k
    <2>. SUFFICES ASSUME NEW i \in S
                  PROVE  /\ t[i] \in Requests /\ t[i].fd = fd /\ t[i].connId = id
                         /\ t[i].rid = n + i
      BY <1>1
    <2>1. PICK m \in Nat : m = n + i
      BY <1>1
    <2>2. t[i] = [fd |-> fd, connId |-> id, rid |-> m]
      BY <1>1, <2>1
    <2>. HIDE DEF t
    <2>. QED BY <2>1, <2>2 DEF Requests
  <1>3. t \in Seq(Requests) /\ Len(t) = k
    <2>1. t = [i \in 1 .. k |-> t[i]] /\ \A i \in 1 .. k : t[i] \in Requests
      BY <1>2 DEF NewReqs
    <2>. HIDE DEF t
    <2>. QED BY <2>1
  <1>4. DOMAIN t = S
    BY DEF NewReqs
  <1>. HIDE DEF t
  <1>5. \A i, j \in S : t[i] = t[j] => i = j
    BY <1>2
  <1>6. \A r : r \in Range(t) <=> \E i \in S : t[i] = r
    BY <1>3, RangeOf
  <1>7. t \in Bijection(S, Range(t))
    <2>1. t \in [S -> Range(t)]
      <3>1. t = [i \in S |-> t[i]]
        BY <1>3
      <3>. QED BY <1>6, <3>1
    <2>2. IsInjective(t)
      BY <1>4, <1>5 DEF IsInjective
    <2>. QED BY <1>6, <2>1, <2>2 DEF Bijection, Injection, Surjection
  <1>8. IsFiniteSet(S) /\ Cardinality(S) = k
    BY FS_Interval
  <1>9. IsFiniteSet(Range(t)) /\ Cardinality(Range(t)) = k
    BY <1>7, <1>8, FS_Bijection DEF ExistsBijection
  <1>10. \A r \in Range(t) : /\ r \in Requests /\ r.fd = fd /\ r.connId = id
                             /\ r.rid > n /\ r.rid <= n + k
    BY <1>2, <1>6
  <1>. QED BY <1>3, <1>5, <1>9, <1>10 DEF t

-----------------------------------------------------------------------------
(***************************************************************************)
(* Each step moves a request from one place to the next.                   *)
(***************************************************************************)

(* A worker takes a request, hands its coroutine over, or wakes the reactor. *)
LEMMA WorkerPlaces ==
    ASSUME TypeOK, PlaceInv, BatchInv, NEW w \in Workers, Worker(w)
    PROVE  PlaceInv' /\ BatchInv' /\ OnTheWay' = OnTheWay
  <1>0. /\ worker \in [Workers -> WorkerStates] /\ m_taskQueue \in Seq(Requests)
        /\ m_readyCoros \in Seq(Coros) /\ ready \in Seq(Coros)
    BY DEF TypeOK
  <1>1. ready' = ready /\ pc' = pc
    BY DEF Worker, WorkerTake, PoolDone, WorkerWake
  <1>2. InBatch' = InBatch /\ Distinct(ready)'
    BY <1>1 DEF InBatch, PlaceInv, Distinct
  <1>3. /\ \A r : r \in InCall <=>
             \E v \in Workers : worker[v].st = "call" /\ worker[v].req = r
        /\ \A r : r \in InCall' <=>
             \E v \in Workers : worker'[v].st = "call" /\ worker'[v].req = r
    BY DEF InCall
  <1>4. \A v \in Workers : worker[v].st = "call" =>
          worker[v].req \in Requests /\ worker[v] = [st |-> "call", req |-> worker[v].req]
    BY <1>0, NoneAssumption DEF WorkerStates
  <1>5. /\ InQueue \cap InCall = {} /\ InQueue \cap Waiting = {} /\ InQueue \cap InBatch = {}
        /\ InCall \cap Waiting = {} /\ InCall \cap InBatch = {} /\ Waiting \cap InBatch = {}
    BY DEF PlaceInv
  <1>6. CASE WorkerTake(w)
    <2>1. PICK r \in Requests : r = Head(m_taskQueue) /\ m_taskQueue # << >>
      BY <1>0, <1>6 DEF WorkerTake
    <2>2. /\ worker' = [worker EXCEPT ![w] = [st |-> "call", req |-> r]]
          /\ m_taskQueue' = Tail(m_taskQueue) /\ worker[w].st = "idle" /\ m_readyCoros' = m_readyCoros
      BY <1>6, <2>1 DEF WorkerTake
    <2>3. /\ InQueue' = InQueue \ {r} /\ r \in InQueue
          /\ \A i, j \in 1 .. Len(m_taskQueue') : m_taskQueue'[i] = m_taskQueue'[j] => i = j
      BY <1>0, <2>1, <2>2, TailTakes DEF PlaceInv, InQueue
    <2>4. /\ worker'[w].st = "call" /\ worker'[w].req = r
          /\ \A v \in Workers \ {w} : worker'[v] = worker[v]
      BY <1>0, <2>2
    <2>5. InCall' = InCall \cup {r}
      BY <1>3, <2>2, <2>4
    <2>6. \A u, v \in Workers : worker'[u].st = "call" /\ worker'[v] = worker'[u] => u = v
      <3>1. r \notin InCall
        BY <1>5, <2>3
      <3>2. \A v \in Workers \ {w} : ~(worker[v].st = "call" /\ worker[v].req = r)
        BY <1>3, <3>1
      <3>. QED BY <2>4, <3>2 DEF PlaceInv
    <2>7. Waiting' = Waiting /\ Distinct(m_readyCoros)'
      BY <2>2 DEF Waiting, PlaceInv, Distinct
    <2>8. OnTheWay' = OnTheWay
      BY <1>2, <2>3, <2>5, <2>7 DEF OnTheWay
    <2>9. BatchInv'
      BY <1>1, <2>2 DEF BatchInv
    <2>10. /\ (InQueue \cap InCall)' = {} /\ (InQueue \cap Waiting)' = {}
           /\ (InQueue \cap InBatch)' = {} /\ (InCall \cap Waiting)' = {}
           /\ (InCall \cap InBatch)' = {} /\ (Waiting \cap InBatch)' = {}
      BY <1>2, <1>5, <2>3, <2>5, <2>7
    <2>. QED BY <1>2, <2>3, <2>6, <2>7, <2>8, <2>9, <2>10 DEF PlaceInv
  <1>7. CASE PoolDone(w)
    <2>1. PICK r \in Requests : r = worker[w].req
      BY <1>4, <1>7 DEF PoolDone
    <2>2. PICK fails \in {FALSE, MaySerializeFail} :
            m_readyCoros' = Append(m_readyCoros, [req |-> r, frameEmpty |-> fails])
      BY <1>7, <2>1 DEF PoolDone
    <2>. DEFINE e == [req |-> r, frameEmpty |-> fails]
    <2>3. /\ e \in Coros /\ e.req = r /\ e.frameEmpty = fails
          /\ m_readyCoros' = Append(m_readyCoros, e)
      BY <2>2, ProviderAssumption DEF Coros
    <2>4. /\ worker' = [worker EXCEPT ![w].st = "wake"] /\ worker[w].st = "call"
          /\ m_taskQueue' = m_taskQueue
      BY <1>7 DEF PoolDone
    <2>. HIDE DEF e
    <2>5. /\ worker'[w].st = "wake" /\ \A v \in Workers \ {w} : worker'[v] = worker[v]
      <3>1. PICK p : p = worker[w] /\ p = [st |-> "call", req |-> r]
        BY <1>4, <2>1, <2>4
      <3>2. worker' = [worker EXCEPT ![w] = [p EXCEPT !.st = "wake"]]
        BY <2>4, <3>1
      <3>. QED BY <1>0, <3>1, <3>2
    <2>6. r \in InCall /\ r \notin Waiting
      BY <1>3, <1>5, <2>1, <2>4
    <2>7. InCall' = InCall \ {r}
      <3>1. \A v \in Workers \ {w} : ~(worker[v].st = "call" /\ worker[v].req = r)
        BY <1>4, <2>1, <2>4 DEF PlaceInv
      <3>. QED BY <1>3, <2>1, <2>4, <2>5, <3>1
    <2>8. Waiting' = Waiting \cup {r} /\ Distinct(m_readyCoros)'
      <3>. DEFINE q == ReqsOf(m_readyCoros)
                  p == ReqsOf(m_readyCoros')
      <3>1. /\ q \in Seq(Requests) /\ p = Append(q, r) /\ Waiting = Range(q)
            /\ \A i, j \in 1 .. Len(q) : q[i] = q[j] => i = j
        BY <1>0, <2>3, ReqsOfFacts DEF PlaceInv, Waiting
      <3>2. m_readyCoros' \in Seq(Coros)
        BY <1>0, <2>3
      <3>3. /\ Waiting' = Range(p)
            /\ (\A i, j \in 1 .. Len(p) : p[i] = p[j] => i = j) => Distinct(m_readyCoros')
        BY <3>2, ReqsOfFacts DEF Waiting
      <3>. HIDE DEF p, q
      <3>4. Range(p) = Range(q) \cup {r} /\ \A i, j \in 1 .. Len(p) : p[i] = p[j] => i = j
        BY <2>6, <3>1, AppendAdds
      <3>. QED BY <3>1, <3>3, <3>4
    <2>9. InQueue' = InQueue
      BY <2>4 DEF InQueue
    <2>10. OnTheWay' = OnTheWay
      BY <1>2, <2>6, <2>7, <2>8, <2>9 DEF OnTheWay
    <2>11. BatchInv'
      <3>1. ~MaySerializeFail => \A i \in 1 .. Len(m_readyCoros') : ~m_readyCoros'[i].frameEmpty
        <4>1. /\ Len(m_readyCoros) \in Nat /\ Len(m_readyCoros') = Len(m_readyCoros) + 1
              /\ m_readyCoros'[Len(m_readyCoros) + 1] = e
              /\ \A i \in 1 .. Len(m_readyCoros) : m_readyCoros'[i] = m_readyCoros[i]
          BY <1>0, <2>3
        <4>2. \A i \in 1 .. Len(m_readyCoros') :
                i \in 1 .. Len(m_readyCoros) \/ i = Len(m_readyCoros) + 1
          BY <4>1
        <4>. QED BY <2>3, <4>1, <4>2 DEF BatchInv
      <3>. QED BY <1>1, <3>1 DEF BatchInv
    <2>12. /\ (InQueue \cap InCall)' = {} /\ (InQueue \cap Waiting)' = {}
           /\ (InQueue \cap InBatch)' = {} /\ (InCall \cap Waiting)' = {}
           /\ (InCall \cap InBatch)' = {} /\ (Waiting \cap InBatch)' = {}
      BY <1>2, <1>5, <2>6, <2>7, <2>8, <2>9
    <2>13. \A u, v \in Workers : worker'[u].st = "call" /\ worker'[v] = worker'[u] => u = v
      BY <2>5 DEF PlaceInv
    <2>14. \A i, j \in 1 .. Len(m_taskQueue') : m_taskQueue'[i] = m_taskQueue'[j] => i = j
      BY <2>4 DEF PlaceInv
    <2>. QED BY <1>2, <2>8, <2>10, <2>11, <2>12, <2>13, <2>14 DEF PlaceInv
  <1>8. CASE WorkerWake(w)
    <2>1. /\ worker' = [worker EXCEPT ![w] = Idle] /\ worker[w].st = "wake"
          /\ m_taskQueue' = m_taskQueue /\ m_readyCoros' = m_readyCoros
      BY <1>8 DEF WorkerWake
    <2>2. worker'[w].st = "idle" /\ \A v \in Workers \ {w} : worker'[v] = worker[v]
      BY <1>0, <2>1 DEF Idle
    <2>3. InCall' = InCall
      <3>1. \A v \in Workers : /\ worker'[v].st = "call" <=> worker[v].st = "call"
                               /\ worker[v].st = "call" => worker'[v].req = worker[v].req
        BY <2>1, <2>2
      <3>2. \A r : r \in InCall' <=> r \in InCall
        BY <1>3, <3>1
      <3>. QED BY <3>2
    <2>4. /\ InQueue' = InQueue /\ Waiting' = Waiting /\ BatchInv' /\ Distinct(m_readyCoros)'
          /\ \A i, j \in 1 .. Len(m_taskQueue') : m_taskQueue'[i] = m_taskQueue'[j] => i = j
      BY <1>1, <2>1 DEF InQueue, Waiting, BatchInv, PlaceInv, Distinct
    <2>5. \A u, v \in Workers : worker'[u].st = "call" /\ worker'[v] = worker'[u] => u = v
      BY <2>2 DEF PlaceInv
    <2>6. OnTheWay' = OnTheWay
      BY <1>2, <2>3, <2>4 DEF OnTheWay
    <2>7. /\ (InQueue \cap InCall)' = {} /\ (InQueue \cap Waiting)' = {}
          /\ (InQueue \cap InBatch)' = {} /\ (InCall \cap Waiting)' = {}
          /\ (InCall \cap InBatch)' = {} /\ (Waiting \cap InBatch)' = {}
      BY <1>2, <1>5, <2>3, <2>4
    <2>. QED BY <1>2, <2>4, <2>5, <2>6, <2>7 DEF PlaceInv
  <1>. QED BY <1>6, <1>7, <1>8 DEF Worker

(* The queues stay as they are. *)
LEMMA SamePlaces ==
    ASSUME PlaceInv, BatchInv, UNCHANGED <<m_taskQueue, worker, m_readyCoros, ready>>,
           pc' = pc \/ ready = << >>
    PROVE  PlaceInv' /\ BatchInv' /\ OnTheWay' = OnTheWay
  <1>1. /\ InQueue' = InQueue /\ InCall' = InCall /\ Waiting' = Waiting /\ InBatch' = InBatch
        /\ Distinct(m_readyCoros)' /\ Distinct(ready)'
    BY DEF InQueue, InCall, Waiting, InBatch, PlaceInv, Distinct
  <1>2. BatchInv'
    BY DEF BatchInv
  <1>. QED BY <1>1, <1>2 DEF PlaceInv, OnTheWay

(* handleNotify takes all of m_readyCoros. *)
LEMMA NotifyPlaces ==
    ASSUME PlaceInv, BatchInv, NEW STATE o, HandleNotify(o)
    PROVE  PlaceInv' /\ BatchInv' /\ OnTheWay' = OnTheWay
  <1>1. /\ ready = << >> /\ ready' = m_readyCoros /\ m_readyCoros' = << >> /\ pc' = "notify"
        /\ UNCHANGED <<m_taskQueue, worker>>
    BY DEF HandleNotify, Reaps, BatchInv
  <1>2. InQueue' = InQueue /\ InCall' = InCall
    BY <1>1 DEF InQueue, InCall
  <1>3. Waiting' = {} /\ InBatch = {} /\ InBatch' = Waiting
    BY <1>1 DEF Waiting, InBatch, Range
  <1>4. Distinct(m_readyCoros)' /\ Distinct(ready)'
    BY <1>1 DEF Distinct, PlaceInv
  <1>5. BatchInv'
    BY <1>1 DEF BatchInv
  <1>6. OnTheWay' = OnTheWay
    BY <1>2, <1>3 DEF OnTheWay
  <1>7. /\ (InQueue \cap InCall)' = {} /\ (InQueue \cap Waiting)' = {}
        /\ (InQueue \cap InBatch)' = {} /\ (InCall \cap Waiting)' = {}
        /\ (InCall \cap InBatch)' = {} /\ (Waiting \cap InBatch)' = {}
    BY <1>2, <1>3 DEF PlaceInv
  <1>. QED BY <1>1, <1>4, <1>5, <1>6, <1>7 DEF PlaceInv

(* A coroutine is resumed: its request has arrived. *)
LEMMA ResumePlaces ==
    ASSUME TypeOK, PlaceInv, BatchInv, ResumeCoro
    PROVE  /\ PlaceInv' /\ BatchInv' /\ OnTheWay' = OnTheWay \ {Head(ready).req}
           /\ Head(ready).req \in OnTheWay
  <1>1. /\ ready \in Seq(Coros) /\ ready # << >> /\ ready' = Tail(ready) /\ pc = "notify"
        /\ UNCHANGED <<m_taskQueue, worker, m_readyCoros, pc>>
    BY DEF ResumeCoro, TypeOK
  <1>2. /\ InQueue' = InQueue /\ InCall' = InCall /\ Waiting' = Waiting /\ Distinct(m_readyCoros)'
    BY <1>1 DEF InQueue, InCall, Waiting, PlaceInv, Distinct
  <1>. DEFINE r == Head(ready).req
              q == ReqsOf(ready)
              p == ReqsOf(ready')
  <1>3. /\ q \in Seq(Requests) /\ p = Tail(q) /\ q # << >> /\ Head(q) = r /\ InBatch = Range(q)
        /\ \A i, j \in 1 .. Len(q) : q[i] = q[j] => i = j
    BY <1>1, ReqsOfFacts DEF PlaceInv, InBatch
  <1>4. ready' \in Seq(Coros)
    BY <1>1
  <1>5. /\ InBatch' = Range(p)
        /\ (\A i, j \in 1 .. Len(p) : p[i] = p[j] => i = j) => Distinct(ready')
    BY <1>4, ReqsOfFacts DEF InBatch
  <1>. HIDE DEF p, q, r
  <1>6. InBatch' = InBatch \ {r} /\ r \in InBatch /\ Distinct(ready)'
    BY <1>3, <1>5, TailTakes
  <1>7. OnTheWay' = OnTheWay \ {r} /\ r \in OnTheWay
    BY <1>2, <1>6 DEF OnTheWay, PlaceInv
  <1>8. BatchInv'
    <2>1. \A i \in 1 .. Len(ready') : i + 1 \in 1 .. Len(ready) /\ ready'[i] = ready[i + 1]
      BY <1>1
    <2>. QED BY <1>1, <2>1 DEF BatchInv
  <1>9. /\ (InQueue \cap InCall)' = {} /\ (InQueue \cap Waiting)' = {}
        /\ (InQueue \cap InBatch)' = {} /\ (InCall \cap Waiting)' = {}
        /\ (InCall \cap InBatch)' = {} /\ (Waiting \cap InBatch)' = {}
    BY <1>2, <1>6 DEF PlaceInv
  <1>. QED BY <1>1, <1>2, <1>6, <1>7, <1>8, <1>9 DEF PlaceInv, r

(* New requests get in line. *)
LEMMA DispatchPlaces ==
    ASSUME TypeOK, PlaceInv, BatchInv, NEW STATE t, t \in Seq(Requests),
           \A i, j \in 1 .. Len(t) : t[i] = t[j] => i = j,
           Range(t) \cap OnTheWay = {}, m_taskQueue' = m_taskQueue \o t,
           UNCHANGED <<worker, m_readyCoros, ready, pc>>
    PROVE  PlaceInv' /\ BatchInv' /\ OnTheWay' = OnTheWay \cup Range(t)
  <1>1. /\ InCall' = InCall /\ Waiting' = Waiting /\ InBatch' = InBatch
        /\ Distinct(m_readyCoros)' /\ Distinct(ready)'
    BY DEF InCall, Waiting, InBatch, PlaceInv, Distinct
  <1>2. m_taskQueue \in Seq(Requests) /\ Range(m_taskQueue) \cap Range(t) = {}
    BY DEF TypeOK, OnTheWay, InQueue
  <1>3. /\ InQueue' = InQueue \cup Range(t)
        /\ \A i, j \in 1 .. Len(m_taskQueue') : m_taskQueue'[i] = m_taskQueue'[j] => i = j
    <2>1. PICK q \in Seq(Requests) : q = m_taskQueue
      BY <1>2
    <2>2. \A i, j \in 1 .. Len(q) : q[i] = q[j] => i = j
      BY <2>1 DEF PlaceInv
    <2>3. /\ Range(q \o t) = Range(q) \cup Range(t)
          /\ \A i, j \in 1 .. Len(q \o t) : (q \o t)[i] = (q \o t)[j] => i = j
      <3>1. Range(q) \cap Range(t) = {}
        BY <1>2, <2>1
      <3>2. Range(q \o t) = Range(q) \cup Range(t)
        BY JoinAdds
      <3>. QED BY <2>2, <3>1, <3>2, JoinAdds
    <2>4. m_taskQueue' = q \o t
      BY <2>1
    <2>. QED BY Zenon, <2>1, <2>3, <2>4 DEF InQueue
  <1>4. OnTheWay' = OnTheWay \cup Range(t)
    BY <1>1, <1>3 DEF OnTheWay
  <1>5. /\ (InQueue \cap InCall)' = {} /\ (InQueue \cap Waiting)' = {}
        /\ (InQueue \cap InBatch)' = {} /\ (InCall \cap Waiting)' = {}
        /\ (InCall \cap InBatch)' = {} /\ (Waiting \cap InBatch)' = {}
    BY <1>1, <1>3 DEF PlaceInv, OnTheWay
  <1>6. BatchInv'
    BY DEF BatchInv
  <1>. QED BY <1>1, <1>3, <1>4, <1>5, <1>6 DEF PlaceInv

-----------------------------------------------------------------------------
(***************************************************************************)
(* What the steps do to the requests of a connection.                      *)
(***************************************************************************)
Stays(c) ==
    c \in Alive /\ ctx'[c].connId = ctx[c].connId /\ ctx'[c].fd = ctx[c].fd

(* Connection c is left alone, if it is left at all. *)
Kept(c) ==
    c \in Alive' =>
      Stays(c) /\ ctx'[c].outQueue = ctx[c].outQueue /\ ctx'[c].pendingReqs = ctx[c].pendingReqs

(* No connection has more or less to wait for. *)
LEMMA QuietAsks ==
    ASSUME AskInv, CountInv, \A c \in Alive' : Kept(c), OnTheWay' = OnTheWay,
           UNCHANGED <<dispatched, nextId>>
    PROVE  AskInv' /\ CountInv'
  <1>1. \A c \in Alive' :
          /\ c \in Alive /\ ctx'[c].connId = ctx[c].connId /\ ctx'[c].fd = ctx[c].fd
          /\ ctx'[c].outQueue = ctx[c].outQueue /\ ctx'[c].pendingReqs = ctx[c].pendingReqs
    BY DEF Kept, Stays
  <1>2. AskInv'
    <2>1. /\ \A r \in OnTheWay : r.connId \in 1 .. nextId - 1 /\ r.rid <= dispatched[r.connId]
          /\ \A c, d \in Alive' : ctx'[c].connId = ctx'[d].connId => c = d
          /\ \A c \in Alive' : \A r \in OnTheWay :
               r.connId = ctx'[c].connId => r.fd = ctx'[c].fd
          /\ \A c \in Alive' : \A i \in 1 .. Len(ctx'[c].outQueue) :
               /\ ctx'[c].outQueue[i] \notin OnTheWay
               /\ ctx'[c].outQueue[i].rid <= dispatched[ctx'[c].connId]
               /\ \A j \in 1 .. Len(ctx'[c].outQueue) :
                    ctx'[c].outQueue[i] = ctx'[c].outQueue[j] => i = j
      BY <1>1 DEF AskInv
    <2>. QED BY <2>1 DEF AskInv
  <1>3. \A c \in Alive' : Asked(c)' = Asked(c)
    BY <1>1 DEF Asked
  <1>. QED BY <1>1, <1>2, <1>3 DEF CountInv

(* Everything on its way is a request. *)
LEMMA OnTheWayType ==
    ASSUME TypeOK PROVE OnTheWay \subseteq Requests
  <1>1. /\ m_taskQueue \in Seq(Requests) /\ worker \in [Workers -> WorkerStates]
        /\ m_readyCoros \in Seq(Coros) /\ ready \in Seq(Coros)
    BY DEF TypeOK
  <1>2. InQueue \subseteq Requests
    BY <1>1, RangeOf DEF InQueue
  <1>3. InCall \subseteq Requests
    BY <1>1, NoneAssumption DEF InCall, WorkerStates
  <1>4. Waiting \subseteq Requests /\ InBatch \subseteq Requests
    <2>1. \A e \in Coros : e.req \in Requests
      BY DEF Coros
    <2>2. ASSUME NEW q \in Seq(Coros) PROVE Range(q) \subseteq Coros
      <3>1. \A e : e \in Range(q) => \E i \in 1 .. Len(q) : q[i] = e
        BY RangeOf
      <3>2. \A i \in 1 .. Len(q) : q[i] \in Coros
        OBVIOUS
      <3>. QED BY <3>1, <3>2
    <2>3. Range(m_readyCoros) \subseteq Coros /\ Range(ready) \subseteq Coros
      BY <1>1, <2>2
    <2>. QED BY <2>1, <2>3 DEF Waiting, InBatch
  <1>. QED BY <1>2, <1>3, <1>4 DEF OnTheWay

(* What a live connection has queued was asked for by it. *)
LEMMA AliveAsks ==
    ASSUME FlowInv, NEW c \in Alive
    PROVE  \A i \in 1 .. Len(ctx[c].outQueue) : ctx[c].outQueue[i].connId = ctx[c].connId
  BY DEF Alive, FlowInv, ConnFlow, FlowOf

(* The ids in use are those of sockets. *)
LEMMA IdsInUse ==
    ASSUME IInv
    PROVE  /\ \A id \in 1 .. nextId - 1 : id \in Socks /\ dispatched[id] \in Nat /\ id \in Nat
           /\ \A c \in Alive : ctx[c].connId \in 1 .. nextId - 1 /\ ctx[c].fd \in Fds
                               /\ m_active[ctx[c].fd] = c /\ c \in Contexts /\ c # None
  <1>1. nextId \in Nat /\ nSock \in Nat /\ nSock <= MaxConns /\ nextId <= nSock + 1 /\ MaxConns \in Nat
    BY SizeAssumption DEF IInv, TypeOK, ConnTypeOK, KernelTypeOK, SockInv, RangeInv
  <1>2. \A id \in 1 .. nextId - 1 : id \in Socks /\ id \in Nat
    BY <1>1 DEF Socks
  <1>3. \A id \in Socks : dispatched[id] \in Nat
    BY DEF IInv, TypeOK
  <1>4. \A c \in Alive : ctx[c].fd \in Fds /\ m_active[ctx[c].fd] = c /\ c \in Contexts /\ c # None
    BY NoneAssumption DEF Alive, IInv, LifeInv, TypeOK, ConnTypeOK
  <1>5. \A c \in Alive : ctx[c].connId \in 1 .. nextId - 1
    BY <1>4 DEF IInv, SockInv
  <1>. QED BY <1>2, <1>3, <1>4, <1>5

(* Connection c has asked for k more. *)
LEMMA DispatchAsks ==
    ASSUME IInv, FlowInv, AskInv, CountInv, NEW STATE c, c \in Alive, NEW STATE k, k \in Nat,
           NEW STATE new, new \cap OnTheWay = {}, OnTheWay' = OnTheWay \cup new,
           \A r \in new : /\ r \in Requests /\ r.fd = ctx[c].fd /\ r.connId = ctx[c].connId
                          /\ r.rid > dispatched[ctx[c].connId]
                          /\ r.rid <= dispatched[ctx[c].connId] + k,
           IsFiniteSet(new), Cardinality(new) = k,
           dispatched' = [dispatched EXCEPT ![ctx[c].connId] = @ + k],
           nextId' = nextId, \A d \in Alive' \ {c} : Kept(d),
           c \in Alive' => /\ Stays(c) /\ ctx'[c].outQueue = ctx[c].outQueue
                           /\ ctx'[c].pendingReqs = ctx[c].pendingReqs + k,
           \A d \in Alive : ctx[d].outQueue \in Seq(Requests)
    PROVE  AskInv' /\ CountInv'
  <1>. DEFINE id == ctx[c].connId
  <1>1. /\ \A i \in 1 .. nextId - 1 : i \in Socks /\ dispatched[i] \in Nat
        /\ id \in 1 .. nextId - 1 /\ dispatched \in [Socks -> Nat]
    BY IdsInUse DEF IInv, TypeOK
  <1>2. /\ \A d \in Alive' :
             /\ d \in Alive /\ ctx'[d].connId = ctx[d].connId /\ ctx'[d].fd = ctx[d].fd
             /\ ctx'[d].outQueue = ctx[d].outQueue
        /\ \A d \in Alive' \ {c} : ctx'[d].pendingReqs = ctx[d].pendingReqs
    BY DEF Kept, Stays
  <1>3. \A i \in 1 .. nextId - 1 : dispatched'[i] = IF i = id THEN dispatched[i] + k ELSE dispatched[i]
    BY <1>1
  <1>4. \A d \in Alive : ctx[d].connId \in 1 .. nextId - 1 /\ ctx[d].connId \in Nat
    BY IdsInUse
  <1>5. \A d \in Alive : d # c => ctx[d].connId # id
    BY DEF AskInv
  <1>. HIDE DEF id
  <1>6. \A r \in OnTheWay \cup new : r.connId \in 1 .. nextId - 1 /\ r.rid <= dispatched'[r.connId]
    <2>1. ASSUME NEW r \in OnTheWay PROVE r.connId \in 1 .. nextId - 1 /\ r.rid <= dispatched'[r.connId]
      <3>1. r.connId \in 1 .. nextId - 1 /\ r.rid <= dispatched[r.connId]
        BY DEF AskInv
      <3>2. r.rid \in Int
        BY OnTheWayType DEF IInv, Requests
      <3>. QED BY <1>1, <1>3, <3>1, <3>2
    <2>2. ASSUME NEW r \in new PROVE r.connId \in 1 .. nextId - 1 /\ r.rid <= dispatched'[r.connId]
      BY <1>1, <1>3 DEF id
    <2>. QED BY <2>1, <2>2
  <1>7. \A d \in Alive : \A r \in OnTheWay \cup new : r.connId = ctx[d].connId => r.fd = ctx[d].fd
    BY <1>5 DEF AskInv, id
  <1>8. \A d \in Alive : \A i \in 1 .. Len(ctx[d].outQueue) :
          /\ ctx[d].outQueue[i] \notin OnTheWay \cup new
          /\ ctx[d].outQueue[i].rid <= dispatched'[ctx[d].connId]
    <2>. SUFFICES ASSUME NEW d \in Alive, NEW i \in 1 .. Len(ctx[d].outQueue)
                  PROVE  /\ ctx[d].outQueue[i] \notin OnTheWay \cup new
                         /\ ctx[d].outQueue[i].rid <= dispatched'[ctx[d].connId]
      OBVIOUS
    <2>1. PICK r \in Requests : r = ctx[d].outQueue[i]
      OBVIOUS
    <2>2. r \notin OnTheWay /\ r.rid <= dispatched[ctx[d].connId] /\ r.rid \in Nat
      BY <2>1 DEF AskInv, Requests
    <2>3. r.rid <= dispatched'[ctx[d].connId]
      <3>1. PICK x \in 1 .. nextId - 1 : x = ctx[d].connId
        BY <1>4
      <3>2. dispatched'[x] = dispatched[x] + k \/ dispatched'[x] = dispatched[x]
        BY <1>3
      <3>3. dispatched[x] \in Nat /\ r.rid <= dispatched[x]
        BY <1>1, <2>2, <3>1
      <3>4. r.rid <= dispatched'[x]
        BY <2>2, <3>2, <3>3
      <3>. QED BY <3>1, <3>4
    <2>4. r \notin new
      <3>. SUFFICES ASSUME r \in new PROVE FALSE
        OBVIOUS
      <3>1. r.connId = id /\ r.rid > dispatched[id]
        BY DEF id
      <3>2. r.connId = ctx[d].connId
        BY <2>1, AliveAsks
      <3>. QED BY <1>1, <2>2, <3>1, <3>2
    <2>. QED BY <2>1, <2>2, <2>3, <2>4
  <1>9. AskInv'
    <2>1. /\ \A x, d \in Alive' : ctx'[x].connId = ctx'[d].connId => x = d
          /\ \A d \in Alive' : \A r \in OnTheWay \cup new :
               r.connId = ctx'[d].connId => r.fd = ctx'[d].fd
      BY <1>2, <1>7 DEF AskInv
    <2>2. \A d \in Alive' : \A i \in 1 .. Len(ctx'[d].outQueue) :
               /\ ctx'[d].outQueue[i] \notin OnTheWay \cup new
               /\ ctx'[d].outQueue[i].rid <= dispatched'[ctx'[d].connId]
               /\ \A j \in 1 .. Len(ctx'[d].outQueue) :
                    ctx'[d].outQueue[i] = ctx'[d].outQueue[j] => i = j
      BY <1>2, <1>8 DEF AskInv
    <2>. QED BY <1>6, <2>1, <2>2 DEF AskInv
  <1>10. CountInv'
    <2>. SUFFICES ASSUME ~MaySerializeFail, NEW d \in Alive'
                  PROVE  IsFiniteSet(Asked(d)') /\ ctx'[d].pendingReqs = Cardinality(Asked(d)')
      BY DEF CountInv
    <2>1. /\ d \in Alive /\ IsFiniteSet(Asked(d)) /\ ctx[d].pendingReqs = Cardinality(Asked(d))
      BY <1>2 DEF CountInv
    <2>2. CASE d # c
      <3>1. Asked(d)' = Asked(d)
        BY <1>2, <1>5, <2>1, <2>2 DEF Asked, id
      <3>. QED BY <1>2, <2>1, <2>2, <3>1
    <2>3. CASE d = c
      <3>1. Asked(d)' = Asked(d) \cup new
        BY <1>2, <2>1, <2>3 DEF Asked
      <3>2. Asked(d) \cap new = {}
        <4>1. \A x : x \in Range(ctx[d].outQueue) <=> \E i \in 1 .. Len(ctx[d].outQueue) : ctx[d].outQueue[i] = x
          BY <2>1, RangeOf
        <4>. QED BY <1>8, <2>1, <4>1 DEF Asked
      <3>3. /\ IsFiniteSet(Asked(d) \cup new)
            /\ Cardinality(Asked(d) \cup new) = Cardinality(Asked(d)) + k - Cardinality(Asked(d) \cap new)
        BY <2>1, FS_Union
      <3>4. Cardinality(Asked(d) \cap new) = 0 /\ Cardinality(Asked(d)) \in Nat
        BY <2>1, <3>2, FS_EmptySet, FS_CardinalityType
      <3>5. Cardinality(Asked(d) \cup new) = Cardinality(Asked(d)) + k
        BY <3>3, <3>4
      <3>. QED BY <1>2, <2>1, <2>3, <3>1, <3>3, <3>5
    <2>. QED BY <2>2, <2>3
  <1>. QED BY <1>9, <1>10

(* Connection c has been sent its next response. *)
LEMMA PopAsks ==
    ASSUME AskInv, CountInv, NEW STATE c, c \in Alive, ctx[c].outQueue # << >>,
           ctx[c].outQueue \in Seq(Requests), OnTheWay' = OnTheWay,
           UNCHANGED <<dispatched, nextId>>, \A d \in Alive' \ {c} : Kept(d),
           c \in Alive' => /\ Stays(c) /\ ctx'[c].outQueue = Tail(ctx[c].outQueue)
                           /\ ctx'[c].pendingReqs = ctx[c].pendingReqs - 1
    PROVE  AskInv' /\ CountInv'
  <1>. DEFINE q == ctx[c].outQueue
              h == Head(q)
              t == Tail(q)
  <1>1. /\ \A d \in Alive' :
             d \in Alive /\ ctx'[d].connId = ctx[d].connId /\ ctx'[d].fd = ctx[d].fd
        /\ \A d \in Alive' \ {c} :
             ctx'[d].outQueue = ctx[d].outQueue /\ ctx'[d].pendingReqs = ctx[d].pendingReqs
        /\ c \in Alive' => ctx'[c].outQueue = t
    BY DEF Kept, Stays
  <1>2. \A i, j \in 1 .. Len(q) : q[i] = q[j] => i = j
    BY DEF AskInv
  <1>3. /\ Range(t) = Range(q) \ {h} /\ h \in Range(q)
        /\ \A i, j \in 1 .. Len(t) : t[i] = t[j] => i = j
    BY <1>2, TailTakes
  <1>4. \A i \in 1 .. Len(t) : i + 1 \in 1 .. Len(q) /\ t[i] = q[i + 1]
    OBVIOUS
  <1>5. \A x : x \in Range(q) => \E i \in 1 .. Len(q) : q[i] = x
    BY RangeOf
  <1>6. \A i \in 1 .. Len(q) : q[i] \notin OnTheWay /\ q[i].rid <= dispatched[ctx[c].connId]
    BY DEF AskInv
  <1>. HIDE DEF t, q, h
  <1>7. \A d \in Alive' : \A i \in 1 .. Len(ctx'[d].outQueue) :
          /\ ctx'[d].outQueue[i] \notin OnTheWay
          /\ ctx'[d].outQueue[i].rid <= dispatched[ctx'[d].connId]
          /\ \A j \in 1 .. Len(ctx'[d].outQueue) :
               ctx'[d].outQueue[i] = ctx'[d].outQueue[j] => i = j
    <2>. SUFFICES ASSUME NEW d \in Alive'
                  PROVE  \A i \in 1 .. Len(ctx'[d].outQueue) :
                           /\ ctx'[d].outQueue[i] \notin OnTheWay
                           /\ ctx'[d].outQueue[i].rid <= dispatched[ctx'[d].connId]
                           /\ \A j \in 1 .. Len(ctx'[d].outQueue) :
                                ctx'[d].outQueue[i] = ctx'[d].outQueue[j] => i = j
      OBVIOUS
    <2>1. CASE d = c
      <3>1. \A i \in 1 .. Len(t) : t[i] \notin OnTheWay /\ t[i].rid <= dispatched[ctx[c].connId]
        BY <1>4, <1>6
      <3>. QED BY <1>1, <1>3, <2>1, <3>1
    <2>2. CASE d # c
      BY <1>1, <2>2 DEF AskInv
    <2>. QED BY <2>1, <2>2
  <1>8. AskInv'
    <2>1. /\ \A r \in OnTheWay : r.connId \in 1 .. nextId - 1 /\ r.rid <= dispatched[r.connId]
          /\ \A x, d \in Alive' : ctx'[x].connId = ctx'[d].connId => x = d
          /\ \A d \in Alive' : \A r \in OnTheWay :
               r.connId = ctx'[d].connId => r.fd = ctx'[d].fd
      BY <1>1 DEF AskInv
    <2>. QED BY <1>7, <2>1 DEF AskInv
  <1>9. CountInv'
    <2>. SUFFICES ASSUME ~MaySerializeFail, NEW d \in Alive'
                  PROVE  IsFiniteSet(Asked(d)') /\ ctx'[d].pendingReqs = Cardinality(Asked(d)')
      BY DEF CountInv
    <2>1. d \in Alive /\ IsFiniteSet(Asked(d)) /\ ctx[d].pendingReqs = Cardinality(Asked(d))
      BY <1>1 DEF CountInv
    <2>2. CASE d # c
      <3>1. Asked(d)' = Asked(d)
        BY <1>1, <2>2 DEF Asked
      <3>. QED BY <1>1, <2>1, <2>2, <3>1
    <2>3. CASE d = c
      <3>1. h \notin OnTheWay
        BY <1>3, <1>5, <1>6
      <3>2. Asked(d)' = Asked(d) \ {h} /\ h \in Asked(d)
        BY <1>1, <1>3, <2>3, <3>1 DEF Asked, q
      <3>3. IsFiniteSet(Asked(d) \ {h}) /\ Cardinality(Asked(d) \ {h}) = Cardinality(Asked(d)) - 1
        BY <2>1, <3>2, FS_RemoveElement
      <3>. QED BY <2>1, <2>3, <3>2, <3>3
    <2>. QED BY <2>2, <2>3
  <1>. QED BY <1>8, <1>9

(* The response r is queued on the connection c that asked. *)
LEMMA DeliverAsks ==
    ASSUME AskInv, CountInv, NEW STATE c, c \in Alive, NEW STATE r, r \in OnTheWay,
           r \in Requests, r.connId = ctx[c].connId, ctx[c].outQueue \in Seq(Requests),
           OnTheWay' = OnTheWay \ {r}, UNCHANGED <<dispatched, nextId>>,
           \A d \in Alive' \ {c} : Kept(d),
           c \in Alive' => /\ Stays(c) /\ ctx'[c].outQueue = Append(ctx[c].outQueue, r)
                           /\ ctx'[c].pendingReqs = ctx[c].pendingReqs
    PROVE  AskInv' /\ CountInv'
  <1>. DEFINE q == ctx[c].outQueue
              t == Append(q, r)
  <1>1. /\ \A d \in Alive' : /\ d \in Alive /\ ctx'[d].connId = ctx[d].connId
                             /\ ctx'[d].fd = ctx[d].fd /\ ctx'[d].pendingReqs = ctx[d].pendingReqs
        /\ \A d \in Alive' \ {c} : ctx'[d].outQueue = ctx[d].outQueue
        /\ c \in Alive' => ctx'[c].outQueue = t
    BY DEF Kept, Stays
  <1>2. \A i \in 1 .. Len(q) :
          /\ q[i] \notin OnTheWay /\ q[i].rid <= dispatched[ctx[c].connId]
          /\ \A j \in 1 .. Len(q) : q[i] = q[j] => i = j
    BY DEF AskInv
  <1>3. r.rid <= dispatched[ctx[c].connId]
    BY DEF AskInv
  <1>4. r \notin Range(q)
    <2>1. \A x : x \in Range(q) => \E i \in 1 .. Len(q) : q[i] = x
      BY RangeOf
    <2>. QED BY <1>2, <2>1
  <1>5. Range(t) = Range(q) \cup {r} /\ \A i, j \in 1 .. Len(t) : t[i] = t[j] => i = j
    <2>1. PICK p \in Seq(Requests) : p = q
      OBVIOUS
    <2>. HIDE DEF q
    <2>2. (\A i, j \in 1 .. Len(p) : p[i] = p[j] => i = j) /\ r \notin Range(p)
      BY <1>2, <1>4, <2>1
    <2>3. /\ Range(Append(p, r)) = Range(p) \cup {r}
          /\ \A i, j \in 1 .. Len(Append(p, r)) :
               Append(p, r)[i] = Append(p, r)[j] => i = j
      BY <2>2, AppendAdds
    <2>. QED BY Zenon, <2>1, <2>3
  <1>6. \A i \in 1 .. Len(t) : (i \in 1 .. Len(q) /\ t[i] = q[i]) \/ t[i] = r
    OBVIOUS
  <1>. HIDE DEF t, q
  <1>7. \A d \in Alive' : \A i \in 1 .. Len(ctx'[d].outQueue) :
          /\ ctx'[d].outQueue[i] \notin OnTheWay \ {r}
          /\ ctx'[d].outQueue[i].rid <= dispatched[ctx'[d].connId]
          /\ \A j \in 1 .. Len(ctx'[d].outQueue) :
               ctx'[d].outQueue[i] = ctx'[d].outQueue[j] => i = j
    <2>. SUFFICES ASSUME NEW d \in Alive'
                  PROVE  \A i \in 1 .. Len(ctx'[d].outQueue) :
                           /\ ctx'[d].outQueue[i] \notin OnTheWay \ {r}
                           /\ ctx'[d].outQueue[i].rid <= dispatched[ctx'[d].connId]
                           /\ \A j \in 1 .. Len(ctx'[d].outQueue) :
                                ctx'[d].outQueue[i] = ctx'[d].outQueue[j] => i = j
      OBVIOUS
    <2>1. CASE d = c
      <3>1. \A i \in 1 .. Len(t) :
              t[i] \notin OnTheWay \ {r} /\ t[i].rid <= dispatched[ctx[c].connId]
        BY <1>2, <1>3, <1>6
      <3>. QED BY <1>1, <1>5, <2>1, <3>1
    <2>2. CASE d # c
      BY <1>1, <2>2 DEF AskInv
    <2>. QED BY <2>1, <2>2
  <1>8. AskInv'
    <2>1. /\ \A x \in OnTheWay \ {r} : x.connId \in 1 .. nextId - 1 /\ x.rid <= dispatched[x.connId]
          /\ \A x, d \in Alive' : ctx'[x].connId = ctx'[d].connId => x = d
          /\ \A d \in Alive' : \A x \in OnTheWay \ {r} :
               x.connId = ctx'[d].connId => x.fd = ctx'[d].fd
      BY <1>1 DEF AskInv
    <2>. QED BY <1>7, <2>1 DEF AskInv
  <1>9. \A d \in Alive' : Asked(d)' = Asked(d)
    <2>. SUFFICES ASSUME NEW d \in Alive' PROVE Asked(d)' = Asked(d)
      OBVIOUS
    <2>1. CASE d = c
      BY <1>1, <1>5, <2>1 DEF Asked, q
    <2>2. CASE d # c
      <3>1. r.connId # ctx[d].connId
        BY <1>1, <2>2 DEF AskInv
      <3>. QED BY <1>1, <2>2, <3>1 DEF Asked
    <2>. QED BY <2>1, <2>2
  <1>10. CountInv'
    BY <1>1, <1>9 DEF CountInv
  <1>. QED BY <1>8, <1>10

(* The response r goes nowhere: its connection is gone, or it did not       *)
(* serialize, and then nothing is said of the counter.                      *)
LEMMA StaleAsks ==
    ASSUME AskInv, CountInv, NEW STATE r, OnTheWay' = OnTheWay \ {r},
           UNCHANGED <<dispatched, nextId>>, \A d \in Alive' : Kept(d),
           MaySerializeFail \/ \A d \in Alive : r.connId # ctx[d].connId
    PROVE  AskInv' /\ CountInv'
  <1>1. \A d \in Alive' :
          /\ d \in Alive /\ ctx'[d].connId = ctx[d].connId /\ ctx'[d].fd = ctx[d].fd
          /\ ctx'[d].outQueue = ctx[d].outQueue /\ ctx'[d].pendingReqs = ctx[d].pendingReqs
    BY DEF Kept, Stays
  <1>2. AskInv'
    <2>1. /\ \A x \in OnTheWay \ {r} : x.connId \in 1 .. nextId - 1 /\ x.rid <= dispatched[x.connId]
          /\ \A c, d \in Alive' : ctx'[c].connId = ctx'[d].connId => c = d
          /\ \A c \in Alive' : \A x \in OnTheWay \ {r} :
               x.connId = ctx'[c].connId => x.fd = ctx'[c].fd
          /\ \A c \in Alive' : \A i \in 1 .. Len(ctx'[c].outQueue) :
               /\ ctx'[c].outQueue[i] \notin OnTheWay \ {r}
               /\ ctx'[c].outQueue[i].rid <= dispatched[ctx'[c].connId]
               /\ \A j \in 1 .. Len(ctx'[c].outQueue) :
                    ctx'[c].outQueue[i] = ctx'[c].outQueue[j] => i = j
      BY <1>1 DEF AskInv
    <2>. QED BY <2>1 DEF AskInv
  <1>3. ASSUME ~MaySerializeFail, NEW d \in Alive' PROVE Asked(d)' = Asked(d)
    BY <1>1, <1>3 DEF Asked
  <1>. QED BY <1>1, <1>2, <1>3 DEF CountInv

(* A new connection has asked for nothing. *)
LEMMA AcceptAsks ==
    ASSUME IInv, AskInv, CountInv, NEW STATE c, ctx'[c].connId = nextId,
           ctx'[c].outQueue = << >>, ctx'[c].pendingReqs = 0,
           OnTheWay' = OnTheWay, dispatched' = dispatched, nextId' = nextId + 1,
           \A d \in Alive' \ {c} : Kept(d)
    PROVE  AskInv' /\ CountInv'
  <1>0. nextId \in Nat
    BY DEF IInv, TypeOK, ConnTypeOK
  <1>1. \A d \in Alive' \ {c} :
          /\ d \in Alive /\ ctx'[d].connId = ctx[d].connId /\ ctx'[d].fd = ctx[d].fd
          /\ ctx'[d].outQueue = ctx[d].outQueue /\ ctx'[d].pendingReqs = ctx[d].pendingReqs
    BY DEF Kept, Stays
  <1>2. \A r \in OnTheWay : /\ r.connId \in 1 .. nextId - 1 /\ r.rid <= dispatched[r.connId]
                            /\ r.connId \in 1 .. nextId' - 1 /\ r.connId # nextId
    BY <1>0 DEF AskInv
  <1>3. \A d \in Alive : ctx[d].connId # nextId
    <2>1. \A d \in Alive : ctx[d].connId \in 1 .. nextId - 1
      BY IdsInUse
    <2>. QED BY <1>0, <2>1
  <1>4. AskInv'
    <2>1. \A x, d \in Alive' : ctx'[x].connId = ctx'[d].connId => x = d
      BY <1>1, <1>3 DEF AskInv
    <2>2. \A d \in Alive' : \A r \in OnTheWay : r.connId = ctx'[d].connId => r.fd = ctx'[d].fd
      BY <1>1, <1>2 DEF AskInv
    <2>3. \A d \in Alive' : \A i \in 1 .. Len(ctx'[d].outQueue) :
            /\ ctx'[d].outQueue[i] \notin OnTheWay
            /\ ctx'[d].outQueue[i].rid <= dispatched[ctx'[d].connId]
            /\ \A j \in 1 .. Len(ctx'[d].outQueue) :
                 ctx'[d].outQueue[i] = ctx'[d].outQueue[j] => i = j
      <3>1. \A i \in 1 .. Len(ctx'[c].outQueue) : FALSE
        OBVIOUS
      <3>2. ASSUME NEW d \in Alive' \ {c}
            PROVE  \A i \in 1 .. Len(ctx'[d].outQueue) :
                     /\ ctx'[d].outQueue[i] \notin OnTheWay
                     /\ ctx'[d].outQueue[i].rid <= dispatched[ctx'[d].connId]
                     /\ \A j \in 1 .. Len(ctx'[d].outQueue) :
                          ctx'[d].outQueue[i] = ctx'[d].outQueue[j] => i = j
        BY <1>1 DEF AskInv
      <3>. QED BY <3>1, <3>2
    <2>. QED BY <1>2, <2>1, <2>2, <2>3 DEF AskInv
  <1>5. CountInv'
    <2>. SUFFICES ASSUME ~MaySerializeFail, NEW d \in Alive'
                  PROVE  IsFiniteSet(Asked(d)') /\ ctx'[d].pendingReqs = Cardinality(Asked(d)')
      BY DEF CountInv
    <2>1. CASE d = c
      <3>1. Range(ctx'[c].outQueue) = {}
        BY DEF Range
      <3>2. Asked(d)' = {}
        BY <1>2, <2>1, <3>1 DEF Asked
      <3>. QED BY <2>1, <3>2, FS_EmptySet
    <2>2. CASE d # c
      <3>1. d \in Alive /\ IsFiniteSet(Asked(d)) /\ ctx[d].pendingReqs = Cardinality(Asked(d))
        BY <1>1, <2>2 DEF CountInv
      <3>2. Asked(d)' = Asked(d)
        BY <1>1, <2>2 DEF Asked
      <3>. QED BY <1>1, <2>2, <3>1, <3>2
    <2>. QED BY <2>1, <2>2
  <1>. QED BY <1>4, <1>5

-----------------------------------------------------------------------------
(***************************************************************************)
(* The handlers.  Whatever end a handler comes to, what connection c has   *)
(* queued and counted is as in cx, unless it is closed; and no descriptor  *)
(* gets another connection.                                                *)
(***************************************************************************)
Shrinks == \A f \in Fds : m_active'[f] \in {m_active[f], None}

Ended(c, cx) ==
    /\ Shrinks
    /\ ~ctx'[c].closing =>
         ctx'[c].outQueue = cx[c].outQueue /\ ctx'[c].pendingReqs = cx[c].pendingReqs

(* A connection that stays open keeps its descriptor. *)
LEMMA SameFd ==
    ASSUME IInv, IInv', Shrinks, NEW c \in Alive, c \in Alive'
    PROVE  ctx'[c].fd = ctx[c].fd
  <1>1. ctx'[c].fd \in Fds /\ m_active'[ctx'[c].fd] = c
    BY DEF Alive, IInv, LifeInv
  <1>2. m_active[ctx'[c].fd] = c /\ c # None
    BY <1>1, IdsInUse DEF Shrinks
  <1>. QED BY <1>1, <1>2 DEF IInv, LifeInv

(* close *)
LEMMA CloseEnds ==
    ASSUME TypeOK, NEW STATE c, NEW STATE cx, NEW STATE fd, c \in Contexts, c # None,
           cx \in [Contexts -> Context], m_active[fd] = c, close(fd, m_active, m_idlePool, cx)
    PROVE  Ended(c, cx)
  <1>1. /\ ctx' = [cx EXCEPT ![c].closing = TRUE] /\ m_active' = [m_active EXCEPT ![fd] = None]
        /\ m_active \in [Fds -> Contexts \cup {None}]
    BY DEF close, TypeOK, ConnTypeOK
  <1>2. ctx'[c].closing = TRUE
    BY <1>1, Closing
  <1>. QED BY <1>1, <1>2 DEF Ended, Shrinks

(* submitRecv, or close *)
LEMMA RecvEnds ==
    ASSUME TypeOK, NEW STATE c, NEW STATE cx, NEW STATE fd, NEW STATE os, c \in Contexts, c # None,
           cx \in [Contexts -> Context], m_active[fd] = c, submitRecvOrClose(fd, cx, os)
    PROVE  Ended(c, cx)
  <1>1. \/ close(fd, m_active, m_idlePool, cx)
        \/ ctx' = onSubmit(cx, c) /\ UNCHANGED m_active
    BY DEF submitRecvOrClose, find
  <1>2. CASE ctx' = onSubmit(cx, c) /\ UNCHANGED m_active
    <2>1. ctx'[c].outQueue = cx[c].outQueue /\ ctx'[c].pendingReqs = cx[c].pendingReqs
      BY <1>2, Counted
    <2>. QED BY <1>2, <2>1 DEF Ended, Shrinks
  <1>. QED BY <1>1, <1>2, CloseEnds

(* submitSend, or close *)
LEMMA SendEnds ==
    ASSUME TypeOK, NEW STATE c, NEW STATE cx, NEW STATE fd, NEW STATE os, c \in Contexts, c # None,
           cx \in [Contexts -> Context], m_active[fd] = c, submitSendOrClose(fd, cx, os)
    PROVE  Ended(c, cx)
  <1>1. \/ close(fd, m_active, m_idlePool, cx)
        \/ ctx' = [cx EXCEPT ![c].sending = FALSE] /\ UNCHANGED m_active
        \/ ctx' = [onSubmit(cx, c) EXCEPT ![c].sending = TRUE] /\ UNCHANGED m_active
    BY DEF submitSendOrClose, find
  <1>2. CASE ctx' = [cx EXCEPT ![c].sending = FALSE] /\ UNCHANGED m_active
    <2>1. ctx'[c].outQueue = cx[c].outQueue /\ ctx'[c].pendingReqs = cx[c].pendingReqs
      BY <1>2, Sending
    <2>. QED BY <1>2, <2>1 DEF Ended, Shrinks
  <1>3. CASE ctx' = [onSubmit(cx, c) EXCEPT ![c].sending = TRUE] /\ UNCHANGED m_active
    <2>1. PICK cx2 \in [Contexts -> Context] :
            /\ cx2 = onSubmit(cx, c) /\ cx2[c].outQueue = cx[c].outQueue
            /\ cx2[c].pendingReqs = cx[c].pendingReqs
      BY Counted
    <2>2. ctx' = [cx2 EXCEPT ![c].sending = TRUE]
      BY <1>3, <2>1
    <2>3. ctx'[c].outQueue = cx2[c].outQueue /\ ctx'[c].pendingReqs = cx2[c].pendingReqs
      BY <2>2, Sending
    <2>. QED BY <1>3, <2>1, <2>3 DEF Ended, Shrinks
  <1>. QED BY <1>1, <1>2, <1>3, CloseEnds

(* The next frame of the queue, if there is one. *)
LEMMA NextEnds ==
    ASSUME TypeOK, NEW STATE c, NEW STATE cx, NEW STATE fd, NEW STATE os, c \in Contexts, c # None,
           cx \in [Contexts -> Context], m_active[fd] = c, SendNext(c, fd, cx, os)
    PROVE  Ended(c, cx)
  <1>1. submitSendOrClose(fd, cx, os)
    BY DEF SendNext, submitSendOrClose, find
  <1>. QED BY <1>1, SendEnds

(* handleRecv starts k coroutines, or none. *)
LEMMA RecvMoves ==
    ASSUME IInv, FlowInv, NEW STATE o, o \in ops, HandleRecv(o)
    PROVE  \/ Ended(o.ctx, ctx) /\ UNCHANGED <<dispatched, m_taskQueue>>
           \/ \E k \in Nat :
                /\ Shrinks
                /\ ~ctx'[o.ctx].closing =>
                     /\ ctx'[o.ctx].outQueue = ctx[o.ctx].outQueue
                     /\ ctx'[o.ctx].pendingReqs = ctx[o.ctx].pendingReqs + k
                /\ m_taskQueue' = m_taskQueue \o
                     NewReqs(ctx[o.ctx].fd, ctx[o.ctx].connId, dispatched[ctx[o.ctx].connId], k)
                /\ dispatched' = [dispatched EXCEPT ![ctx[o.ctx].connId] = @ + k]
  <1>. DEFINE c  == o.ctx
              fd == ctx[c].fd
              cx == Reaped(o)
              os == ops \ {o}
  <1>1. o.op = "RECV" /\ ~LastOfClosing(c) /\ TypeOK
    BY DEF HandleRecv, Reaps, IInv
  <1>2. c \in Contexts /\ c # None /\ ~ctx[c].closing /\ m_active[fd] = c /\ ctx[c] \in Context
    BY <1>1, HandlerFinds
  <1>3. /\ cx \in [Contexts -> Context]
        /\ cx[c].connId = ctx[c].connId /\ cx[c].outQueue = ctx[c].outQueue
        /\ cx[c].pendingReqs = ctx[c].pendingReqs
    BY <1>1, ReapedFacts
  <1>4. cx[c].input \in Nat /\ FrameUnits \in Nat \ {0}
    BY <1>2, <1>3, ContextFields, ProviderAssumption
  <1>5. \/ RecvFailed(o, fd, cx, os) \/ RecvNoBufs(o, fd, cx, os)
        \/ RecvReject(o, fd, cx, os) \/ RecvDrained(o, fd, cx, os)
    BY <1>2 DEF HandleRecv
  <1>. DEFINE Dispatches(k) ==
                /\ Shrinks
                /\ ~ctx'[c].closing => /\ ctx'[c].outQueue = ctx[c].outQueue
                                       /\ ctx'[c].pendingReqs = ctx[c].pendingReqs + k
                /\ m_taskQueue' = m_taskQueue \o NewReqs(fd, ctx[c].connId, dispatched[ctx[c].connId], k)
                /\ dispatched' = [dispatched EXCEPT ![ctx[c].connId] = @ + k]
  <1>6. SUFFICES \/ Ended(c, ctx) /\ UNCHANGED <<dispatched, m_taskQueue>>
                 \/ \E k \in Nat : Dispatches(k)
    OBVIOUS
  <1>. HIDE DEF fd, cx, os, c
  <1>7. CASE RecvFailed(o, fd, cx, os)
    <2>1. Ended(c, cx) /\ UNCHANGED <<dispatched, m_taskQueue>>
      BY <1>1, <1>2, <1>3, <1>7, CloseEnds DEF RecvFailed
    <2>. QED BY <1>3, <2>1 DEF Ended
  <1>8. CASE RecvNoBufs(o, fd, cx, os)
    <2>1. Ended(c, cx) /\ UNCHANGED <<dispatched, m_taskQueue>>
      BY <1>1, <1>2, <1>3, <1>8, RecvEnds DEF RecvNoBufs
    <2>. QED BY <1>3, <2>1 DEF Ended
  <1>9. ASSUME NEW k \in 0 .. cx[c].input, k * FrameUnits <= cx[c].input,
               Dispatch(c, fd, k, cx), Ended(c, AfterDispatch(c, k, cx))
        PROVE  \E n \in Nat : Dispatches(n)
    <2>1. k \in Nat
      BY <1>4
    <2>2. /\ AfterDispatch(c, k, cx)[c].outQueue = cx[c].outQueue
          /\ AfterDispatch(c, k, cx)[c].pendingReqs = cx[c].pendingReqs + k
      BY <1>2, <1>3, <1>9, <2>1, Dispatched
    <2>3. /\ Shrinks
          /\ ~ctx'[c].closing => /\ ctx'[c].outQueue = ctx[c].outQueue
                                 /\ ctx'[c].pendingReqs = ctx[c].pendingReqs + k
      BY <1>3, <1>9, <2>2 DEF Ended
    <2>4. /\ m_taskQueue' = m_taskQueue \o NewReqs(fd, ctx[c].connId, dispatched[ctx[c].connId], k)
          /\ dispatched' = [dispatched EXCEPT ![ctx[c].connId] = @ + k]
      BY <1>3, <1>9 DEF Dispatch, NewReqs
    <2>. QED BY <2>1, <2>3, <2>4
  <1>10. CASE RecvReject(o, fd, cx, os)
    <2>1. PICK k \in 0 .. cx[c].input :
            /\ k * FrameUnits < cx[c].input /\ Dispatch(c, fd, k, cx)
            /\ close(fd, m_active, m_idlePool, AfterDispatch(c, k, cx))
      BY <1>10 DEF RecvReject, c
    <2>2. k \in Nat /\ k * FrameUnits <= cx[c].input
      BY <1>4, <2>1
    <2>3. AfterDispatch(c, k, cx) \in [Contexts -> Context]
      BY <1>2, <1>3, <2>2, Dispatched
    <2>4. Ended(c, AfterDispatch(c, k, cx))
      BY <1>1, <1>2, <2>1, <2>3, CloseEnds
    <2>. QED BY <1>9, <2>1, <2>2, <2>4
  <1>11. CASE RecvDrained(o, fd, cx, os)
    <2>1. PICK k \in 0 .. cx[c].input :
            /\ k * FrameUnits <= cx[c].input /\ Dispatch(c, fd, k, cx)
            /\ \/ /\ ctx' = [AfterDispatch(c, k, cx) EXCEPT ![c].readPaused = TRUE]
                  /\ UNCHANGED m_active
               \/ submitRecvOrClose(fd, AfterDispatch(c, k, cx), os)
      BY <1>11 DEF RecvDrained, c
    <2>2. k \in Nat
      BY <1>4
    <2>. DEFINE cx2 == AfterDispatch(c, k, cx)
    <2>3. cx2 \in [Contexts -> Context]
      BY <1>2, <1>3, <2>1, <2>2, Dispatched
    <2>4. \/ ctx' = [cx2 EXCEPT ![c].readPaused = TRUE] /\ UNCHANGED m_active
          \/ submitRecvOrClose(fd, cx2, os)
      BY <2>1
    <2>. HIDE DEF cx2
    <2>5. Ended(c, cx2)
      <3>1. CASE ctx' = [cx2 EXCEPT ![c].readPaused = TRUE] /\ UNCHANGED m_active
        <4>1. ctx'[c].outQueue = cx2[c].outQueue /\ ctx'[c].pendingReqs = cx2[c].pendingReqs
          BY <1>2, <2>3, <3>1, Pausing
        <4>. QED BY <3>1, <4>1 DEF Ended, Shrinks
      <3>2. CASE submitRecvOrClose(fd, cx2, os)
        BY <1>1, <1>2, <2>3, <3>2, RecvEnds
      <3>. QED BY <2>4, <3>1, <3>2
    <2>. QED BY <1>9, <2>1, <2>5 DEF cx2
  <1>. QED BY <1>5, <1>7, <1>8, <1>10, <1>11

(* handleSend sends the rest, or has sent all of the head of the queue. *)
LEMMA SendMoves ==
    ASSUME IInv, FlowInv, NEW STATE o, o \in ops, HandleSend(o)
    PROVE  \/ Ended(o.ctx, ctx)
           \/ /\ Shrinks /\ ctx[o.ctx].outQueue # << >>
              /\ ~ctx'[o.ctx].closing =>
                   /\ ctx'[o.ctx].outQueue = Tail(ctx[o.ctx].outQueue)
                   /\ ctx'[o.ctx].pendingReqs = ctx[o.ctx].pendingReqs - 1
  <1>. DEFINE c  == o.ctx
              fd == ctx[c].fd
              cx == Reaped(o)
              os == ops \ {o}
  <1>1. o.op = "SEND" /\ ~LastOfClosing(c) /\ TypeOK
    BY DEF HandleSend, Reaps, IInv
  <1>2. /\ c \in Contexts /\ c # None /\ ~ctx[c].closing /\ m_active[fd] = c /\ ctx[c] \in Context
        /\ ctx[c].outQueue # << >>
    BY <1>1, HandlerFinds DEF IInv, OpsInv
  <1>3. /\ cx \in [Contexts -> Context] /\ cx[c].outQueue = ctx[c].outQueue
        /\ cx[c].pendingReqs = ctx[c].pendingReqs
    BY <1>1, ReapedFacts
  <1>4. SendFailed(o, fd, cx, os) \/ SendPartial(o, fd, cx, os) \/ SendWhole(o, fd, cx, os)
    BY DEF HandleSend
  <1>5. o.res \in Int
    BY DEF IInv, TypeOK, KernelTypeOK, Ops
  <1>. HIDE DEF fd, cx, os
  <1>6. CASE SendFailed(o, fd, cx, os)
    <2>1. Ended(c, cx)
      BY <1>1, <1>2, <1>3, <1>6, CloseEnds DEF SendFailed
    <2>. QED BY <1>3, <2>1 DEF Ended
  <1>7. CASE SendPartial(o, fd, cx, os)
    <2>1. PICK n \in Nat : n = o.res
      BY <1>5, <1>7 DEF SendPartial
    <2>. DEFINE cx2 == [cx EXCEPT ![c].written = @ + n]
    <2>2. SendNext(c, fd, cx2, os)
      BY <1>7, <2>1 DEF SendPartial
    <2>3. /\ cx2 \in [Contexts -> Context] /\ cx2[c].outQueue = cx[c].outQueue
          /\ cx2[c].pendingReqs = cx[c].pendingReqs
      BY <1>2, <1>3, Advancing
    <2>. HIDE DEF cx2, c
    <2>4. Ended(c, cx2)
      BY <1>1, <1>2, <2>2, <2>3, NextEnds
    <2>5. Ended(c, ctx)
      BY <1>3, <2>3, <2>4 DEF Ended
    <2>. QED BY <2>5 DEF c
  <1>8. CASE SendWhole(o, fd, cx, os)
    <2>. DEFINE cx1 == Popped(c, cx)
                cx2 == [cx1 EXCEPT ![c].readPaused = FALSE]
                cx3 == onSubmit(cx2, c)
    <2>1. /\ cx1 \in [Contexts -> Context] /\ cx1[c].outQueue = Tail(cx[c].outQueue)
          /\ cx1[c].pendingReqs = cx[c].pendingReqs - 1
      BY <1>2, <1>3, PoppedFields
    <2>2. \/ SendNext(c, fd, cx1, os)
          \/ close(fd, m_active, m_idlePool, cx2)
          \/ SendNext(c, fd, cx3, os \cup {RecvSqe(c, fd)})
      BY <1>2, <1>8 DEF SendWhole, find
    <2>. HIDE DEF cx1
    <2>3. /\ cx2 \in [Contexts -> Context] /\ cx2[c].outQueue = cx1[c].outQueue
          /\ cx2[c].pendingReqs = cx1[c].pendingReqs
      BY <1>2, <2>1, Pausing
    <2>. HIDE DEF cx2
    <2>4. /\ cx3 \in [Contexts -> Context] /\ cx3[c].outQueue = cx2[c].outQueue
          /\ cx3[c].pendingReqs = cx2[c].pendingReqs
      BY <1>2, <2>3, Counted
    <2>. HIDE DEF cx3, c
    <2>5. Ended(c, cx1) \/ Ended(c, cx2) \/ Ended(c, cx3)
      BY <1>1, <1>2, <2>1, <2>2, <2>3, <2>4, NextEnds, CloseEnds
    <2>6. /\ Shrinks
          /\ ~ctx'[c].closing => /\ ctx'[c].outQueue = Tail(ctx[c].outQueue)
                                 /\ ctx'[c].pendingReqs = ctx[c].pendingReqs - 1
      BY <1>3, <2>1, <2>3, <2>4, <2>5 DEF Ended
    <2>. QED BY <1>2, <2>6 DEF c
  <1>. QED BY <1>4, <1>6, <1>7, <1>8

(* A resumed coroutine queues its response, or drops it. *)
LEMMA ResumeMoves ==
    ASSUME IInv, FlowInv, ResumeCoro
    PROVE  LET r == Head(ready).req IN
           \/ /\ UNCHANGED <<ctx, m_active>> /\ (Head(ready).frameEmpty \/ ~StillOpen(r))
           \/ \E c \in Alive :
                /\ r.connId = ctx[c].connId /\ Shrinks
                /\ \A d \in Contexts \ {c} : ctx'[d] = ctx[d]
                /\ ctx'[c].connId = ctx[c].connId
                /\ ~ctx'[c].closing => /\ ctx'[c].outQueue = Append(ctx[c].outQueue, r)
                                       /\ ctx'[c].pendingReqs = ctx[c].pendingReqs
  <1>1. PICK e \in Coros : e = Head(ready)
    BY DEF ResumeCoro, IInv, TypeOK
  <1>2. PICK r \in Requests : r = e.req
    BY DEF Coros
  <1>3. \/ UNCHANGED <<ctx, m_active>> /\ (e.frameEmpty \/ ~StillOpen(r))
        \/ StillOpen(r) /\ deliverResponse(r)
    BY <1>1, <1>2 DEF ResumeCoro, deliverResponse
  <1>4. CASE StillOpen(r) /\ deliverResponse(r)
    <2>. DEFINE c == m_active[r.fd]
                cx == [ctx EXCEPT ![c].outQueue = Append(@, r)]
    <2>1. r.fd \in Fds
      BY DEF Requests
    <2>2. /\ c # None /\ c \in Contexts /\ c \in m_allConns /\ ~ctx[c].closing
          /\ ctx[c].connId = r.connId /\ ctx \in [Contexts -> Context] /\ TypeOK
      BY <1>4, <2>1 DEF StillOpen, find, IInv, LifeInv, TypeOK, ConnTypeOK
    <2>3. \/ ctx' = cx /\ UNCHANGED m_active
          \/ submitSendOrClose(r.fd, cx, ops)
      BY <1>4 DEF deliverResponse, find
    <2>4. m_active[r.fd] = c
      OBVIOUS
    <2>. HIDE DEF c
    <2>6. /\ cx \in [Contexts -> Context] /\ \A d \in Contexts \ {c} : cx[d] = ctx[d]
          /\ cx[c].outQueue = Append(ctx[c].outQueue, r) /\ cx[c].connId = ctx[c].connId
          /\ cx[c].pendingReqs = ctx[c].pendingReqs
      BY <2>2, Queued
    <2>. HIDE DEF cx
    <2>7. Ended(c, cx)
      <3>1. CASE ctx' = cx /\ UNCHANGED m_active
        BY <3>1 DEF Ended, Shrinks
      <3>. QED BY <2>2, <2>3, <2>4, <2>6, <3>1, SendEnds
    <2>8. ctx'[c].connId = ctx[c].connId /\ \A d \in Contexts \ {c} : ctx'[d] = ctx[d]
      <3>1. CASE ctx' = cx
        BY <2>6, <3>1
      <3>2. CASE submitSendOrClose(r.fd, cx, ops)
        <4>1. \/ ctx' = [cx EXCEPT ![c].closing = TRUE]
              \/ ctx' = [cx EXCEPT ![c].sending = FALSE]
              \/ ctx' = [onSubmit(cx, c) EXCEPT ![c].sending = TRUE]
          BY <2>2, <2>4, <3>2 DEF submitSendOrClose, find, close
        <4>2. CASE ctx' = [cx EXCEPT ![c].closing = TRUE]
          BY <2>2, <2>6, <4>2, Closing
        <4>3. CASE ctx' = [cx EXCEPT ![c].sending = FALSE]
          BY <2>2, <2>6, <4>3, Sending
        <4>4. CASE ctx' = [onSubmit(cx, c) EXCEPT ![c].sending = TRUE]
          <5>1. PICK cx2 \in [Contexts -> Context] :
                  /\ cx2 = onSubmit(cx, c) /\ cx2[c].connId = cx[c].connId
                  /\ \A d \in Contexts \ {c} : cx2[d] = cx[d]
            BY <2>2, <2>6, Counted
          <5>2. ctx' = [cx2 EXCEPT ![c].sending = TRUE]
            BY <4>4, <5>1
          <5>3. ctx'[c].connId = cx2[c].connId /\ \A d \in Contexts \ {c} : ctx'[d] = cx2[d]
            BY <2>2, <5>2, Sending
          <5>. QED BY <2>6, <5>1, <5>3
        <4>. QED BY <4>1, <4>2, <4>3, <4>4
      <3>. QED BY <2>3, <3>1, <3>2
    <2>9. c \in Alive /\ r.connId = ctx[c].connId
      BY <2>2 DEF Alive
    <2>. QED BY <1>1, <1>2, <2>6, <2>7, <2>8, <2>9 DEF Ended
  <1>. QED BY <1>1, <1>2, <1>3, <1>4

(* A handler on connection c leaves the other connections alone, and c its *)
(* id and descriptor.                                                      *)
LEMMA HandlerKeeps ==
    ASSUME IInv, IInv', NEW c \in Alive, Shrinks, m_allConns' = m_allConns,
           \A d \in Contexts \ {c} : ctx'[d] = ctx[d], ctx'[c].connId = ctx[c].connId
    PROVE  /\ \A d \in Alive' \ {c} : Kept(d)
           /\ c \in Alive' => Stays(c) /\ ~ctx'[c].closing
  <1>1. \A d \in Alive' : d \in m_allConns /\ ~ctx'[d].closing /\ d \in Contexts
    BY DEF Alive, IInv, TypeOK, ConnTypeOK
  <1>2. \A d \in Alive' \ {c} : Kept(d)
    BY <1>1 DEF Kept, Stays, Alive
  <1>3. c \in Alive' => Stays(c)
    BY SameFd DEF Stays
  <1>. QED BY <1>1, <1>2, <1>3

(* The queues are of requests. *)
LEMMA QueueTypes ==
    ASSUME IInv PROVE \A d \in Alive : ctx[d].outQueue \in Seq(Requests)
  <1>1. \A d \in Alive : ctx[d] \in Context
    BY DEF Alive, IInv, TypeOK, ConnTypeOK
  <1>. QED BY <1>1, ContextFields DEF Context

(* handleRecv *)
LEMMA HandleRecvAsks ==
    ASSUME IInv, IInv', FlowInv, RequestInv, NEW STATE o, o \in ops, HandleRecv(o)
    PROVE  RequestInv'
  <1>0. PICK c : c = o.ctx
    OBVIOUS
  <1>1. /\ c \in Alive /\ c \in Contexts /\ ctx'[c].connId = ctx[c].connId
        /\ \A d \in Contexts \ {c} : ctx'[d] = ctx[d]
    BY <1>0, RecvFlow DEF Alive, Leaves
  <1>2. UNCHANGED <<m_allConns, nextId, pc, worker, m_readyCoros, ready>>
    BY DEF HandleRecv
  <1>3. PlaceInv /\ BatchInv /\ AskInv /\ CountInv /\ TypeOK
    BY DEF RequestInv, IInv
  <1>4. CASE Ended(o.ctx, ctx) /\ UNCHANGED <<dispatched, m_taskQueue>>
    <2>1. Ended(c, ctx)
      BY <1>0, <1>4
    <2>2. /\ \A d \in Alive' \ {c} : Kept(d)
          /\ c \in Alive' => Stays(c) /\ ~ctx'[c].closing
      BY <1>1, <1>2, <2>1, HandlerKeeps DEF Ended
    <2>3. \A d \in Alive' : Kept(d)
      BY <2>1, <2>2 DEF Kept, Ended
    <2>4. PlaceInv' /\ BatchInv' /\ OnTheWay' = OnTheWay
      BY <1>2, <1>3, <1>4, SamePlaces
    <2>5. AskInv' /\ CountInv'
      BY <1>2, <1>3, <1>4, <2>3, <2>4, QuietAsks
    <2>. QED BY <2>4, <2>5 DEF RequestInv
  <1>5. CASE \E k \in Nat :
                /\ Shrinks
                /\ ~ctx'[o.ctx].closing =>
                     /\ ctx'[o.ctx].outQueue = ctx[o.ctx].outQueue
                     /\ ctx'[o.ctx].pendingReqs = ctx[o.ctx].pendingReqs + k
                /\ m_taskQueue' = m_taskQueue \o
                     NewReqs(ctx[o.ctx].fd, ctx[o.ctx].connId, dispatched[ctx[o.ctx].connId], k)
                /\ dispatched' = [dispatched EXCEPT ![ctx[o.ctx].connId] = @ + k]
    <2>1. PICK k \in Nat :
                /\ Shrinks
                /\ ~ctx'[c].closing =>
                     /\ ctx'[c].outQueue = ctx[c].outQueue
                     /\ ctx'[c].pendingReqs = ctx[c].pendingReqs + k
                /\ m_taskQueue' = m_taskQueue \o
                     NewReqs(ctx[c].fd, ctx[c].connId, dispatched[ctx[c].connId], k)
                /\ dispatched' = [dispatched EXCEPT ![ctx[c].connId] = @ + k]
      BY <1>0, <1>5
    <2>2. PICK fd \in Fds, id \in Nat, n \in Nat :
            fd = ctx[c].fd /\ id = ctx[c].connId /\ n = dispatched[ctx[c].connId]
      BY <1>1, IdsInUse
    <2>3. PICK t : t = NewReqs(fd, id, n, k)
      OBVIOUS
    <2>4. /\ t \in Seq(Requests) /\ \A i, j \in 1 .. Len(t) : t[i] = t[j] => i = j
          /\ \A r \in Range(t) : /\ r \in Requests /\ r.fd = fd /\ r.connId = id
                                 /\ r.rid > n /\ r.rid <= n + k
          /\ IsFiniteSet(Range(t)) /\ Cardinality(Range(t)) = k
      BY <2>3, NewReqsFacts
    <2>5. Range(t) \cap OnTheWay = {}
      <3>. SUFFICES ASSUME NEW r \in Range(t), r \in OnTheWay PROVE FALSE
        OBVIOUS
      <3>1. r.rid \in Int /\ r.rid > n /\ r.connId = id
        BY <2>4 DEF Requests
      <3>2. r.rid <= n
        BY <1>3, <2>2, <3>1 DEF AskInv
      <3>. QED BY <3>1, <3>2
    <2>6. m_taskQueue' = m_taskQueue \o t
      BY <2>1, <2>2, <2>3
    <2>7. PlaceInv' /\ BatchInv' /\ OnTheWay' = OnTheWay \cup Range(t)
      BY <1>2, <1>3, <2>4, <2>5, <2>6, DispatchPlaces
    <2>8. /\ \A d \in Alive' \ {c} : Kept(d)
          /\ c \in Alive' => Stays(c) /\ ~ctx'[c].closing
      BY <1>1, <1>2, <2>1, HandlerKeeps
    <2>9. c \in Alive' => /\ Stays(c) /\ ctx'[c].outQueue = ctx[c].outQueue
                          /\ ctx'[c].pendingReqs = ctx[c].pendingReqs + k
      BY <2>1, <2>8
    <2>10. PICK new : new = Range(t)
      OBVIOUS
    <2>11. /\ new \cap OnTheWay = {} /\ OnTheWay' = OnTheWay \cup new
           /\ \A r \in new : /\ r \in Requests /\ r.fd = ctx[c].fd /\ r.connId = ctx[c].connId
                             /\ r.rid > dispatched[ctx[c].connId]
                             /\ r.rid <= dispatched[ctx[c].connId] + k
           /\ IsFiniteSet(new) /\ Cardinality(new) = k
      BY <2>2, <2>4, <2>5, <2>7, <2>10
    <2>12. /\ dispatched' = [dispatched EXCEPT ![ctx[c].connId] = @ + k] /\ nextId' = nextId
           /\ \A d \in Alive : ctx[d].outQueue \in Seq(Requests)
      BY <1>2, <2>1, QueueTypes
    <2>13. AskInv' /\ CountInv'
      BY <1>1, <1>3, <2>8, <2>9, <2>11, <2>12, DispatchAsks
    <2>. QED BY <2>7, <2>13 DEF RequestInv
  <1>. QED BY <1>4, <1>5, RecvMoves

(* handleSend *)
LEMMA HandleSendAsks ==
    ASSUME IInv, IInv', FlowInv, RequestInv, NEW STATE o, o \in ops, HandleSend(o)
    PROVE  RequestInv'
  <1>0. PICK c : c = o.ctx
    OBVIOUS
  <1>1. /\ c \in Alive /\ c \in Contexts /\ ctx'[c].connId = ctx[c].connId
        /\ \A d \in Contexts \ {c} : ctx'[d] = ctx[d]
    BY <1>0, SendFlow DEF Alive, Leaves
  <1>2. UNCHANGED <<m_allConns, nextId, pc, dispatched, m_taskQueue, worker, m_readyCoros, ready>>
    BY DEF HandleSend, provVars
  <1>3. PlaceInv /\ BatchInv /\ AskInv /\ CountInv
    BY DEF RequestInv
  <1>4. PlaceInv' /\ BatchInv' /\ OnTheWay' = OnTheWay
    BY <1>2, <1>3, SamePlaces
  <1>5. Shrinks
    BY SendMoves DEF Ended
  <1>6. /\ \A d \in Alive' \ {c} : Kept(d)
        /\ c \in Alive' => Stays(c) /\ ~ctx'[c].closing
    BY <1>1, <1>2, <1>5, HandlerKeeps
  <1>7. \/ Ended(c, ctx)
        \/ /\ Shrinks /\ ctx[c].outQueue # << >>
           /\ ~ctx'[c].closing => /\ ctx'[c].outQueue = Tail(ctx[c].outQueue)
                                  /\ ctx'[c].pendingReqs = ctx[c].pendingReqs - 1
    BY <1>0, SendMoves
  <1>8. CASE Ended(c, ctx)
    <2>1. \A d \in Alive' : Kept(d)
      BY <1>6, <1>8 DEF Kept, Ended
    <2>2. AskInv' /\ CountInv'
      BY <1>2, <1>3, <1>4, <2>1, QuietAsks
    <2>. QED BY <1>4, <2>2 DEF RequestInv
  <1>9. CASE /\ ctx[c].outQueue # << >>
             /\ ~ctx'[c].closing => /\ ctx'[c].outQueue = Tail(ctx[c].outQueue)
                                    /\ ctx'[c].pendingReqs = ctx[c].pendingReqs - 1
    <2>1. ctx[c].outQueue \in Seq(Requests)
      BY <1>1, QueueTypes
    <2>2. c \in Alive' => /\ Stays(c) /\ ctx'[c].outQueue = Tail(ctx[c].outQueue)
                          /\ ctx'[c].pendingReqs = ctx[c].pendingReqs - 1
      BY <1>6, <1>9
    <2>3. AskInv' /\ CountInv'
      BY <1>1, <1>2, <1>3, <1>4, <1>6, <1>9, <2>1, <2>2, PopAsks
    <2>. QED BY <1>4, <2>3 DEF RequestInv
  <1>. QED BY <1>7, <1>8, <1>9

(* A resumed coroutine: its response is queued, or its connection is gone. *)
LEMMA ResumeCoroAsks ==
    ASSUME IInv, IInv', FlowInv, RequestInv, ResumeCoro
    PROVE  RequestInv'
  <1>1. PICK r \in Requests : r = Head(ready).req
    <2>1. Head(ready) \in Coros
      BY DEF ResumeCoro, IInv, TypeOK
    <2>. QED BY <2>1 DEF Coros
  <1>2. UNCHANGED <<m_allConns, nextId, dispatched>>
    BY DEF ResumeCoro
  <1>3. PlaceInv /\ BatchInv /\ AskInv /\ CountInv /\ TypeOK
    BY DEF RequestInv, IInv
  <1>4. PlaceInv' /\ BatchInv' /\ OnTheWay' = OnTheWay \ {r} /\ r \in OnTheWay
    BY <1>1, <1>3, ResumePlaces
  <1>5. \/ UNCHANGED <<ctx, m_active>> /\ (Head(ready).frameEmpty \/ ~StillOpen(r))
        \/ \E c \in Alive :
             /\ r.connId = ctx[c].connId /\ Shrinks
             /\ \A d \in Contexts \ {c} : ctx'[d] = ctx[d]
             /\ ctx'[c].connId = ctx[c].connId
             /\ ~ctx'[c].closing => /\ ctx'[c].outQueue = Append(ctx[c].outQueue, r)
                                    /\ ctx'[c].pendingReqs = ctx[c].pendingReqs
    BY <1>1, ResumeMoves
  <1>6. CASE UNCHANGED <<ctx, m_active>> /\ (Head(ready).frameEmpty \/ ~StillOpen(r))
    <2>1. \A d \in Alive' : Kept(d)
      BY <1>2, <1>6 DEF Kept, Stays, Alive
    <2>2. MaySerializeFail \/ \A d \in Alive : r.connId # ctx[d].connId
      <3>1. CASE Head(ready).frameEmpty
        <4>1. ready # << >> /\ ready \in Seq(Coros)
          BY <1>3 DEF ResumeCoro, TypeOK
        <4>2. Head(ready) = ready[1] /\ 1 \in 1 .. Len(ready)
          BY <4>1
        <4>. QED BY <1>3, <3>1, <4>2 DEF BatchInv
      <3>2. CASE ~StillOpen(r)
        <4>. SUFFICES ASSUME NEW d \in Alive, r.connId = ctx[d].connId PROVE FALSE
          OBVIOUS
        <4>1. r.fd = ctx[d].fd
          BY <1>3, <1>4 DEF AskInv
        <4>2. m_active[r.fd] = d /\ d # None
          BY <4>1, IdsInUse
        <4>. QED BY <3>2, <4>2 DEF StillOpen, find
      <3>. QED BY <1>6, <3>1, <3>2
    <2>3. AskInv' /\ CountInv'
      BY <1>2, <1>3, <1>4, <2>1, <2>2, StaleAsks
    <2>. QED BY <1>4, <2>3 DEF RequestInv
  <1>7. ASSUME NEW c \in Alive, r.connId = ctx[c].connId, Shrinks,
               \A d \in Contexts \ {c} : ctx'[d] = ctx[d], ctx'[c].connId = ctx[c].connId,
               ~ctx'[c].closing => /\ ctx'[c].outQueue = Append(ctx[c].outQueue, r)
                                   /\ ctx'[c].pendingReqs = ctx[c].pendingReqs
        PROVE  RequestInv'
    <2>1. /\ \A d \in Alive' \ {c} : Kept(d)
          /\ c \in Alive' => Stays(c) /\ ~ctx'[c].closing
      BY <1>2, <1>7, HandlerKeeps
    <2>2. ctx[c].outQueue \in Seq(Requests)
      BY QueueTypes
    <2>3. c \in Alive' => /\ Stays(c) /\ ctx'[c].outQueue = Append(ctx[c].outQueue, r)
                          /\ ctx'[c].pendingReqs = ctx[c].pendingReqs
      BY <1>7, <2>1
    <2>4. AskInv' /\ CountInv'
      BY <1>2, <1>3, <1>4, <1>7, <2>1, <2>2, <2>3, DeliverAsks
    <2>. QED BY <1>4, <2>4 DEF RequestInv
  <1>. QED BY <1>5, <1>6, <1>7

(* handleAccept: the new connection has asked for nothing yet. *)
LEMMA HandleAcceptAsks ==
    ASSUME IInv, RequestInv, NEW STATE o, o \in ops, HandleAccept(o)
    PROVE  RequestInv'
  <1>1. PICK c, new : AcceptEnd(o, c, new)
    BY AcceptEnds
  <1>2. /\ nextId' = nextId + 1
        /\ UNCHANGED <<pc, dispatched, m_taskQueue, worker, m_readyCoros, ready>>
    BY DEF HandleAccept
  <1>3. PlaceInv /\ BatchInv /\ AskInv /\ CountInv
    BY DEF RequestInv
  <1>4. PlaceInv' /\ BatchInv' /\ OnTheWay' = OnTheWay
    BY <1>2, <1>3, SamePlaces
  <1>5. \A d \in Alive' \ {c} : Kept(d)
    <2>1. \A d \in Alive' \ {c} : d \in m_allConns /\ d \in Contexts /\ ctx'[d] = ctx[d]
      BY <1>1 DEF AcceptEnd, Alive, IInv, TypeOK, ConnTypeOK
    <2>. QED BY <2>1 DEF Kept, Stays, Alive
  <1>6. ctx'[c].connId = nextId /\ ctx'[c].outQueue = << >> /\ ctx'[c].pendingReqs = 0
    BY <1>1 DEF AcceptEnd
  <1>7. AskInv' /\ CountInv'
    BY <1>2, <1>3, <1>4, <1>5, <1>6, AcceptAsks
  <1>. QED BY <1>4, <1>7 DEF RequestInv

(* The last completion of a closing connection, of which nothing is said. *)
LEMMA ReapLastAsks ==
    ASSUME IInv, RequestInv, NEW STATE o, o \in ops, ReapLast(o)
    PROVE  RequestInv'
  <1>0. PICK c : c = o.ctx
    OBVIOUS
  <1>1. /\ o.op \in {"RECV", "SEND"} /\ ctx[c].closing /\ ctx' = Reaped(o)
        /\ UNCHANGED <<m_allConns, nextId, pc, dispatched, m_taskQueue, worker, m_readyCoros, ready>>
    BY <1>0 DEF ReapLast, Reaps, LastOfClosing, provVars
  <1>2. ctx'[c].closing /\ \A d \in Contexts \ {c} : ctx'[d] = ctx[d]
    BY <1>0, <1>1, ReapedFacts
  <1>3. PlaceInv /\ BatchInv /\ AskInv /\ CountInv
    BY DEF RequestInv
  <1>4. PlaceInv' /\ BatchInv' /\ OnTheWay' = OnTheWay
    BY <1>1, <1>3, SamePlaces
  <1>5. \A d \in Alive' : Kept(d)
    <2>1. \A d \in Alive' : d \in m_allConns /\ d \in Contexts /\ ctx'[d] = ctx[d]
      BY <1>1, <1>2 DEF Alive, IInv, TypeOK, ConnTypeOK
    <2>. QED BY <2>1 DEF Kept, Stays, Alive
  <1>6. AskInv' /\ CountInv'
    BY <1>1, <1>3, <1>4, <1>5, QuietAsks
  <1>. QED BY <1>4, <1>6 DEF RequestInv

(* Steps that leave the connections as they are. *)
LEMMA StillAsks ==
    ASSUME RequestInv, PlaceInv', BatchInv', OnTheWay' = OnTheWay,
           UNCHANGED <<connVars, dispatched>>
    PROVE  RequestInv'
  <1>1. \A d \in Alive' : Kept(d)
    BY DEF Kept, Stays, Alive, connVars
  <1>2. AskInv' /\ CountInv'
    BY <1>1, QuietAsks DEF RequestInv, connVars
  <1>. QED BY <1>2 DEF RequestInv

(* Every step keeps the requests accounted for. *)
LEMMA NextAsks ==
    ASSUME IInv, IInv', FlowInv, RequestInv, [Next]_vars
    PROVE  RequestInv'
  <1>0. PlaceInv /\ BatchInv /\ TypeOK
    BY DEF RequestInv, IInv
  <1>1. ASSUME UNCHANGED <<connVars, dispatched, m_taskQueue, worker, m_readyCoros, ready>>,
               pc' = pc \/ pc # "notify" \/ ready = << >>
        PROVE  RequestInv'
    <2>1. pc' = pc \/ ready = << >>
      BY <1>0, <1>1 DEF BatchInv
    <2>2. PlaceInv' /\ BatchInv' /\ OnTheWay' = OnTheWay
      BY <1>0, <1>1, <2>1, SamePlaces
    <2>. QED BY <1>1, <2>2, StillAsks
  <1>2. ASSUME NEW o \in ops, ReactorOn(o) PROVE RequestInv'
    <2>1. CASE SubmitOne(o)
      BY <1>1, <2>1 DEF SubmitOne, provVars
    <2>2. CASE ReapLast(o)
      BY <2>2, ReapLastAsks
    <2>3. CASE HandleAcceptError(o)
      BY <1>1, <2>3 DEF HandleAcceptError
    <2>4. CASE HandleAccept(o)
      BY <2>4, HandleAcceptAsks
    <2>5. CASE HandleRecv(o)
      BY <2>5, HandleRecvAsks
    <2>6. CASE HandleSend(o)
      BY <2>6, HandleSendAsks
    <2>7. CASE HandleNotify(o)
      <3>1. PlaceInv' /\ BatchInv' /\ OnTheWay' = OnTheWay
        BY <1>0, <2>7, NotifyPlaces
      <3>2. UNCHANGED <<connVars, dispatched>>
        BY <2>7 DEF HandleNotify
      <3>. QED BY <3>1, <3>2, StillAsks
    <2>. QED BY <1>2, <2>1, <2>2, <2>3, <2>4, <2>5, <2>6, <2>7 DEF ReactorOn
  <1>3. CASE WaitReturns \/ PeekEmpty \/ NotifyDone
    <2>1. /\ UNCHANGED <<connVars, dispatched, m_taskQueue, worker, m_readyCoros, ready>>
          /\ pc # "notify" \/ ready = << >>
      BY <1>3 DEF WaitReturns, PeekEmpty, NotifyDone
    <2>. QED BY <1>1, <2>1
  <1>4. CASE Reactor
    BY <1>2, <1>3, <1>4, ResumeCoroAsks DEF Reactor
  <1>5. ASSUME NEW w \in Workers, Worker(w) PROVE RequestInv'
    <2>1. PlaceInv' /\ BatchInv' /\ OnTheWay' = OnTheWay
      BY <1>0, <1>5, WorkerPlaces
    <2>2. UNCHANGED <<connVars, dispatched>>
      BY <1>5 DEF Worker, WorkerTake, PoolDone, WorkerWake
    <2>. QED BY <2>1, <2>2, StillAsks
  <1>6. CASE Kernel
    BY <1>1, <1>6 DEF Kernel, provVars
  <1>7. CASE UNCHANGED vars
    BY <1>1, <1>7 DEF vars, provVars
  <1>. QED BY <1>4, <1>5, <1>6, <1>7 DEF Next

(* At the start nobody has asked for anything. *)
LEMMA InitAsks == Init => RequestInv
  <1>. SUFFICES ASSUME Init PROVE RequestInv
    OBVIOUS
  <1>1. /\ m_taskQueue = << >> /\ m_readyCoros = << >> /\ ready = << >> /\ m_allConns = {}
        /\ worker = [w \in Workers |-> Idle]
    BY DEF Init, ConnInit
  <1>2. InQueue = {} /\ Waiting = {} /\ InBatch = {}
    BY <1>1 DEF InQueue, Waiting, InBatch, Range
  <1>3. \A w \in Workers : worker[w].st # "call"
    BY <1>1 DEF Idle
  <1>4. InCall = {}
    BY <1>3 DEF InCall
  <1>5. OnTheWay = {} /\ Alive = {}
    BY <1>1, <1>2, <1>4 DEF OnTheWay, Alive
  <1>6. PlaceInv /\ BatchInv
    BY <1>1, <1>2, <1>3, <1>4 DEF PlaceInv, BatchInv, Distinct
  <1>7. AskInv /\ CountInv
    BY <1>5 DEF AskInv, CountInv
  <1>. QED BY <1>6, <1>7 DEF RequestInv

(* Every request that tryHandleRequest hands over is in one place until its *)
(* response is sent or its connection closed, and pendingReqs counts those. *)
THEOREM RequestInvariance == Spec => [](IInv /\ FlowInv /\ RequestInv)
  <1>1. Init => RequestInv
    BY InitAsks
  <1>2. IInv /\ IInv' /\ FlowInv /\ RequestInv /\ [Next]_vars => RequestInv'
    BY NextAsks
  <1>. QED BY <1>1, <1>2, FlowInvariance, PTL DEF Spec

(* deliverResponse: what an active connection has queued are answers to its *)
(* own requests, each one once, although descriptors are reused.            *)
THEOREM AnswersToAsker == Spec => []ResponsesToAsker
  <1>1. IInv /\ FlowInv /\ RequestInv => ResponsesToAsker
    <2>. SUFFICES ASSUME IInv, FlowInv, RequestInv, NEW c \in Active
                  PROVE  /\ \A r \in Range(ctx[c].outQueue) : r.connId = ctx[c].connId
                         /\ \A i, j \in DOMAIN ctx[c].outQueue :
                              ctx[c].outQueue[i] = ctx[c].outQueue[j] => i = j
      BY DEF ResponsesToAsker
    <2>1. c \in Alive
      BY ActiveLive DEF Alive
    <2>2. PICK q \in Seq(Requests) : q = ctx[c].outQueue
      BY <2>1, QueueTypes
    <2>3. \A i \in 1 .. Len(q) : /\ q[i].connId = ctx[c].connId
                                 /\ \A j \in 1 .. Len(q) : q[i] = q[j] => i = j
      BY <2>1, <2>2, AliveAsks DEF RequestInv, AskInv
    <2>4. \A r \in Range(q) : \E i \in 1 .. Len(q) : q[i] = r
      BY RangeOf
    <2>5. DOMAIN q = 1 .. Len(q)
      OBVIOUS
    <2>. QED BY <2>2, <2>3, <2>4, <2>5
  <1>. QED BY <1>1, RequestInvariance, PTL

(* What an active connection waits for is what it asked for. *)
LEMMA OutstandingAsked ==
    ASSUME IInv, FlowInv, RequestInv, NEW c \in Active
    PROVE  c \in Alive /\ {r \in Outstanding : r.connId = ctx[c].connId} = Asked(c)
  <1>1. \A d \in Active : d \in Alive
    BY ActiveLive DEF Alive
  <1>2. \A d \in Active : \A r \in Range(ctx[d].outQueue) : r.connId = ctx[d].connId
    <2>. SUFFICES ASSUME NEW d \in Active, NEW r \in Range(ctx[d].outQueue)
                  PROVE  r.connId = ctx[d].connId
      OBVIOUS
    <2>1. PICK q \in Seq(Requests) : q = ctx[d].outQueue
      BY <1>1, QueueTypes
    <2>2. PICK i \in 1 .. Len(q) : q[i] = r
      BY <2>1, RangeOf
    <2>. QED BY <1>1, <2>1, <2>2, AliveAsks
  <1>3. \A d \in Active : ctx[d].connId = ctx[c].connId => d = c
    BY <1>1 DEF RequestInv, AskInv
  <1>4. InPool \cup InReady = OnTheWay
    BY DEF InPool, InReady, OnTheWay, InQueue, InCall, Waiting, InBatch
  <1>5. \A r : r \in Outstanding <=>
          r \in OnTheWay \/ \E d \in Active : r \in Range(ctx[d].outQueue)
    BY <1>4 DEF Outstanding
  <1>6. \A r : r \in Outstanding /\ r.connId = ctx[c].connId <=> r \in Asked(c)
    BY <1>2, <1>3, <1>5 DEF Asked
  <1>. QED BY <1>1, <1>6

(* ConnectionContext.pendingReqs: when responses serialize, it is at every  *)
(* moment the number of requests handed over and not completely answered.   *)
THEOREM PendingCounts == ASSUME ~MaySerializeFail PROVE Spec => []PendingExact
  <1>1. IInv /\ FlowInv /\ RequestInv => PendingExact
    <2>. SUFFICES ASSUME IInv, FlowInv, RequestInv, NEW c \in Active
                  PROVE  ctx[c].pendingReqs =
                           Cardinality({r \in Outstanding : r.connId = ctx[c].connId})
      BY DEF PendingExact
    <2>1. c \in Alive /\ {r \in Outstanding : r.connId = ctx[c].connId} = Asked(c)
      BY OutstandingAsked
    <2>2. ctx[c].pendingReqs = Cardinality(Asked(c))
      BY <2>1 DEF RequestInv, CountInv
    <2>. QED BY <2>1, <2>2
  <1>. QED BY <1>1, RequestInvariance, PTL

(* submitRecv and readPaused: when responses serialize, a connection either *)
(* reads, or has as many unanswered requests as the threshold asks for.     *)
THEOREM NoneDeaf == ASSUME ~MaySerializeFail PROVE Spec => []ConnectionsNotDeaf
  <1>1. IInv /\ FlowInv /\ RequestInv => ConnectionsNotDeaf
    <2>. SUFFICES ASSUME IInv, FlowInv, RequestInv, NEW c \in Active
                  PROVE  \/ OpsOf(c, "RECV") # {} /\ ~ctx[c].readPaused
                         \/ /\ ctx[c].readPaused
                            /\ Cardinality({r \in Outstanding : r.connId = ctx[c].connId})
                                 >= kMaxInflightPerConn
      BY DEF ConnectionsNotDeaf
    <2>1. c \in Alive /\ {r \in Outstanding : r.connId = ctx[c].connId} = Asked(c)
      BY OutstandingAsked
    <2>2. ctx[c].pendingReqs = Cardinality(Asked(c))
      BY <2>1 DEF RequestInv, CountInv
    <2>3. /\ ctx[c].readPaused \/ Has(ops, c, "RECV")
          /\ ctx[c].readPaused <=> ctx[c].pendingReqs >= kMaxInflightPerConn
      BY <2>1 DEF Alive, FlowInv, ConnFlow, FlowOf
    <2>4. ctx[c].readPaused \/ OpsOf(c, "RECV") # {}
      BY <2>3 DEF Has, OpsOf
    <2>. QED BY <2>1, <2>2, <2>3, <2>4
  <1>. QED BY <1>1, RequestInvariance, PTL
=============================================================================
