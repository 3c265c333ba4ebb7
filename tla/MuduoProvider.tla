----------------------------- MODULE MuduoProvider -----------------------------
(***************************************************************************)
(* The RPC server over muduo (provider.cc), with the Logger it reports to. *)
(*                                                                         *)
(* A connection belongs to one IO thread, which reads what has arrived and *)
(* runs onMessage over it.  A stream is a sequence of frames               *)
(*    [header_size][header][args], args of size 0 or 1,                    *)
(* sent in pieces that have nothing to do with the frames; a position in   *)
(* it counts size fields, headers and args.  A method runs its done        *)
(* inside CallMethod, on the IO thread, or later on a thread of its own.   *)
(***************************************************************************)
EXTENDS Logger, FiniteSets

CONSTANTS
    Conns,       \* connections
    IoThreads,   \* muduo's IO threads
    Workers,     \* threads of the services that run a done later
    Streams,     \* what a client may send on a connection
    MaxFrames    \* bound on the frames of all connections together

\* What is wrong with a frame, if anything.
FrameKinds == {"ok", "badHeader", "unknown", "badArgs"}

\* The frames of a stream.
Frame == [kind : FrameKinds, args : 0 .. 1]

ASSUME MuduoAssumption ==
    /\ Streams \subseteq Seq(Frame)
    /\ LogThreads = IoThreads \cup Workers \cup {"main"}

VARIABLES
    stream,     \* what the client of a connection sends
    loopOf,     \* the IO thread of a connection
    conn,       \* muduo's connection state
    arrived,    \* read off the socket
    retrieved,  \* taken out of the input buffer
    thread,     \* what an IO thread is doing, and for which connection
    fate,       \* what became of the frames onMessage took out
    queued,     \* sends handed to the IO thread by other threads
    answers,    \* responses written on a connection, by request_id
    started     \* Run has come to server.start()

connVars == <<stream, loopOf, conn, arrived, retrieved, thread, fate, queued,
              answers, started>>
vars == <<connVars, logVars>>

Polling  == [at |-> "poll", conn |-> "none", frame |-> 0]
Doing(a, c, i) == [at |-> a, conn |-> c, frame |-> i]

Init ==
    /\ stream \in [Conns -> Streams]
    /\ Cardinality({p \in Conns \X (1 .. MaxFrames + 1) : p[2] <= Len(stream[p[1]])})
          <= MaxFrames
    /\ loopOf \in [Conns -> IoThreads]
    /\ conn = [c \in Conns |-> "connected"]
    /\ arrived = [c \in Conns |-> 0]
    /\ retrieved = [c \in Conns |-> 0]
    /\ thread = [t \in IoThreads |-> Polling]
    /\ fate = [c \in Conns |-> <<>>]
    /\ queued = {}
    /\ answers = [c \in Conns |-> <<>>]
    /\ started = FALSE
    /\ LogInit

\* Where the frames of a stream end, measured like a position.
FrameSize(fr) == 2 + fr.args
EndOf(s) == [i \in 0 .. Len(s) |->
                2 * i + Cardinality({j \in 1 .. i : s[j].args = 1})]
Total(c) == EndOf(stream[c])[Len(stream[c])]

(***************************************************************************)
(* Run: the start is logged, then the server accepts connections.          *)
(***************************************************************************)
Run ==
    /\ Up /\ ~started /\ NotLogging("main")
    /\ started' = TRUE
    /\ SetLogLevel("main", "INFO", <<"start", 0>>)
    /\ UNCHANGED <<stream, loopOf, conn, arrived, retrieved, thread, fate,
                   queued, answers>>

\* muduo (external): some more of the stream is read, onMessage is called.
HandleRead(c) ==
    LET t == loopOf[c] IN
    /\ Up /\ started /\ NotLogging("main")
    /\ thread[t] = Polling /\ conn[c] # "down"
    /\ \E n \in arrived[c] + 1 .. Total(c) : arrived' = [arrived EXCEPT ![c] = n]
    /\ thread' = [thread EXCEPT ![t] = Doing("onMessage", c, 0)]
    /\ UNCHANGED <<stream, loopOf, conn, retrieved, fate, queued, answers,
                   started, logVars>>

\* muduo (external): the client has closed; onConnection finds the connection
\* down, where its shutdown() does nothing.
HandleClose(c) ==
    LET t == loopOf[c] IN
    /\ Up /\ started /\ thread[t] = Polling /\ conn[c] # "down"
    /\ conn' = [conn EXCEPT ![c] = "down"]
    /\ UNCHANGED <<stream, loopOf, arrived, retrieved, thread, fate, queued,
                   answers, started, logVars>>

(***************************************************************************)
(* onMessage: the loop, a frame at a time.                                 *)
(***************************************************************************)
InOnMessage(c) ==
    LET t == loopOf[c] IN
    /\ Up /\ thread[t] = Doing("onMessage", c, 0) /\ NotLogging(t)

Readable(c) == arrived[c] - retrieved[c]

\* The frame at the head of the buffer: the one that starts there, or what
\* the bytes there happen to say when none does.
AtHead(c) ==
    LET s == stream[c] IN
    IF \E i \in DOMAIN s : EndOf(s)[i - 1] = retrieved[c]
    THEN CHOOSE i \in DOMAIN s : EndOf(s)[i - 1] = retrieved[c]
    ELSE 0
HeadFrame(c) ==
    IF AtHead(c) # 0 THEN stream[c][AtHead(c)] ELSE [kind |-> "badHeader", args |-> 0]

HeaderComplete(c) == Readable(c) >= 2

\* readableBytes() >= sizeof(uint32_t) + header_size + args_size
FrameComplete(c) == Readable(c) >= FrameSize(HeadFrame(c))

\* Mutant: the args stay in the buffer.
Retrieve_Header(c) == retrieved' = [retrieved EXCEPT ![c] = @ + 2]

\* buffer->retrieve(frame_size)
Retrieve(c) == retrieved' = [retrieved EXCEPT ![c] = @ + FrameSize(HeadFrame(c))]

\* The header or the frame is not there yet: wait for the next onMessage.
NeedsMore(c) ==
    /\ InOnMessage(c)
    /\ ~HeaderComplete(c) \/ (HeadFrame(c).kind # "badHeader" /\ ~FrameComplete(c))
    /\ thread' = [thread EXCEPT ![loopOf[c]] = Polling]
    /\ UNCHANGED <<stream, loopOf, conn, arrived, retrieved, fate, queued,
                   answers, started, logVars>>

\* The header does not parse: logged, shut down, left in the buffer.
BadHeader(c) ==
    /\ InOnMessage(c) /\ HeaderComplete(c) /\ HeadFrame(c).kind = "badHeader"
    /\ SetLogLevel(loopOf[c], "ERROR", <<c, AtHead(c)>>)
    /\ thread' = [thread EXCEPT ![loopOf[c]] = Doing("shutdown", c, 0)]
    /\ UNCHANGED <<stream, loopOf, conn, arrived, retrieved, fate, queued,
                   answers, started>>

\* conn->shutdown() once the macro is through; muduo (external) ignores it
\* unless the connection is up.
Shutdown(c) ==
    LET t == loopOf[c] IN
    /\ Up /\ thread[t] = Doing("shutdown", c, 0) /\ NotLogging(t)
    /\ conn' = [conn EXCEPT ![c] = IF @ = "connected" THEN "disconnecting" ELSE @]
    /\ thread' = [thread EXCEPT ![t] = Polling]
    /\ UNCHANGED <<stream, loopOf, arrived, retrieved, fate, queued, answers,
                   started, logVars>>

\* Service or method unknown, or args that do not parse: consumed and logged,
\* the caller is not told.
Drop(c) ==
    /\ InOnMessage(c) /\ HeaderComplete(c) /\ FrameComplete(c)
    /\ HeadFrame(c).kind \in {"unknown", "badArgs"}
    /\ Retrieve(c)
    /\ fate' = [fate EXCEPT ![c] = Append(@, "dropped")]
    /\ SetLogLevel(loopOf[c], "ERROR", <<c, AtHead(c)>>)
    /\ UNCHANGED <<stream, loopOf, conn, arrived, thread, queued, answers, started>>

\* Mutant: one frame for each onMessage.
AfterCall_Return(c) == Polling

\* Back to the loop, while the method's own thread has the done.
AfterCall(c) == Doing("onMessage", c, 0)

\* CallMethod: the method runs its done at once, or keeps it.
CallMethod(c) ==
    /\ InOnMessage(c) /\ HeaderComplete(c) /\ FrameComplete(c)
    /\ HeadFrame(c).kind = "ok"
    /\ Retrieve(c)
    /\ fate' = [fate EXCEPT ![c] = Append(@, "called")]
    /\ \E th \in {AfterCall(c), Doing("done", c, AtHead(c))} :
          thread' = [thread EXCEPT ![loopOf[c]] = th]
    /\ UNCHANGED <<stream, loopOf, conn, arrived, queued, answers, started, logVars>>

(***************************************************************************)
(* sendRpcResponse, the done of a request.                                 *)
(***************************************************************************)
Inline(c, i) == thread[loopOf[c]] = Doing("done", c, i)

\* The thread the done runs on.
RunsDone(w, c, i) ==
    /\ Up /\ NotLogging(w)
    /\ i \in DOMAIN fate[c] /\ fate[c][i] = "called"
    /\ IF Inline(c, i) THEN w = loopOf[c] ELSE w \in Workers

AfterDone(c, i) ==
    thread' = IF Inline(c, i) THEN [thread EXCEPT ![loopOf[c]] = Doing("onMessage", c, 0)]
                              ELSE thread

\* Mutant: a done that can be run again (NewPermanentCallback).
SendResponse_Again(w, c, i) ==
    /\ RunsDone(w, c, i) /\ Len(answers[c]) < 3
    /\ answers' = [answers EXCEPT ![c] = Append(@, i)]
    /\ AfterDone(c, i)
    /\ UNCHANGED <<stream, loopOf, conn, arrived, retrieved, fate, queued, started, logVars>>

\* conn->send: muduo (external) drops it unless connected, writes on the IO
\* thread and has the IO thread write otherwise.
SendResponse(w, c, i) ==
    /\ RunsDone(w, c, i)
    /\ fate' = [fate EXCEPT ![c][i] = "sent"]
    /\ IF conn[c] = "connected" /\ w = loopOf[c]
       THEN answers' = [answers EXCEPT ![c] = Append(@, i)] /\ UNCHANGED queued
       ELSE /\ queued' = IF conn[c] = "connected" THEN queued \cup {<<c, i>>} ELSE queued
            /\ UNCHANGED answers
    /\ AfterDone(c, i)
    /\ UNCHANGED <<stream, loopOf, conn, arrived, retrieved, started, logVars>>

\* SerializeToString fails: logged, nothing is sent.
SerializeFails(w, c, i) ==
    /\ RunsDone(w, c, i)
    /\ fate' = [fate EXCEPT ![c][i] = "unserialized"]
    /\ SetLogLevel(w, "ERROR", <<c, i>>)
    /\ AfterDone(c, i)
    /\ UNCHANGED <<stream, loopOf, conn, arrived, retrieved, queued, answers, started>>

\* muduo (external): the IO thread writes what another thread sent.  It gives
\* up when the connection is down; after a shutdown it writes in vain, unless
\* earlier output has kept the write side open.
SendInLoop(c, i) ==
    /\ Up /\ <<c, i>> \in queued /\ thread[loopOf[c]] = Polling
    /\ queued' = queued \ {<<c, i>>}
    /\ \/ conn[c] # "down" /\ answers' = [answers EXCEPT ![c] = Append(@, i)]
       \/ conn[c] # "connected" /\ UNCHANGED answers
    /\ UNCHANGED <<stream, loopOf, conn, arrived, retrieved, thread, fate, started, logVars>>

-----------------------------------------------------------------------------
\* The steps of the logger leave the connections alone.
LogPush(t)  == Push(t) /\ UNCHANGED connVars
LogWriter   == WriterStep /\ UNCHANGED connVars
LogSpurious == SpuriousWake /\ UNCHANGED connVars

OnMessage(c) == NeedsMore(c) \/ BadHeader(c) \/ Shutdown(c) \/ Drop(c) \/ CallMethod(c)

Done(c, i) == \E w \in LogThreads : SendResponse(w, c, i) \/ SerializeFails(w, c, i)

Next ==
    \/ Run
    \/ \E c \in Conns :
          \/ HandleRead(c) \/ HandleClose(c) \/ OnMessage(c)
          \/ \E i \in DOMAIN stream[c] : Done(c, i) \/ SendInLoop(c, i)
    \/ \E t \in LogThreads : LogPush(t)
    \/ LogWriter \/ LogSpurious

Spec == Init /\ [][Next]_vars

\* Every thread runs when it can, and a method gets to its done; clients owe
\* nothing, neither the rest of a frame nor a close.
FairSpec ==
    /\ Spec
    /\ WF_vars(LogWriter)
    /\ \A t \in LogThreads : WF_vars(LogPush(t))
    /\ \A c \in Conns :
          /\ WF_vars(OnMessage(c))
          /\ \A i \in 1 .. MaxFrames : WF_vars(Done(c, i)) /\ WF_vars(SendInLoop(c, i))
===============================================================================
