-------------------------- MODULE MuduoProviderProps --------------------------
(***************************************************************************)
(* What clients and operators of the muduo server rely on.                 *)
(***************************************************************************)
EXTENDS MuduoProvider, SequencesExt

Fates == {"dropped", "called", "sent", "unserialized"}

\* What a message is about: a frame of a connection, or the start of the server.
Message == [level : {"INFO", "ERROR"}, stamp : {"INFO", "ERROR"},
            msg : (Conns \X Nat) \cup {<<"start", 0>>}]

ConnTypeOK ==
    /\ stream \in [Conns -> Streams]
    /\ loopOf \in [Conns -> IoThreads]
    /\ conn \in [Conns -> {"connected", "disconnecting", "down"}]
    /\ arrived \in [Conns -> Nat] /\ retrieved \in [Conns -> Nat]
    /\ fate \in [Conns -> Seq(Fates)]
    /\ queued \subseteq Conns \X Nat
    /\ answers \in [Conns -> Seq(Nat)]

LogTypeOK ==
    /\ m_loglevel \in {"INFO", "ERROR"}
    /\ logging \in [LogThreads -> Seq(Message)]
    /\ m_queue \in Seq(Message) /\ popped \in Seq(Message) /\ lines \in Seq(Message)
    /\ writer \in {"open", "pop", "waiting", "write", "exited"}
    /\ Len(popped) = IF writer = "write" THEN 1 ELSE 0
    /\ \A t \in LogThreads : Len(logging[t]) <= 1

\* Every variable has a value of its kind, and a buffer never gives more than
\* has arrived (retrieve of an incomplete frame).
TypeOK ==
    /\ ConnTypeOK /\ LogTypeOK
    /\ \A c \in Conns : arrived[c] <= Total(c) /\ retrieved[c] <= arrived[c]

\* However the stream is cut into pieces, onMessage takes out exactly its
\* frames, in order: the buffer starts at the end of the last frame handled,
\* each frame met its own fate, and none behind a bad header was looked at.
FramesExact ==
    /\ TypeOK
    /\ \A c \in Conns :
       /\ Len(fate[c]) <= Len(stream[c])
       /\ retrieved[c] = EndOf(stream[c])[Len(fate[c])]
       /\ \A i \in DOMAIN fate[c] :
             /\ stream[c][i].kind # "badHeader"
             /\ (fate[c][i] = "dropped") = (stream[c][i].kind # "ok")

\* A request is answered at most once and only after its method ran, from
\* whatever thread done runs and whatever happened to the connection.
AnsweredOnce ==
    \A c \in Conns :
       /\ IsInjective(answers[c])
       /\ \A i \in Range(answers[c]) : fate[c][i] = "sent" /\ <<c, i>> \notin queued

\* Messages that were logged, the oldest first.
Reported == lines \o popped \o m_queue

\* A request that onMessage drops, or whose response does not serialize, leaves
\* exactly one message, under way or in the log: the queue loses and doubles
\* nothing, and the messages of one connection stay in the order of its frames.
\* (A response that finds its connection going is lost without a message.)
DropsReported ==
    \A c \in Conns :
       LET about(i) == {k \in DOMAIN Reported : Reported[k].msg = <<c, i>>}
           held(i)  == {t \in LogThreads : \E k \in DOMAIN logging[t] :
                                              logging[t][k].msg = <<c, i>>}
       IN \A i \in DOMAIN fate[c] :
            /\ fate[c][i] \in {"dropped", "unserialized"}
                  => Cardinality(about(i)) + Cardinality(held(i)) = 1
            /\ \A j \in 1 .. i - 1 :
                  fate[c][i] = "dropped" /\ fate[c][j] = "dropped"
                     => \A k \in about(i), l \in about(j) : l < k

\* A valid request that has arrived is answered as long as its connection is
\* up: with several frames in one read, half a frame, and bad ones before it.
\* (A request of an unknown method or with bad args never is.)
ValidAnswered ==
    \A c \in Conns : \A i \in 1 .. MaxFrames :
       (/\ i \in DOMAIN stream[c]
        /\ EndOf(stream[c])[i] <= arrived[c] /\ conn[c] = "connected"
        /\ stream[c][i].kind = "ok"
        /\ \A j \in 1 .. i - 1 : stream[c][j].kind # "badHeader")
       ~> (\/ i \in Range(answers[c]) \/ conn[c] # "connected" \/ ~Up
           \/ i \in DOMAIN fate[c] /\ fate[c][i] = "unserialized")

\* Every message reaches the file unless the logger ends the process: the
\* write thread never sleeps over one (notify_one under the mutex, and the
\* while loop around wait).
AllWritten == []<>(~Up \/ (m_queue = <<>> /\ popped = <<>>))

\* A line carries the level its message was logged with.  It does not: the
\* level is read when the line is written.
LevelsRight == \A k \in DOMAIN lines : lines[k].stamp = lines[k].level

-----------------------------------------------------------------------------
(***************************************************************************)
(* The inductive invariant.  Answers are given for frames that were sent,  *)
(* and what waits for the IO thread was not answered yet.  A message about *)
(* a frame is about one that was lost, or about a bad header, which stays  *)
(* at the head for ever; and only the IO thread of a connection holds a    *)
(* message about a dropped frame, the last one dropped.                    *)
(***************************************************************************)
AnswerInv ==
    /\ AnsweredOnce
    /\ \A c \in Conns : Range(answers[c]) \subseteq DOMAIN fate[c]
    /\ \A q \in queued : q[2] \in DOMAIN fate[q[1]] /\ fate[q[1]][q[2]] = "sent"

Lost == {"dropped", "unserialized"}

\* The frame a message may be about.
Justified(m) ==
    \/ m = <<"start", 0>>
    \/ \E c \in Conns : \E i \in DOMAIN stream[c] :
          /\ m = <<c, i>>
          /\ \/ i \in DOMAIN fate[c] /\ fate[c][i] \in Lost
             \/ stream[c][i].kind = "badHeader"

Written(k, c, i) == k \in DOMAIN Reported /\ Reported[k].msg = <<c, i>>
Holds(t, c, i)   == Len(logging[t]) = 1 /\ logging[t][1].msg = <<c, i>>

MessageInv ==
    /\ \A k \in DOMAIN Reported : Justified(Reported[k].msg)
    /\ \A t \in LogThreads : Len(logging[t]) = 1 => Justified(logging[t][1].msg)

\* The message about a lost frame is in one place.
PlaceInv ==
    \A c \in Conns : \A i \in DOMAIN fate[c] :
       fate[c][i] \in Lost =>
          /\ (\E k \in DOMAIN Reported : Written(k, c, i))
                \/ (\E t \in LogThreads : Holds(t, c, i))
          /\ \A k, l \in DOMAIN Reported : Written(k, c, i) /\ Written(l, c, i) => k = l
          /\ \A t, u \in LogThreads : Holds(t, c, i) /\ Holds(u, c, i) => t = u
          /\ \A k \in DOMAIN Reported, t \in LogThreads :
                ~(Written(k, c, i) /\ Holds(t, c, i))

OrderInv ==
    \A c \in Conns : \A i, j \in DOMAIN fate[c] :
       fate[c][i] = "dropped" /\ fate[c][j] = "dropped" /\ j < i =>
          /\ \A k, l \in DOMAIN Reported : Written(k, c, i) /\ Written(l, c, j) => l < k
          /\ \A t \in LogThreads : ~Holds(t, c, j)

HolderInv ==
    \A c \in Conns : \A i \in DOMAIN fate[c] : \A t \in LogThreads :
       fate[c][i] = "dropped" /\ Holds(t, c, i) => t = loopOf[c]

MuduoInv == FramesExact /\ AnswerInv /\ MessageInv /\ PlaceInv /\ OrderInv /\ HolderInv
=============================================================================
