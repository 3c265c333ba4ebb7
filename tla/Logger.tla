-------------------------------- MODULE Logger --------------------------------
(***************************************************************************)
(* The logger (logger.h, logger.cc) and its LockQueue (lockqueue.h).  The  *)
(* macros LOG_INFO and LOG_ERROR set the level of the one Logger and then  *)
(* push the text; a detached thread pops the texts and writes lines.  The  *)
(* level is a plain int that the writer reads when it writes.              *)
(***************************************************************************)
EXTENDS Naturals, Sequences

CONSTANT LogThreads     \* threads that use the macros

VARIABLES
    m_loglevel,   \* level of the last SetLogLevel
    logging,      \* the messages a thread holds between SetLogLevel and Log
    m_queue,      \* LockQueue
    writer,       \* where the write thread stands; "exited": exit() was called
    popped,       \* the message the write thread holds
    lines         \* the log file

logVars == <<m_loglevel, logging, m_queue, writer, popped, lines>>

LogInit ==
    /\ m_loglevel = "INFO"
    /\ logging = [t \in LogThreads |-> <<>>]
    /\ m_queue = <<>>
    /\ writer = "open" /\ popped = <<>> /\ lines = <<>>

Up == writer # "exited"

\* A thread in the middle of a macro does nothing else.
NotLogging(t) == logging[t] = <<>>

\* The first half of a macro: SetLogLevel.
SetLogLevel(t, level, msg) ==
    /\ m_loglevel' = level
    /\ logging' = [logging EXCEPT ![t] = <<[level |-> level, stamp |-> level, msg |-> msg]>>]
    /\ UNCHANGED <<m_queue, writer, popped, lines>>

\* Mutant: Push without notify_one.
Notified_Never == writer

\* notify_one: the write thread, if it sleeps, runs again.
Notified == IF writer = "waiting" THEN "pop" ELSE writer

\* Mutant: the text goes to the front.
Enqueued_Front(t) == logging[t] \o m_queue

\* m_queue.push(data)
Enqueued(t) == m_queue \o logging[t]

\* The second half: Log, LockQueue::Push with notify_one under the mutex.
Push(t) ==
    /\ Up /\ logging[t] # <<>>
    /\ m_queue' = Enqueued(t)
    /\ logging' = [logging EXCEPT ![t] = <<>>]
    /\ writer' = Notified
    /\ UNCHANGED <<m_loglevel, popped, lines>>

\* The file of the day is opened before there is anything to write.
OpenFile ==
    /\ writer = "open"
    /\ writer' \in {"pop", "exited"}
    /\ UNCHANGED <<m_loglevel, logging, m_queue, popped, lines>>

\* LockQueue::Pop: an empty queue puts the thread to sleep.
Pop ==
    /\ writer = "pop"
    /\ IF m_queue = <<>>
       THEN writer' = "waiting" /\ UNCHANGED <<m_queue, popped>>
       ELSE /\ writer' = "write"
            /\ popped' = <<Head(m_queue)>>
            /\ m_queue' = Tail(m_queue)
    /\ UNCHANGED <<m_loglevel, logging, lines>>

\* The condition variable may wake the thread for nothing.
SpuriousWake ==
    /\ writer = "waiting"
    /\ writer' = "pop"
    /\ UNCHANGED <<m_loglevel, logging, m_queue, popped, lines>>

\* The line is stamped with m_loglevel as it is now.
WriteLine ==
    /\ writer = "write"
    /\ lines' = Append(lines, [popped[1] EXCEPT !.stamp = m_loglevel])
    /\ popped' = <<>>
    /\ writer' = "open"
    /\ UNCHANGED <<m_loglevel, logging, m_queue>>

\* What the write thread owes to be scheduled for.
WriterStep == OpenFile \/ Pop \/ WriteLine
===============================================================================
