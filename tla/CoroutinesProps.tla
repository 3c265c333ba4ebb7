---------------------------- MODULE CoroutinesProps ----------------------------
(***************************************************************************)
(* What the users of the coroutine library rely on.                        *)
(***************************************************************************)
EXTENDS Coroutines

\* How many ways there are to the completion of f's request.
Requests(f) ==
    Cardinality({q \in 1 .. 2 : f \in <<sq, kernel>>[q]})
    + Cardinality({i \in head + 1 .. Len(cq) : cq[i] = f})

\* The type of the state; the submission queue never holds more entries than
\* io_uring_queue_init gave it, although await_suspend takes one at any time.
TypeOK ==
    /\ frame \in [Frames -> {"free", "created", "running", "io", "await", "final"}]
    /\ kind \in [Frames -> {"task", "detached"}]
    /\ continuation \in [Frames -> Frames \cup {None}]
    /\ owner \in [Frames -> Frames \cup {Main, None}]
    /\ stack \in Seq(Frames)
    /\ pc \in {"idle", "loop", "wait", "drain"}
    /\ root \in Frames \cup {None}
    /\ sq \subseteq Frames /\ Cardinality(sq) <= SqEntries
    /\ kernel \subseteq Frames
    /\ cq \in Seq(Frames) /\ head \in 0 .. Len(cq)

\* Every suspended frame has exactly one way back to the thread, and nothing
\* else has: a frame waiting for I/O has one request in the ring, a frame
\* waiting for a task is the continuation of one task that is under way, a
\* running frame is on the stack once.  So no resume() (resumeFromCqe,
\* FinalAwaiter) reaches a frame that is running, finished, freed or reused,
\* no suspended frame is forgotten, and ~Task, which destroys the handle
\* without looking, never frees one with a request in the ring or a caller.
WakersExact ==
    /\ TypeOK
    /\ \A f \in Frames :
       /\ Requests(f) = IF frame[f] = "io" THEN 1 ELSE 0
       /\ Cardinality({g \in Frames : continuation[g] = f
                          /\ frame[g] \in {"running", "io", "await"}})
            = IF frame[f] = "await" THEN 1 ELSE 0
       /\ Cardinality({i \in DOMAIN stack : stack[i] = f})
            = IF frame[f] = "running" THEN 1 ELSE 0

\* No frame outlives its use: once sync_wait has returned and the ring is
\* empty, every frame was freed, by ~Task or by the end of a detached body.
NoLeak ==
    (pc = "idle" /\ stack = <<>> /\ sq \cup kernel = {} /\ cq = <<>>)
       => \A f \in Frames : frame[f] = "free"

\* sync_wait comes back: whatever the bodies await, and although completions
\* of one batch queue new requests, its loop never waits with nothing
\* submitted (deadlock of the only thread).
SyncWaitReturns == (pc # "idle") ~> (pc = "idle")

-----------------------------------------------------------------------------
(***************************************************************************)
(* The inductive invariant.  A frame under way is running, waiting for I/O *)
(* or waiting for a task.  The counts of WakersExact are said with         *)
(* quantifiers; what makes them inductive is who owns whom: a Task belongs *)
(* to a frame under way (or to sync_wait), and once it is under way itself *)
(* its owner is the frame that waits for it.                               *)
(***************************************************************************)
UnderWay == {"running", "io", "await"}

\* The completions the loop has still to pass.
Pending == head + 1 .. Len(cq)

RingInv ==
    /\ IsFiniteSet(sq)
    /\ sq \cap kernel = {}
    /\ \A i, j \in Pending : cq[i] = cq[j] => i = j
    /\ \A i \in Pending : cq[i] \notin sq \cup kernel
    /\ \A f \in sq \cup kernel : frame[f] = "io"
    /\ \A i \in Pending : frame[cq[i]] = "io"
    /\ \A f \in Frames :
          frame[f] = "io" => f \in sq \cup kernel \/ \E i \in Pending : cq[i] = f

StackInv ==
    /\ \A i, j \in DOMAIN stack : stack[i] = stack[j] => i = j
    /\ \A i \in DOMAIN stack : frame[stack[i]] = "running"
    /\ \A f \in Frames : frame[f] = "running" => \E i \in DOMAIN stack : stack[i] = f

\* g wakes f at its end.
Wakes(g, f) == continuation[g] = f /\ frame[g] \in UnderWay

AwaitInv ==
    /\ \A f \in Frames : frame[f] = "await" => \E g \in Frames : Wakes(g, f)
    /\ \A f, g \in Frames : Wakes(g, f) => frame[f] = "await"
    /\ \A f, g, h \in Frames : Wakes(g, f) /\ Wakes(h, f) => g = h

OwnerInv ==
    /\ \A g \in Frames :
       /\ owner[g] # g
       /\ owner[g] # None => frame[g] # "free" /\ kind[g] = "task"
       /\ frame[g] \in {"created", "final"} => owner[g] # None
       /\ frame[g] # "free" /\ kind[g] = "task" => owner[g] # None
       /\ frame[g] = "created" => continuation[g] = None
       /\ owner[g] \in Frames => frame[owner[g]] \in UnderWay
       /\ owner[g] \in Frames /\ frame[g] \in UnderWay => continuation[g] = owner[g]
       /\ owner[g] = Main => g = root /\ continuation[g] = None
       /\ owner[g] = None /\ frame[g] # "free" => continuation[g] = None
    /\ pc = "idle" => root = None
    /\ pc # "idle" => root \in Frames /\ owner[root] = Main

\* Frames do not wait for each other in a circle: among any frames that wait
\* for a task, the task of one is not among them.
NoCircle ==
    \A S \in SUBSET Frames :
       S # {} /\ (\A f \in S : frame[f] = "await")
          => \E f \in S : \A g \in S : continuation[g] # f

CoroutinesInv == TypeOK /\ RingInv /\ StackInv /\ AwaitInv /\ OwnerInv /\ NoCircle
=============================================================================
