------------------------------ MODULE Coroutines ------------------------------
(***************************************************************************)
(* The coroutine library of KimRpc: Task<T> and DetachedTask (task.h), the *)
(* io_uring awaiters (io_uring_awaiter.h) and sync_wait (sync_wait.h).     *)
(*                                                                         *)
(* One thread runs everything.  A frame is the heap block of a coroutine;  *)
(* a destroyed frame may be allocated again, so that a handle or a         *)
(* user_data that outlives its frame names somebody else's.  The bodies    *)
(* are the user's: a running frame calls task functions, awaits the tasks  *)
(* it owns, drops them, starts detached coroutines, awaits I/O or ends,    *)
(* in any order.  A body that leaves by an exception ends like one that    *)
(* returns: the promise keeps the exception where it would keep the value. *)
(* sync_wait gets a ring of its own, as its header asks for, and is not    *)
(* called from inside a coroutine.                                         *)
(***************************************************************************)
EXTENDS Naturals, FiniteSets, Sequences, SequencesExt

CONSTANTS
    Frames,      \* addresses at which a coroutine frame can be allocated
    Main,        \* the caller of sync_wait, no coroutine
    None,        \* the null handle
    SqEntries,   \* entries of the submission queue
    MaxSteps,    \* bound on what the bodies do before all of them end
    MaxFaults    \* bound on interrupted or failing io_uring_enter calls

ASSUME CoroutinesAssumption ==
    /\ Main \notin Frames /\ None \notin Frames /\ Main # None
    /\ SqEntries \in Nat \ {0}
    /\ MaxSteps \in Nat /\ MaxFaults \in Nat

VARIABLES
    frame,         \* what the frame is doing
    kind,          \* "task" or "detached": the promise type
    continuation,  \* promise.continuation
    owner,         \* who holds the Task object of the frame
    stack,         \* frames being run, nested resume() calls, innermost last
    pc,            \* where sync_wait stands; "idle" outside of it
    root,          \* the task sync_wait drives
    sq, kernel,    \* frames whose IoRequest is prepared / submitted
    cq, head,      \* completions in order, and how many the loop has passed
    steps, faults

machine == <<frame, kind, continuation, owner, stack>>
loop    == <<pc, root>>
ring    == <<sq, kernel, cq, head>>
bounds  == <<steps, faults>>
vars    == <<machine, loop, ring, bounds>>

Init ==
    /\ frame = [f \in Frames |-> "free"]
    /\ kind = [f \in Frames |-> "task"]
    /\ continuation = [f \in Frames |-> None]
    /\ owner = [f \in Frames |-> None]
    /\ stack = <<>>
    /\ pc = "idle" /\ root = None
    /\ sq = {} /\ kernel = {} /\ cq = <<>> /\ head = 0
    /\ steps = 0 /\ faults = 0

Running(f) == stack # <<>> /\ Last(stack) = f
Owned(f)   == {g \in Frames : owner[g] = f}

Acts(f) == Running(f) /\ steps < MaxSteps /\ steps' = steps + 1 /\ UNCHANGED faults
Faulty  == faults < MaxFaults /\ faults' = faults + 1

(***************************************************************************)
(* Task<T>                                                                 *)
(***************************************************************************)
\* Allocates a frame; the promise starts without a continuation.
Allocate(g, k, o, st) ==
    /\ frame[g] = "free"
    /\ frame' = [frame EXCEPT ![g] = st]
    /\ kind' = [kind EXCEPT ![g] = k]
    /\ continuation' = [continuation EXCEPT ![g] = None]
    /\ owner' = [owner EXCEPT ![g] = o]

\* A call of a Task function: initial_suspend is suspend_always.
CreateTask(f, g) ==
    /\ Acts(f)
    /\ Allocate(g, "task", f, "created")
    /\ UNCHANGED <<stack, loop, ring>>

\* co_await task: a finished task is ready; otherwise the awaiting handle is
\* stored and control is transferred, the stack does not grow.
AwaitTask(f, g) ==
    /\ Acts(f) /\ g \in Owned(f)
    /\ IF frame[g] = "final"
       THEN UNCHANGED machine
       ELSE /\ continuation' = [continuation EXCEPT ![g] = f]
            /\ frame' = [frame EXCEPT ![f] = "await", ![g] = "running"]
            /\ stack' = Append(Front(stack), g)
            /\ UNCHANGED <<kind, owner>>
    /\ UNCHANGED <<loop, ring>>

\* ~Task: the handle is destroyed whatever the coroutine is doing.
DestroyTask(f, g) ==
    /\ Acts(f) /\ g \in Owned(f)
    /\ frame' = [frame EXCEPT ![g] = "free"]
    /\ owner' = [owner EXCEPT ![g] = None]
    /\ UNCHANGED <<kind, continuation, stack, loop, ring>>

\* Mutant: the continuation is not resumed.
FinalTransfer_Noop(f) == Front(stack)

\* FinalAwaiter: whom the end of f hands the thread to.
FinalTransfer(f) ==
    IF continuation[f] # None
    THEN Append(Front(stack), continuation[f])
    ELSE Front(stack)

\* The locals of the body die, its Tasks with them.
FramesAfter(f, st) ==
    [g \in Frames |-> IF g = f THEN st
                      ELSE IF owner[g] = f THEN "free" ELSE frame[g]]

OwnersAfter(f) == [g \in Frames |-> IF owner[g] = f THEN None ELSE owner[g]]

\* The body of a Task ends, by co_return or by an exception, and the frame
\* stops at its final suspend point.
TaskEnds(f) ==
    /\ Running(f) /\ kind[f] = "task"
    /\ LET c == continuation[f] IN
       frame' = IF c # None
                THEN [FramesAfter(f, "final") EXCEPT ![c] = "running"]
                ELSE FramesAfter(f, "final")
    /\ owner' = OwnersAfter(f)
    /\ stack' = FinalTransfer(f)
    /\ UNCHANGED <<kind, continuation, loop, ring, bounds>>

(***************************************************************************)
(* DetachedTask: runs at once, on top of its caller, and frees itself.     *)
(***************************************************************************)
StartDetached(g) ==
    /\ steps < MaxSteps /\ steps' = steps + 1 /\ UNCHANGED faults
    /\ stack = <<>> => pc = "idle"
    /\ Allocate(g, "detached", None, "running")
    /\ stack' = Append(stack, g)
    /\ UNCHANGED <<loop, ring>>

\* Mutant: final_suspend is suspend_always, as in Task.
DetachedEnds_Suspended(f) ==
    /\ Running(f) /\ kind[f] = "detached"
    /\ frame' = FramesAfter(f, "final")
    /\ owner' = OwnersAfter(f)
    /\ stack' = Front(stack)
    /\ UNCHANGED <<kind, continuation, loop, ring, bounds>>

DetachedEnds(f) ==
    /\ Running(f) /\ kind[f] = "detached"
    /\ frame' = FramesAfter(f, "free")
    /\ owner' = OwnersAfter(f)
    /\ stack' = Front(stack)
    /\ UNCHANGED <<kind, continuation, loop, ring, bounds>>

(***************************************************************************)
(* UringAwaiter                                                            *)
(***************************************************************************)
SqFull == Cardinality(sq) = SqEntries

\* await_suspend: an SQE is taken, after a submit if none is left; the frame
\* returns to whoever resumed it and waits for its completion.
AwaitIo(f) ==
    /\ Acts(f)
    /\ IF SqFull
       THEN kernel' = kernel \cup sq /\ sq' = {f}
       ELSE sq' = sq \cup {f} /\ UNCHANGED kernel
    /\ frame' = [frame EXCEPT ![f] = "io"]
    /\ stack' = Front(stack)
    /\ UNCHANGED <<kind, continuation, owner, loop, cq, head>>

\* Mutant: await_suspend returns true without an SQE.
AwaitIoNoSqe_Suspends(f) ==
    /\ Running(f) /\ SqFull
    /\ Faulty /\ UNCHANGED steps
    /\ frame' = [frame EXCEPT ![f] = "io"]
    /\ stack' = Front(stack)
    /\ UNCHANGED <<kind, continuation, owner, loop, ring>>

\* The queue stays full because that submit fails: await_suspend returns
\* false and the body goes on with -ENOMEM.
AwaitIoNoSqe(f) ==
    /\ Running(f) /\ SqFull
    /\ Faulty /\ UNCHANGED steps
    /\ UNCHANGED <<machine, loop, ring>>

\* The kernel (external): a submitted request completes.
KCompletes(f) ==
    /\ f \in kernel
    /\ kernel' = kernel \ {f}
    /\ cq' = Append(cq, f)
    /\ UNCHANGED <<machine, loop, sq, head, bounds>>

(***************************************************************************)
(* sync_wait                                                               *)
(***************************************************************************)
\* sync_wait(ring, fn()): the task is made and its handle resumed.
SyncWait(g) ==
    /\ pc = "idle" /\ stack = <<>>
    /\ steps < MaxSteps /\ steps' = steps + 1 /\ UNCHANGED faults
    /\ Allocate(g, "task", Main, "running")
    /\ stack' = <<g>>
    /\ pc' = "loop" /\ root' = g
    /\ UNCHANGED ring

\* while (!handle.done()): into drainCqes, which submits and waits for one
\* completion; a call that fails leaves the queue as it is and is not noticed.
SubmitAndWait ==
    /\ pc = "loop" /\ stack = <<>>
    /\ frame[root] # "final"
    /\ \/ pc' = "wait" /\ kernel' = kernel \cup sq /\ sq' = {} /\ UNCHANGED bounds
       \/ pc' = "drain" /\ Faulty /\ UNCHANGED <<sq, kernel, steps>>
    /\ UNCHANGED <<machine, root, cq, head>>

\* io_uring_submit_and_wait returns: a completion is there.
WaitReturns ==
    /\ pc = "wait" /\ cq # <<>>
    /\ pc' = "drain"
    /\ UNCHANGED <<machine, root, ring, bounds>>

\* It returns for a signal, which is not noticed either.
WaitInterrupted ==
    /\ pc = "wait"
    /\ pc' = "drain"
    /\ Faulty /\ UNCHANGED steps
    /\ UNCHANGED <<machine, root, ring>>

\* io_uring_for_each_cqe, one round: resumeFromCqe follows the pointer in
\* user_data and resumes the handle there, while the CQE is still in the queue.
ResumeCqe ==
    /\ pc = "drain" /\ stack = <<>> /\ head < Len(cq)
    /\ head' = head + 1
    /\ LET f == cq[head + 1] IN
       /\ frame' = [frame EXCEPT ![f] = "running"]
       /\ stack' = <<f>>
    /\ UNCHANGED <<kind, continuation, owner, loop, sq, kernel, cq, bounds>>

\* The loop has caught up with the queue: io_uring_cq_advance(ring, count).
DrainEnds ==
    /\ pc = "drain" /\ stack = <<>> /\ head = Len(cq)
    /\ pc' = "loop"
    /\ cq' = <<>> /\ head' = 0
    /\ UNCHANGED <<machine, root, sq, kernel, bounds>>

\* The task is done: its result or exception leaves sync_wait, and the Task
\* parameter is destroyed.
SyncReturns ==
    /\ pc = "loop" /\ stack = <<>>
    /\ frame[root] = "final"
    /\ pc' = "idle" /\ root' = None
    /\ frame' = [frame EXCEPT ![root] = "free"]
    /\ owner' = [owner EXCEPT ![root] = None]
    /\ UNCHANGED <<kind, continuation, stack, ring, bounds>>

-----------------------------------------------------------------------------
\* What the thread does; it is the only one.
ThreadStep ==
    \/ \E f \in Frames :
          \/ \E g \in Frames : CreateTask(f, g) \/ AwaitTask(f, g) \/ DestroyTask(f, g)
          \/ TaskEnds(f) \/ DetachedEnds(f)
          \/ AwaitIo(f) \/ AwaitIoNoSqe(f)
          \/ StartDetached(f) \/ SyncWait(f)
    \/ SubmitAndWait \/ WaitReturns \/ ResumeCqe \/ DrainEnds \/ SyncReturns

\* Between two calls of sync_wait the program may do something else for ever.
Idle == pc = "idle" /\ stack = <<>> /\ UNCHANGED vars

Next == ThreadStep \/ WaitInterrupted \/ (\E f \in Frames : KCompletes(f)) \/ Idle

Spec == Init /\ [][Next]_vars

\* The thread runs when it can, a body does not loop for ever, and the kernel
\* completes what was submitted.
FairSpec ==
    /\ Spec
    /\ WF_vars(ThreadStep)
    /\ \A f \in Frames : WF_vars(KCompletes(f))
===============================================================================
