------------------------------- MODULE Thread -------------------------------
(***************************************************************************)
(* muduo::Thread and the CountDownLatch its start() waits on.  The owner   *)
(* creates a thread that writes its id into the Thread object and counts   *)
(* latch_ down from 1, both through pointers into the object; start()      *)
(* returns when the latch is at 0.  The owner may then join, or destroy    *)
(* the object and so detach a thread that is still running.                *)
(***************************************************************************)
EXTENDS Integers

CONSTANT Thr        \* Thread objects, each with the thread it starts

VARIABLES
    owner,          \* where the owner of each object is
    newborn,        \* where each new thread is
    tid_,           \* the id has been stored
    count_,         \* latch_.count_
    asleep          \* the owner is blocked on latch_.condition_

threadVars == <<owner, newborn, tid_, count_, asleep>>

OwnerMoves(x, from, to) == owner[x] = from /\ owner' = [owner EXCEPT ![x] = to]
NewbornMoves(x, from, to) == newborn[x] = from /\ newborn' = [newborn EXCEPT ![x] = to]

ThreadInit == /\ owner = [x \in Thr |-> "new"] /\ newborn = [x \in Thr |-> "none"]
              /\ tid_ = [x \in Thr |-> FALSE] /\ count_ = [x \in Thr |-> 1]
              /\ asleep = [x \in Thr |-> FALSE]
-----------------------------------------------------------------------------
\* start(): pthread_create.  When it fails LOG_SYSFATAL ends the process.
create(x) == /\ OwnerMoves(x, "new", "waiting")
             /\ NewbornMoves(x, "none", "created")
             /\ UNCHANGED <<tid_, count_, asleep>>

create_fails(x) == /\ OwnerMoves(x, "new", "aborted")
                   /\ UNCHANGED <<newborn, tid_, count_, asleep>>

\* latch_.wait() under the latch's mutex, which countDown holds meanwhile.
latch_wait(x) ==
    /\ owner[x] = "waiting" /\ ~asleep[x] /\ newborn[x] # "counted"
    /\ IF count_[x] > 0
       THEN asleep' = [asleep EXCEPT ![x] = TRUE] /\ UNCHANGED owner
       ELSE OwnerMoves(x, "waiting", "started") /\ UNCHANGED asleep
    /\ UNCHANGED <<newborn, tid_, count_>>

latch_spurious(x) == /\ asleep[x]
                     /\ asleep' = [asleep EXCEPT ![x] = FALSE]
                     /\ UNCHANGED <<owner, newborn, tid_, count_>>

\* ThreadData::runInThread: *tid_ = CurrentThread::tid(),
storeTid(x) == /\ NewbornMoves(x, "created", "stored")
               /\ tid_' = [tid_ EXCEPT ![x] = TRUE]
               /\ UNCHANGED <<owner, count_, asleep>>

\* A countDown that wakes nobody.
countDown_Silent(x) ==
    /\ NewbornMoves(x, "stored", "counted")
    /\ count_' = [count_ EXCEPT ![x] = @ - 1]
    /\ UNCHANGED <<owner, tid_, asleep>>

\* latch_->countDown() takes the latch's mutex ...
countDown(x) ==
    /\ NewbornMoves(x, "stored", "counted")
    /\ count_' = [count_ EXCEPT ![x] = @ - 1]
    /\ asleep' = [asleep EXCEPT ![x] = @ /\ count_'[x] # 0]
    /\ UNCHANGED <<owner, tid_>>

\* ... and releases it, after which the Thread object is not used again.
countDown_return(x) == /\ NewbornMoves(x, "counted", "func_")
                       /\ UNCHANGED <<owner, tid_, count_, asleep>>

\* func_ has returned; an exception instead would end the process.
finish(x) == /\ NewbornMoves(x, "func_", "ended")
             /\ UNCHANGED <<owner, tid_, count_, asleep>>

\* join() returns when the thread has ended,
join(x) == /\ newborn[x] = "ended"
           /\ OwnerMoves(x, "started", "joined")
           /\ UNCHANGED <<newborn, tid_, count_, asleep>>

\* ~Thread detaches a thread that was started and not joined.
destroyThread(x) ==
    /\ OwnerMoves(x, "started", "gone") \/ OwnerMoves(x, "joined", "gone") \/ OwnerMoves(x, "new", "gone")
    /\ UNCHANGED <<newborn, tid_, count_, asleep>>

ThreadRuns(x) == storeTid(x) \/ countDown(x) \/ countDown_return(x)

ThreadNext == \E x \in Thr : \/ create(x) \/ create_fails(x)
                             \/ latch_wait(x) \/ latch_spurious(x)
                             \/ ThreadRuns(x) \/ finish(x)
                             \/ join(x) \/ destroyThread(x)
ThreadSpec == ThreadInit /\ [][ThreadNext]_threadVars

\* The scheduler runs a ready thread: the owner in start(), the new thread.
ThreadFairness == \A x \in Thr : /\ WF_threadVars(latch_wait(x))
                                 /\ WF_threadVars(ThreadRuns(x))
-----------------------------------------------------------------------------
\* Between pthread_create and the end of countDown the new thread writes
\* through pointers into the Thread object; the owner, though it may destroy
\* the object as soon as start() has returned, never does it too early.
NewThreadFindsObject ==
    \A x \in Thr : newborn[x] \in {"created", "stored", "counted"} => owner[x] = "waiting"

\* assert(tid_ > 0) at the end of start(): the latch publishes the id.
StartSeesTid == \A x \in Thr : owner[x] \in {"started", "joined"} => tid_[x]

\* start() returns: the count reaching 0 is never missed by the owner,
\* whether it reads the latch before, while or after countDown runs.
StartReturns == \A x \in Thr : owner[x] = "waiting" ~> owner[x] = "started"

\* start() hands over: the new thread has the object as long as it needs it,
\* the owner gets the id, and neither waits for ever.
StartHandsOver == []NewThreadFindsObject /\ []StartSeesTid /\ StartReturns
=============================================================================
