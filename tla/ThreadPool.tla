----------------------------- MODULE ThreadPool -----------------------------
(***************************************************************************)
(* muduo::ThreadPool: start() starts the worker Threads of Thread.tla one  *)
(* after the other, run() queues a task (and blocks while the queue is     *)
(* full), the workers take and execute tasks until stop() clears running_, *)
(* wakes everybody and joins them.  A task may call run() itself, so a     *)
(* worker can block on its own pool's full queue.  With no threads run()   *)
(* executes the task in the caller.                                        *)
(***************************************************************************)
EXTENDS Thread, Sequences, FiniteSets, Condition

CONSTANTS
    Clients,        \* threads that call run()
    maxQueueSize_,  \* 0: unbounded
    MaxTasks        \* bound: number of tasks offered

VARIABLES
    numThreads,     \* the argument of start: all of Thr or none
    boss,           \* where the thread that calls start and stop is
    running_,
    queue_,         \* tasks queued, oldest first
    offered,        \* history: tasks given to run() so far; the n-th is n
    ran,            \* history: tasks taken (or run in place), in order
    worker,         \* where each worker is in runInThread, or a client in run
    waiting         \* the condition each thread waits on, as in Condition

poolVars == <<threadVars, numThreads, boss, running_, queue_, offered, ran, worker, waiting>>
Everyone == Thr \cup Clients
Place(t, from, to) == worker[t] = from /\ worker' = [worker EXCEPT ![t] = to]

PoolInit == /\ ThreadInit
            /\ numThreads \in {0, Cardinality(Thr)} /\ boss = "new" /\ running_ = FALSE
            /\ queue_ = <<>> /\ offered = 0 /\ ran = <<>>
            /\ worker = [t \in Everyone |-> "idle"]
            /\ waiting = [t \in Everyone |-> "none"]
-----------------------------------------------------------------------------
threads_ == {x \in Thr : owner[x] # "new"}

\* start(): one Thread at a time; start() of each returns before the next.
start == /\ boss \in {"new", "starting"} /\ \A x \in threads_ : owner[x] = "started"
         /\ running_' = TRUE
         /\ IF Cardinality(threads_) < numThreads
            THEN boss' = "starting" /\ \E x \in Thr : create(x)
            ELSE boss' = "up" /\ UNCHANGED threadVars
         /\ UNCHANGED <<numThreads, queue_, offered, ran, worker, waiting>>

threadStarts == /\ \E x \in Thr : latch_wait(x) \/ ThreadRuns(x)
                /\ UNCHANGED <<numThreads, boss, running_, queue_, offered, ran, worker, waiting>>

isFull == maxQueueSize_ > 0 /\ Len(queue_) >= maxQueueSize_

Caller(t) == IF t \in Thr THEN "task" ELSE "idle"

\* run(), called by a client or by a task, and its second look after a wait:
\* the call blocks, queues the task, runs it in place when there are no
\* threads, or returns at once when the pool has been stopped.
runs(t, woken) ==
    /\ waiting[t] = "none"
    /\ \/ worker[t] = "run"
       \/ worker[t] = Caller(t) /\ boss \in {"up", "stopping", "stopped"} /\ offered < MaxTasks
    /\ \/ /\ threads_ # {} /\ isFull /\ running_
          /\ worker' = [worker EXCEPT ![t] = "run"]
          /\ waiting' = wait(waiting, t, "notFull_")
          /\ UNCHANGED <<queue_, offered, ran>>
       \/ /\ threads_ = {} \/ ~isFull \/ ~running_
          /\ worker' = [worker EXCEPT ![t] = Caller(t)]
          /\ offered' = offered + 1
          /\ IF threads_ # {} /\ running_
             THEN queue_' = Append(queue_, offered') /\ waiting' \in woken
             ELSE UNCHANGED <<queue_, waiting>>
          /\ ran' = IF threads_ = {} THEN Append(ran, offered') ELSE ran
    /\ UNCHANGED <<threadVars, numThreads, boss, running_>>

run(t) == runs(t, notify(waiting, "notEmpty_"))

\* runInThread: the unlocked test of "while (running_)".
runInThread(x) ==
    /\ newborn[x] = "func_"
    /\ IF running_
       THEN Place(x, "idle", "take") /\ UNCHANGED threadVars
       ELSE worker[x] = "idle" /\ finish(x) /\ UNCHANGED worker
    /\ UNCHANGED <<numThreads, boss, running_, queue_, offered, ran, waiting>>

\* take(), from the test of its while loop to its end
takes(x, woken) ==
    /\ worker[x] = "take" /\ waiting[x] = "none"
    /\ IF queue_ = <<>>
       THEN /\ IF running_ THEN waiting' = wait(waiting, x, "notEmpty_") /\ UNCHANGED worker
                           ELSE Place(x, "take", "idle") /\ UNCHANGED waiting
            /\ UNCHANGED <<queue_, ran>>
       ELSE /\ Place(x, "take", "task")
            /\ ran' = Append(ran, Head(queue_)) /\ queue_' = Tail(queue_)
            /\ waiting' \in IF maxQueueSize_ > 0 THEN woken ELSE {waiting}
    /\ UNCHANGED <<threadVars, numThreads, boss, running_, offered>>

take_NoNotify(x) == takes(x, {waiting})
take(x) == takes(x, notify(waiting, "notFull_"))

taskReturns(x) == /\ Place(x, "task", "idle") /\ x \in Thr
                  /\ UNCHANGED <<threadVars, numThreads, boss, running_, queue_, offered, ran, waiting>>

wakesUp(t) == /\ waiting[t] # "none" /\ waiting' = spurious(waiting, t)
              /\ UNCHANGED <<threadVars, numThreads, boss, running_, queue_, offered, ran, worker>>

\* stop() clears running_ and wakes everybody under mutex_, ...
stops(woken) == /\ boss = "up" /\ boss' = "stopping"
                /\ running_' = FALSE
                /\ waiting' = woken
                /\ UNCHANGED <<threadVars, numThreads, queue_, offered, ran, worker>>

stop == stops(notifyAll(notifyAll(waiting, "notEmpty_"), "notFull_"))

\* ... then joins the threads one by one.
stop_join == /\ boss = "stopping"
             /\ IF \A x \in threads_ : owner[x] = "joined"
                THEN boss' = "stopped" /\ UNCHANGED threadVars
                ELSE (\E x \in Thr : join(x)) /\ UNCHANGED boss
             /\ UNCHANGED <<numThreads, running_, queue_, offered, ran, worker, waiting>>

PoolNext == \/ start \/ threadStarts \/ stop \/ stop_join
            \/ \E x \in Thr : runInThread(x) \/ take(x) \/ taskReturns(x)
            \/ \E t \in Everyone : run(t) \/ wakesUp(t)

\* A ready thread is scheduled and a task returns; nobody need call stop().
PoolFairness ==
    /\ WF_poolVars(start) /\ WF_poolVars(threadStarts) /\ WF_poolVars(stop_join)
    /\ \A x \in Thr : WF_poolVars(runInThread(x)) /\ WF_poolVars(take(x)) /\ WF_poolVars(taskReturns(x))
    /\ \A t \in Everyone : WF_poolVars(worker[t] = "run" /\ run(t))
-----------------------------------------------------------------------------
\* When stop() has returned no task is queued or taken any more, also when
\* tasks were left in the queue or run() is called later.  The exception is
\* a pool without threads: its run() executes the task in the caller after
\* stop() too (ThreadPool.cc:74-77), where ThreadPool.h:46 says "Call after
\* stop() will return immediately".
StoppedIsQuiet ==
    [][boss = "stopped" => UNCHANGED queue_ /\ (UNCHANGED ran \/ threads_ = {})]_poolVars

AllWorkersInRun == \A x \in threads_ : worker[x] = "run"

\* A caller blocked in run() is released by a take or by stop().  The one way
\* to stay blocked is that every worker is itself blocked in run(), called
\* from a task on the pool's own full queue.
BlockedRunReturns ==
    \A t \in Everyone : worker[t] = "run" ~> worker[t] # "run" \/ AllWorkersInRun

\* A queued task is executed unless the pool is stopped first or all the
\* workers block as above.
QueuedTaskStarts ==
    \A n \in 1 .. MaxTasks :
        (\E i \in 1 .. Len(queue_) : queue_[i] = n)
        ~> (\E i \in 1 .. Len(ran) : ran[i] = n) \/ ~running_ \/ AllWorkersInRun

\* stop() returns, even if every worker and client is blocked when it is called.
StopReturns == boss = "stopping" ~> boss = "stopped"

\* The pool drains: tasks run until stop(), no thread of the pool starts one
\* after it, and nobody stays blocked in run() or stop() but in the deadlock
\* named above.
PoolDrains == StoppedIsQuiet /\ QueuedTaskStarts /\ BlockedRunReturns /\ StopReturns
=============================================================================
