------------------------------- MODULE MCBase -------------------------------
(***************************************************************************)
(* The blocking objects of muduo/base, one at a time: a behaviour uses a   *)
(* MutexLock, a queue, a Thread, a ThreadPool or an AsyncLogging, and      *)
(* nothing else moves.                                                     *)
(***************************************************************************)
EXTENDS MutexLock, BlockingQueue, ThreadPool, AsyncLogging

VARIABLE which

baseVars == <<lockVars, queueVars, poolVars, asyncVars, which>>
poolOnly == <<numThreads, boss, running_, queue_, offered, ran, worker, waiting>>

BaseInit == /\ which \in {"mutex", "queue", "thread", "pool", "async"}
            /\ LockInit /\ QueueInit /\ PoolInit /\ AsyncInit
            /\ which # "queue" => capacity = 0
            /\ which # "pool" => numThreads = 0

BaseNext ==
    /\ UNCHANGED which
    /\ \/ which = "mutex" /\ LockNext /\ UNCHANGED <<queueVars, poolVars, asyncVars>>
       \/ which = "queue" /\ QueueNext /\ UNCHANGED <<lockVars, poolVars, asyncVars>>
       \/ which = "thread" /\ ThreadNext /\ UNCHANGED <<lockVars, queueVars, poolOnly, asyncVars>>
       \/ which = "pool" /\ PoolNext /\ UNCHANGED <<lockVars, queueVars, asyncVars>>
       \/ which = "async" /\ AsyncNext /\ UNCHANGED <<lockVars, queueVars, poolVars>>

BaseSpec == /\ BaseInit /\ [][BaseNext]_baseVars
            /\ which = "thread" => ThreadFairness
            /\ which = "pool" => PoolFairness
            /\ which = "async" => AsyncFairness
=============================================================================
