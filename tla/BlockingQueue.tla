---------------------------- MODULE BlockingQueue ----------------------------
(***************************************************************************)
(* muduo::BlockingQueue and muduo::BoundedBlockingQueue: a deque, or a     *)
(* circular buffer, under a mutex, with one condition for takers and, in   *)
(* the bounded class, one for putters.  Each put wakes at most one taker   *)
(* and each take at most one putter.                                       *)
(***************************************************************************)
EXTENDS Integers, Sequences, FiniteSets, Condition

CONSTANTS
    Putters, Takers,
    Capacities,     \* capacities a queue may be built with; 0: BlockingQueue
    MaxPuts         \* bound: number of elements put

ASSUME QueueAssumption == /\ IsFiniteSet(Putters) /\ IsFiniteSet(Takers) /\ Putters \cap Takers = {}
                          /\ Capacities \subseteq Nat

VARIABLES
    capacity,       \* queue_.capacity(), 0 for the unbounded class
    items,          \* queue_, oldest first; the n-th element put is n
    got,            \* history: the elements returned, in order
    puts,           \* history: how many elements were put
    calling,        \* threads inside put or take
    blocked         \* the condition each thread waits on, as in Condition

queueVars == <<capacity, items, got, puts, calling, blocked>>
QueueUsers == Putters \cup Takers

QueueInit == /\ capacity \in Capacities
             /\ items = <<>> /\ got = <<>> /\ puts = 0
             /\ calling = {}
             /\ blocked = [t \in QueueUsers |-> "none"]
-----------------------------------------------------------------------------
full == capacity > 0 /\ Len(items) = capacity

queue_call(t) ==
    /\ t \notin calling
    /\ t \in Putters => puts + Cardinality(calling \cap Putters) < MaxPuts
    /\ calling' = calling \cup {t}
    /\ UNCHANGED <<capacity, items, got, puts, blocked>>

Awake(t) == t \in calling /\ blocked[t] = "none" /\ UNCHANGED capacity
Blocks(t, cond) == /\ blocked' = wait(blocked, t, cond)
                   /\ UNCHANGED <<items, got, puts, calling>>

\* put, from the test of its while loop to its end
putting(p, woken) ==
    /\ Awake(p)
    /\ IF full THEN Blocks(p, "notFull_")
       ELSE /\ items' = Append(items, puts + 1) /\ puts' = puts + 1
            /\ blocked' \in woken
            /\ calling' = calling \ {p}
            /\ UNCHANGED got

\* only the first element of an empty queue is signalled
queue_put_NotifyFirst(p) == putting(p, IF items = <<>> THEN notify(blocked, "notEmpty_") ELSE {blocked})
queue_put(p) == putting(p, notify(blocked, "notEmpty_"))

\* take, likewise; in the unbounded class nobody waits on notFull_
taking(c, woken) ==
    /\ Awake(c)
    /\ IF items = <<>> THEN Blocks(c, "notEmpty_")
       ELSE /\ got' = Append(got, Head(items)) /\ items' = Tail(items)
            /\ blocked' \in woken
            /\ calling' = calling \ {c}
            /\ UNCHANGED puts

queue_take(c) == taking(c, notify(blocked, "notFull_"))

\* BlockingQueue::drain moves the whole deque out.
queue_drain == /\ capacity = 0 /\ items # <<>>
               /\ got' = got \o items /\ items' = <<>>
               /\ UNCHANGED <<capacity, puts, calling, blocked>>

wakeup(t) == /\ blocked[t] # "none"
             /\ blocked' = spurious(blocked, t)
             /\ UNCHANGED <<capacity, items, got, puts, calling>>

QueueNext == \/ \E p \in Putters : queue_put(p)
             \/ \E c \in Takers : queue_take(c)
             \/ \E t \in QueueUsers : queue_call(t) \/ wakeup(t)
             \/ queue_drain

QueueSpec == QueueInit /\ [][QueueNext]_queueVars
-----------------------------------------------------------------------------
\* Elements come out in the order they went in, none twice, none lost, over
\* any mix of take and drain by several threads.
FirstInFirstOut == got \o items = [n \in 1 .. puts |-> n]

AwakeIn(S) == {t \in S \cap calling : blocked[t] = "none"}
SomeBlocked(cond) == \E t \in QueueUsers : blocked[t] = cond

\* One notify per put is enough: as long as a taker is blocked there are as
\* many takers on their way as there are elements, and likewise for putters
\* and free places in the bounded queue, whoever else came in between.
NoLostNotify ==
    /\ SomeBlocked("notEmpty_") => Cardinality(AwakeIn(Takers)) >= Len(items)
    /\ SomeBlocked("notFull_") => Cardinality(AwakeIn(Putters)) >= capacity - Len(items)

\* The queue delivers: in order, once, and without leaving a thread asleep
\* that has an element to take or a place to fill.
QueueDelivers == FirstInFirstOut /\ NoLostNotify
=============================================================================
