----------------------------- MODULE TimerQueue -----------------------------
(***************************************************************************)
(* muduo::net::TimerQueue with Timer and TimerId: the timers of one        *)
(* EventLoop, driven by one timerfd.  addTimer() and cancel() go through   *)
(* runInLoop(): in the loop thread they act at once, from another thread   *)
(* they become a task of the loop, which TaskQueue specifies and EventLoop *)
(* implements.                                                             *)
(*                                                                         *)
(* Timer objects live in a heap of few addresses, so that a freed address  *)
(* is used again: the sequence number in a TimerId is what tells the old   *)
(* timer from the new one.                                                 *)
(***************************************************************************)
EXTENDS Naturals, Sequences, FiniteSets

CONSTANTS
    Addrs,          \* addresses a Timer can be allocated at
    Threads,        \* threads other than the loop thread
    MaxTime,        \* bound: the clock stops there
    Intervals,      \* intervals of the timers; 0 means one-shot
    MaxTimers,      \* bound: timers created
    MaxQueue,       \* bound: tasks queued in the loop
    EarlyBy         \* how early CLOCK_MONOTONIC may fire by the wall clock

ASSUME TimerConstants ==
    /\ MaxTime \in Nat /\ MaxTimers \in Nat /\ MaxQueue \in Nat /\ EarlyBy \in Nat
    /\ Intervals \subseteq Nat

VARIABLES
    now,                    \* the wall clock
    heap,                   \* the Timer at each address; Free has sequence 0
    created,                \* s_numCreated_
    timers_,                \* set of Entry: <<expiration, address>>
    activeTimers_,          \* set of ActiveTimer: <<address, sequence>>
    cancelingTimers_,
    callingExpiredTimers_,
    expired,                \* handleRead: what getExpired returned
    toRun,                  \* handleRead: the part that has not run yet
    readTime,               \* handleRead: its now
    armed,                  \* the time the timerfd fires at; 0: disarmed
    readable,               \* the timerfd has fired and was not read
    active,                 \* poll() has returned timerfdChannel_
    tasks,                  \* pending functors of the loop, oldest first
    adding,                 \* per thread: addTimer between queueing and return
    ids,                    \* TimerIds the users hold
    cancelled               \* history: timers cancelInLoop was called for

loopVars == <<expired, toRun, readTime, callingExpiredTimers_, active>>
fdVars == <<armed, readable>>
queueVars == <<heap, timers_, activeTimers_, cancelingTimers_>>
vars == <<now, heap, created, timers_, activeTimers_, cancelingTimers_,
          callingExpiredTimers_, expired, toRun, readTime, armed, readable,
          active, tasks, adding, ids, cancelled>>

Times == 0 .. MaxTime           \* 0 is Timestamp::invalid()
Timer == [expiration : Nat, interval : Nat, sequence : Nat]
Free == [expiration |-> 0, interval |-> 0, sequence |-> 0]
TimerId == Addrs \X Nat
Nobody == <<>>

repeat(a) == heap[a].interval > 0
Earliest(entries, e) == \A x \in entries : e[1] <= x[1]

\* The timers handleRead is calling, as getExpired saw them.
Called == {<<e[2], heap[e[2]].sequence>> : e \in expired}

\* User code runs in the loop thread: a handler, a functor, a timer callback.
InLoopThread == callingExpiredTimers_ => toRun # expired

Init ==
    /\ now = 1 /\ created = 0
    /\ heap = [a \in Addrs |-> Free]
    /\ timers_ = {} /\ activeTimers_ = {} /\ cancelingTimers_ = {}
    /\ callingExpiredTimers_ = FALSE
    /\ expired = {} /\ toRun = {} /\ readTime = 0
    /\ armed = 0 /\ readable = FALSE /\ active = FALSE
    /\ tasks = <<>> /\ ids = {} /\ cancelled = {}
    /\ adding = [t \in Threads |-> Nobody]
-----------------------------------------------------------------------------
\* A delay of 0 instead of 100 microseconds disarms the timerfd.
resetTimerfd_NoMinimum(when) ==
    armed' = (IF when > now THEN when ELSE 0) /\ readable' = FALSE

\* timerfd_settime forgets an expiration that was not read.  A time that has
\* passed is turned into the shortest delay, never into 0.
resetTimerfd(when) ==
    armed' = (IF when > now THEN when ELSE now) /\ readable' = FALSE

\* insert() of the timer at a, and resetTimerfd if it is the new earliest.
addTimerInLoop(h, a) ==
    LET when == h[a].expiration
    IN  /\ timers_' = timers_ \cup {<<when, a>>}
        /\ activeTimers_' = activeTimers_ \cup {<<a, h[a].sequence>>}
        /\ IF \A e \in timers_ : when < e[1]
           THEN resetTimerfd(when)
           ELSE UNCHANGED fdVars
        /\ heap' = h
        /\ UNCHANGED <<cancelingTimers_, cancelled>>

\* History: a Timer that exists was cancelled; was it queued or being called?
RecordCancel(id) ==
    IF heap[id[1]].sequence = id[2]
    THEN cancelled \cup {<<id, id \in activeTimers_ \cup Called>>} ELSE cancelled

\* Both sets lose the timer, and it is deleted.
Delete(id) ==
    /\ timers_' = timers_ \ {<<heap[id[1]].expiration, id[1]>>}
    /\ activeTimers_' = activeTimers_ \ {id}
    /\ heap' = [heap EXCEPT ![id[1]] = Free]
    /\ UNCHANGED cancelingTimers_

\* A cancel that forgets the timers that are being called.
cancelInLoop_NotWhileCalling(id) ==
    /\ IF id \in activeTimers_ THEN Delete(id) ELSE UNCHANGED queueVars
    /\ cancelled' = RecordCancel(id)
    /\ UNCHANGED fdVars

\* A cancel that deletes any timer that exists, even one being called.
cancelInLoop_DeletesAny(id) ==
    /\ IF heap[id[1]].sequence = id[2] THEN Delete(id) ELSE UNCHANGED queueVars
    /\ cancelled' = RecordCancel(id)
    /\ UNCHANGED fdVars

\* cancelInLoop: delete a timer of the queue; remember one being called, for
\* reset().  The timerfd is left as it is.
cancelInLoop(id) ==
    /\ IF id \in activeTimers_
       THEN Delete(id)
       ELSE /\ cancelingTimers_' = IF callingExpiredTimers_
                                   THEN cancelingTimers_ \cup {id}
                                   ELSE cancelingTimers_
            /\ UNCHANGED <<timers_, activeTimers_, heap>>
    /\ cancelled' = RecordCancel(id)
    /\ UNCHANGED fdVars

\* new Timer(cb, when, interval)
NewTimer(a, when, interval) ==
    [heap EXCEPT ![a] = [expiration |-> when, interval |-> interval,
                         sequence |-> created + 1]]

\* addTimer in the loop thread: runInLoop calls addTimerInLoop.
addTimer(a, when, interval) ==
    /\ InLoopThread /\ heap[a] = Free /\ created < MaxTimers
    /\ created' = created + 1
    /\ addTimerInLoop(NewTimer(a, when, interval), a)
    /\ ids' = ids \cup {<<a, created + 1>>}
    /\ UNCHANGED <<now, tasks, adding>> /\ UNCHANGED loopVars

\* addTimer in another thread: the timer is created and its insertion queued,
addTimer_queue(t, a, when, interval) ==
    /\ adding[t] = Nobody /\ Len(tasks) < MaxQueue
    /\ heap[a] = Free /\ created < MaxTimers
    /\ created' = created + 1
    /\ heap' = NewTimer(a, when, interval)
    /\ tasks' = Append(tasks, [op |-> "add", id |-> <<a, created + 1>>])
    /\ adding' = [adding EXCEPT ![t] = <<a, created + 1>>]
    /\ UNCHANGED <<now, timers_, activeTimers_, cancelingTimers_, ids, cancelled>>
    /\ UNCHANGED loopVars /\ UNCHANGED fdVars

\* then timer->sequence() is read for the TimerId.  The loop may have run and
\* deleted the timer: the read finds what is left of it, or its successor.
addTimer_return(t) ==
    /\ adding[t] # Nobody
    /\ LET a == adding[t][1]
       IN  \E seq \in {adding[t][2]} \cup (IF heap[a] = Free THEN {} ELSE {heap[a].sequence}) :
             ids' = ids \cup {<<a, seq>>}
    /\ adding' = [adding EXCEPT ![t] = Nobody]
    /\ UNCHANGED <<now, created, tasks, cancelled>>
    /\ UNCHANGED queueVars /\ UNCHANGED loopVars /\ UNCHANGED fdVars

\* cancel, in the loop thread and in another one.
cancel(id) ==
    /\ InLoopThread /\ id \in ids
    /\ cancelInLoop(id)
    /\ UNCHANGED <<now, created, tasks, adding, ids>> /\ UNCHANGED loopVars

cancel_queue(id) ==
    /\ Threads # {} /\ id \in ids /\ Len(tasks) < MaxQueue
    /\ tasks' = Append(tasks, [op |-> "cancel", id |-> id])
    /\ UNCHANGED <<now, created, adding, ids, cancelled>>
    /\ UNCHANGED queueVars /\ UNCHANGED loopVars /\ UNCHANGED fdVars

\* doPendingFunctors runs the oldest task, after the handlers.
runTask ==
    /\ tasks # <<>> /\ ~active /\ ~callingExpiredTimers_
    /\ LET task == Head(tasks)
       IN  IF task.op = "add" THEN addTimerInLoop(heap, task.id[1])
                              ELSE cancelInLoop(task.id)
    /\ tasks' = Tail(tasks)
    /\ UNCHANGED <<now, created, adding, ids>> /\ UNCHANGED loopVars
-----------------------------------------------------------------------------
\* The clock advances; the timerfd fires; poll() returns its channel.
tick ==
    /\ now < MaxTime
    /\ now' = now + 1
    /\ UNCHANGED <<created, tasks, adding, ids, cancelled>>
    /\ UNCHANGED queueVars /\ UNCHANGED loopVars /\ UNCHANGED fdVars

fire ==
    /\ armed # 0 /\ armed <= now + EarlyBy
    /\ armed' = 0 /\ readable' = TRUE
    /\ UNCHANGED <<now, created, tasks, adding, ids, cancelled>>
    /\ UNCHANGED queueVars /\ UNCHANGED loopVars

poll ==
    /\ readable /\ ~active /\ ~callingExpiredTimers_
    /\ active' = TRUE
    /\ UNCHANGED <<now, created, tasks, adding, ids, cancelled,
                   expired, toRun, readTime, callingExpiredTimers_>>
    /\ UNCHANGED queueVars /\ UNCHANGED fdVars

\* The due timers alone leave timers_ and not activeTimers_.
Actives_Forgotten(entries) == {}

\* The ActiveTimers of entries.
Actives(entries) == {<<e[2], heap[e[2]].sequence>> : e \in entries}

getExpired == {e \in timers_ : e[1] <= now}

\* handleRead: read the timerfd and move the expired timers out of both sets.
handleRead ==
    /\ active
    /\ active' = FALSE /\ readable' = FALSE
    /\ readTime' = now
    /\ expired' = getExpired /\ toRun' = getExpired
    /\ timers_' = timers_ \ getExpired
    /\ activeTimers_' = activeTimers_ \ Actives(getExpired)
    /\ callingExpiredTimers_' = TRUE /\ cancelingTimers_' = {}
    /\ UNCHANGED <<now, created, tasks, adding, ids, cancelled, heap, armed>>

\* it.second->run()
run(e) ==
    /\ callingExpiredTimers_ /\ e \in toRun /\ Earliest(toRun, e)
    /\ toRun' = toRun \ {e}
    /\ UNCHANGED <<now, created, tasks, adding, ids, cancelled,
                   expired, readTime, callingExpiredTimers_, active>>
    /\ UNCHANGED queueVars /\ UNCHANGED fdVars

\* The repeating timers that no callback cancelled.
Restarted == {e \in expired : /\ repeat(e[2])
                              /\ <<e[2], heap[e[2]].sequence>> \notin cancelingTimers_}

\* The timerfd is set to the earliest of the entries if its time is valid.
Rearm(entries) ==
    \/ \E e \in entries : Earliest(entries, e) /\ e[1] > 0 /\ resetTimerfd(e[1])
    \/ (entries = {} \/ \E e \in entries : e[1] = 0) /\ UNCHANGED fdVars

\* reset(): restart the repeating timers that were not cancelled, delete the
\* others, and arm the timerfd for the earliest timer if its time is valid.
reset ==
    /\ callingExpiredTimers_ /\ toRun = {}
    /\ callingExpiredTimers_' = FALSE
    /\ expired' = {} /\ readTime' = 0
    /\ heap' = [a \in Addrs |->
                  CASE \E e \in Restarted : e[2] = a ->
                         [heap[a] EXCEPT !.expiration = readTime + heap[a].interval]
                    [] \E e \in expired \ Restarted : e[2] = a -> Free
                    [] OTHER -> heap[a]]
    /\ timers_' = timers_ \cup {<<readTime + heap[e[2]].interval, e[2]>> : e \in Restarted}
    /\ activeTimers_' = activeTimers_ \cup Actives(Restarted)
    /\ Rearm(timers_')
    /\ UNCHANGED <<now, created, tasks, adding, ids, cancelled,
                   cancelingTimers_, toRun, active>>
-----------------------------------------------------------------------------
HandleReadStep == handleRead \/ (\E e \in toRun : run(e)) \/ reset

UserStep ==
    \/ \E a \in Addrs, when \in Times, i \in Intervals :
          \/ addTimer(a, when, i)
          \/ \E t \in Threads : addTimer_queue(t, a, when, i)
    \/ \E t \in Threads : addTimer_return(t)
    \/ \E id \in ids : cancel(id) \/ cancel_queue(id)

Next == HandleReadStep \/ runTask \/ poll \/ fire \/ tick \/ UserStep

Spec == Init /\ [][Next]_vars

\* Time passes, the kernel fires the timerfd, and an iteration of the loop
\* polls, calls every active channel and runs the pending functors.
FairSpec == /\ Spec
            /\ WF_vars(tick) /\ WF_vars(fire) /\ WF_vars(poll)
            /\ WF_vars(HandleReadStep) /\ WF_vars(runTask)
-----------------------------------------------------------------------------
\* Types of the variables.
TypeOK ==
    /\ now \in Nat /\ created \in Nat /\ readTime \in Nat /\ armed \in Nat
    /\ heap \in [Addrs -> Timer]
    /\ timers_ \subseteq Nat \X Addrs
    /\ expired \subseteq Nat \X Addrs /\ toRun \subseteq expired
    /\ activeTimers_ \subseteq TimerId /\ cancelingTimers_ \subseteq TimerId
    /\ ids \subseteq TimerId /\ cancelled \subseteq TimerId \X BOOLEAN
    /\ callingExpiredTimers_ \in BOOLEAN /\ readable \in BOOLEAN /\ active \in BOOLEAN
    /\ tasks \in Seq([op : {"add", "cancel"}, id : TimerId])
    /\ adding \in [Threads -> TimerId \cup {Nobody}]

(***************************************************************************)
(* timers_ and activeTimers_ hold the same timers, under the expiration    *)
(* and the sequence number the Timer object has: the asserts of insert,    *)
(* cancelInLoop and getExpired (sizes, n == 1, result.second) hold.        *)
(***************************************************************************)
SetsAgree ==
    /\ \A p \in activeTimers_ : heap[p[1]] # Free /\ heap[p[1]].sequence = p[2]
    /\ timers_ = {<<heap[p[1]].expiration, p[1]>> : p \in activeTimers_}

(***************************************************************************)
(* No Timer is deleted while handleRead still has to run or reset it, or   *)
(* while its insertion is queued; no expired Timer is also in the queue.   *)
(***************************************************************************)
NoDanglingTimer ==
    /\ \A e \in expired : heap[e[2]] # Free /\ \A p \in activeTimers_ : p[1] # e[2]
    /\ \A i \in DOMAIN tasks : tasks[i].op = "add" =>
          heap[tasks[i].id[1]] # Free /\ tasks[i].id \notin activeTimers_

(***************************************************************************)
(* A timer cancelled while it was in the queue or being called is not in   *)
(* the queue afterwards: it does not run in a later handleRead.            *)
(***************************************************************************)
CancelledIsGone ==
    ~callingExpiredTimers_ => \A p \in activeTimers_ : <<p, TRUE>> \notin cancelled

\* A timer that is due within the bound leaves the queue: it runs or is cancelled.
TimerLeaves ==
    \A a \in Addrs, n \in 1 .. MaxTimers :
        (<<a, n>> \in activeTimers_ /\ heap[a].expiration <= MaxTime)
            ~> <<a, n>> \notin activeTimers_

(***************************************************************************)
(* "Cancels the timer.  Safe to call from other threads." (EventLoop.h:96) *)
(* A timer that cancel() was called for is not in the queue afterwards,    *)
(* whichever threads created and cancelled it.                             *)
(***************************************************************************)
CancelIsFinal ==
    ~callingExpiredTimers_ =>
        \A p \in activeTimers_, known \in BOOLEAN : <<p, known>> \notin cancelled

(***************************************************************************)
(* addTimer() "must be thread safe" (TimerQueue.h:45): when the calling    *)
(* thread reads timer->sequence() after queueing the timer, the Timer it   *)
(* allocated still exists.                                                 *)
(***************************************************************************)
AddTimerReadsItsTimer ==
    \A t \in Threads : adding[t] # Nobody =>
        LET a == adding[t][1] IN heap[a] # Free /\ heap[a].sequence = adding[t][2]
=============================================================================
