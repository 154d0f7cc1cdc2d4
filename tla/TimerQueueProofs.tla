-------------------------- MODULE TimerQueueProofs --------------------------
(***************************************************************************)
(* Proofs about TimerQueue, and about ZlibStream.  For any threads, timers *)
(* and sizes.                                                              *)
(***************************************************************************)
EXTENDS TimerQueue, ZlibStream, TLAPS

(***************************************************************************)
(* The sets of a TimerQueue, the Timer objects and the cancelled timers,   *)
(* proved for any number of addresses, threads, timers and tasks.          *)
(***************************************************************************)
Task == [op : {"add", "cancel"}, id : TimerId]

\* The elements of tasks.
LEMMA TasksTyped ==
    ASSUME tasks \in Seq(Task)
    PROVE  \A i \in DOMAIN tasks : tasks[i] \in Task /\ tasks[i].id \in TimerId
<1>1. \A i \in DOMAIN tasks : tasks[i] \in Task
    OBVIOUS
<1>2. \A x \in Task : x.id \in TimerId
    BY Zenon DEF Task
<1> QED
    BY <1>1, <1>2, Zenon

\* Sequence numbers are given out once; only Free has 0.
Seqs == \A a \in Addrs : /\ heap[a].sequence <= created
                         /\ heap[a] # Free => heap[a].sequence > 0

Stages == /\ expired # {} => callingExpiredTimers_
          /\ active => ~callingExpiredTimers_

InCall == \A e \in expired : heap[e[2]] # Free /\ \A p \in activeTimers_ : p[1] # e[2]

\* The insertion of the timer is queued: it exists and is nowhere else.
Waiting(id) ==
    /\ heap[id[1]] # Free /\ heap[id[1]].sequence = id[2] /\ id \notin activeTimers_
    /\ \A e \in expired : e[2] # id[1]

AddTasks == \A i \in DOMAIN tasks : tasks[i].op = "add" => Waiting(tasks[i].id)

NoTwice == \A i, j \in DOMAIN tasks :
    tasks[i].op = "add" /\ tasks[j].op = "add" /\ tasks[i].id = tasks[j].id => i = j

\* A timer cancelled in time is deleted, or will be by reset().
Gone == \A p \in TimerId : <<p, TRUE>> \in cancelled =>
    /\ p[2] <= created
    /\ heap[p[1]] # Free /\ heap[p[1]].sequence = p[2] =>
          p \in cancelingTimers_ /\ \E e \in expired : e[2] = p[1]

IInv == TypeOK /\ Seqs /\ Stages /\ SetsAgree /\ InCall /\ AddTasks /\ NoTwice /\ Gone
-----------------------------------------------------------------------------
\* Nothing exists at first.
LEMMA InitIInv == Init => IInv
<1> SUFFICES ASSUME Init PROVE IInv
    BY Zenon
<1>1. TypeOK
    <2>1. Free \in Timer
        BY Zenon DEF Free, Timer
    <2>2. tasks \in Seq([op : {"add", "cancel"}, id : TimerId])
        BY DEF Init
    <2> QED
        BY <2>1, <2>2, Zenon DEF Init, TypeOK
<1>2. Seqs /\ Stages /\ SetsAgree /\ InCall /\ AddTasks /\ NoTwice /\ Gone
    BY DEF Init, Seqs, Stages, SetsAgree, InCall, AddTasks, NoTwice, Gone, Free
<1> QED
    BY <1>1, <1>2, Zenon DEF IInv

\* A queue of tasks that stays, loses its head or gets a new last task.
LEMMA SameTasks ==
    ASSUME TypeOK, AddTasks, NoTwice, UNCHANGED tasks,
           \A id \in TimerId : Waiting(id) => Waiting(id)'
    PROVE  AddTasks' /\ NoTwice'
<1>1. \A i \in DOMAIN tasks : tasks[i].id \in TimerId
    BY TasksTyped, Zenon DEF TypeOK, Task
<1>2. NoTwice'
    BY Zenon DEF NoTwice
<1>3. AddTasks'
    BY <1>1, Zenon DEF AddTasks, Waiting
<1> QED
    BY <1>2, <1>3, Zenon

LEMMA TailTasks ==
    ASSUME TypeOK, AddTasks, NoTwice, tasks # <<>>, tasks' = Tail(tasks),
           \A id \in TimerId :
              Waiting(id) /\ ~(Head(tasks).op = "add" /\ id = Head(tasks).id) => Waiting(id)'
    PROVE  AddTasks' /\ NoTwice'
<1>1. tasks \in Seq(Task)
    BY Zenon DEF TypeOK, Task
<1>2. /\ \A i \in DOMAIN tasks : tasks[i].id \in TimerId
      /\ 1 \in DOMAIN tasks /\ Head(tasks) = tasks[1]
    BY <1>1, TasksTyped
<1>3. \A i \in DOMAIN tasks' : i + 1 \in DOMAIN tasks /\ i + 1 # 1 /\ tasks'[i] = tasks[i + 1]
    BY <1>1
<1>4. DOMAIN tasks' \subseteq Nat
    BY <1>1
<1>5. NoTwice'
    BY <1>3, <1>4 DEF NoTwice
<1>6. AddTasks'
    BY <1>2, <1>3 DEF AddTasks, NoTwice, Waiting
<1> QED
    BY <1>5, <1>6, Zenon

LEMMA AppendTasks ==
    ASSUME TypeOK, AddTasks, NoTwice, NEW x \in Task, tasks' = Append(tasks, x),
           \A id \in TimerId : Waiting(id) => Waiting(id)',
           x.op = "add" => Waiting(x.id)' /\ ~Waiting(x.id)
    PROVE  AddTasks' /\ NoTwice'
<1>1. tasks \in Seq(Task)
    BY Zenon DEF TypeOK, Task
<1>2. \A i \in DOMAIN tasks : tasks[i].id \in TimerId
    BY <1>1, TasksTyped, Zenon
<1>3. \A i \in DOMAIN tasks' : \/ i \in DOMAIN tasks /\ tasks'[i] = tasks[i]
                               \/ i = Len(tasks) + 1 /\ tasks'[i] = x
    BY <1>1
<1>4. NoTwice'
    BY <1>3 DEF AddTasks, NoTwice
<1>5. AddTasks'
    BY <1>2, <1>3 DEF AddTasks, Waiting
<1> QED
    BY <1>4, <1>5, Zenon
-----------------------------------------------------------------------------
\* Steps that leave the timers, the tasks and the expired timers alone.
LEMMA StableIInv ==
    ASSUME IInv, TypeOK', active' => ~callingExpiredTimers_,
           UNCHANGED <<heap, created, timers_, activeTimers_, cancelingTimers_,
                       callingExpiredTimers_, expired, tasks, cancelled>>
    PROVE  IInv'
<1>1. Seqs' /\ Stages' /\ SetsAgree' /\ InCall'
    BY Zenon DEF IInv, Seqs, Stages, SetsAgree, InCall
<1>2. AddTasks' /\ NoTwice'
    BY SameTasks, Zenon DEF IInv, Waiting
<1>3. Gone'
    BY Zenon DEF IInv, Gone
<1> QED
    BY <1>1, <1>2, <1>3, Zenon DEF IInv

\* What inserting the timer at a does, when it is in neither set and not
\* being called.
LEMMA InsertSets ==
    ASSUME IInv, NEW a \in Addrs, NEW h \in [Addrs -> Timer],
           h[a] # Free, \A b \in Addrs \ {a} : h[b] = heap[b],
           \A p \in activeTimers_ : p[1] # a, \A e \in expired : e[2] # a,
           addTimerInLoop(h, a), UNCHANGED expired
    PROVE  SetsAgree' /\ InCall'
<1> DEFINE n == <<a, h[a].sequence>>
<1>1. /\ activeTimers_' = activeTimers_ \cup {n} /\ heap' = h
      /\ timers_' = timers_ \cup {<<h[a].expiration, a>>}
    BY Zenon DEF addTimerInLoop
<1>2. \A p \in activeTimers_ : p[1] \in Addrs /\ heap'[p[1]] = heap[p[1]]
    BY <1>1, Zenon DEF IInv, TypeOK, TimerId
<1>3. \A e \in expired : e[2] \in Addrs /\ heap'[e[2]] = heap[e[2]]
    BY <1>1, Zenon DEF IInv, TypeOK
<1>4. SetsAgree'
    <2>1. \A p \in activeTimers_' : heap'[p[1]] # Free /\ heap'[p[1]].sequence = p[2]
        BY <1>1, <1>2 DEF IInv, SetsAgree
    <2>2. timers_ = {<<heap[p[1]].expiration, p[1]>> : p \in activeTimers_}
        BY Zenon DEF IInv, SetsAgree
    <2>3. timers_ = {<<h[p[1]].expiration, p[1]>> : p \in activeTimers_}
        <3>1. \A p \in activeTimers_ : h[p[1]] = heap[p[1]]
            BY <1>1, <1>2, Zenon
        <3> QED
            BY <2>2, <3>1, ZenonT(30)
    <2>4. timers_' = {<<h[p[1]].expiration, p[1]>> : p \in activeTimers_ \cup {n}}
        <3>1. n[1] = a
            BY Zenon
        <3> HIDE DEF n
        <3>2. {<<h[p[1]].expiration, p[1]>> : p \in activeTimers_ \cup {n}}
              = {<<h[p[1]].expiration, p[1]>> : p \in activeTimers_} \cup {<<h[n[1]].expiration, n[1]>>}
            BY Zenon
        <3> QED
            BY <1>1, <2>3, <3>1, <3>2, Zenon
    <2> QED
        BY <1>1, <2>1, <2>4 DEF SetsAgree
<1>5. InCall'
    BY <1>1, <1>3 DEF IInv, InCall
<1> QED
    BY <1>4, <1>5, Zenon

\* The fields of a Timer are natural numbers.
LEMMA TimerFields ==
    /\ \A x \in Timer : x.expiration \in Nat /\ x.interval \in Nat /\ x.sequence \in Nat
    /\ Free \in Timer /\ Free.sequence = 0
BY Zenon DEF Timer, Free

\* What the heap is after new Timer at a free address.
LEMMA NewTimerFacts ==
    ASSUME IInv, NEW a \in Addrs, heap[a] = Free, NEW when \in Times, NEW i \in Intervals
    PROVE  LET h == NewTimer(a, when, i)
           IN  /\ h \in [Addrs -> Timer] /\ h[a] # Free /\ h[a].sequence = created + 1
               /\ \A b \in Addrs \ {a} : h[b] = heap[b]
               /\ \A p \in activeTimers_ : p[1] # a
               /\ \A e \in expired : e[2] # a
<1> DEFINE t == [expiration |-> when, interval |-> i, sequence |-> created + 1]
           h == NewTimer(a, when, i)
<1>1. heap \in [Addrs -> Timer] /\ created \in Nat
    BY Zenon DEF IInv, TypeOK
<1>2. t \in Timer /\ t.sequence = created + 1 /\ t # Free
    BY <1>1, TimerConstants DEF Timer, Free, Times
<1>3. h = [heap EXCEPT ![a] = t]
    BY Zenon DEF NewTimer
<1> HIDE DEF t, h
<1>4. h \in [Addrs -> Timer] /\ h[a] = t /\ \A b \in Addrs \ {a} : h[b] = heap[b]
    BY <1>1, <1>2, <1>3, Zenon
<1>5. (\A p \in activeTimers_ : p[1] # a) /\ (\A e \in expired : e[2] # a)
    BY Zenon DEF IInv, SetsAgree, InCall
<1> QED
    BY <1>2, <1>4, <1>5, Zenon DEF h

\* addTimer in the loop thread.
LEMMA AddTimerIInv ==
    ASSUME IInv, NEW a \in Addrs, NEW when \in Times, NEW i \in Intervals, addTimer(a, when, i)
    PROVE  IInv'
<1> DEFINE h == NewTimer(a, when, i)
<1>1. /\ heap[a] = Free /\ created' = created + 1 /\ ids' = ids \cup {<<a, created + 1>>}
      /\ addTimerInLoop(h, a) /\ heap' = h
      /\ activeTimers_' = activeTimers_ \cup {<<a, h[a].sequence>>}
      /\ timers_' = timers_ \cup {<<h[a].expiration, a>>}
      /\ UNCHANGED <<now, tasks, adding, expired, toRun, readTime, callingExpiredTimers_, active,
                     cancelingTimers_, cancelled>>
    BY Zenon DEF addTimer, addTimerInLoop, loopVars
<1>2. /\ h \in [Addrs -> Timer] /\ h[a] # Free /\ h[a].sequence = created + 1
      /\ \A b \in Addrs \ {a} : h[b] = heap[b]
      /\ \A p \in activeTimers_ : p[1] # a
      /\ \A e \in expired : e[2] # a
    BY <1>1, NewTimerFacts, Zenon
<1>3. armed' \in Nat /\ readable' \in BOOLEAN
    <2>1. h[a].expiration \in Nat /\ now \in Nat /\ armed \in Nat /\ readable \in BOOLEAN
        BY <1>2, TimerFields, ZenonT(30) DEF IInv, TypeOK
    <2> HIDE DEF h
    <2> QED
        BY <1>1, <2>1, Zenon DEF addTimerInLoop, resetTimerfd, fdVars
<1> HIDE DEF h
<1>4. SetsAgree' /\ InCall'
    BY <1>1, <1>2, InsertSets, Zenon
<1>5. TypeOK'
    <2>1. h[a].expiration \in Nat /\ h[a].sequence \in Nat /\ created \in Nat
        BY <1>2, TimerFields, Zenon DEF IInv, TypeOK
    <2>2. timers_' \subseteq Nat \X Addrs /\ activeTimers_' \subseteq TimerId /\ ids' \subseteq TimerId
        BY <1>1, <2>1, SMTT(30) DEF IInv, TypeOK, TimerId
    <2> QED
        BY <1>1, <1>2, <1>3, <2>1, <2>2, Zenon DEF IInv, TypeOK
<1>6. Seqs' /\ Stages'
    <2>1. created \in Nat /\ \A b \in Addrs : heap[b].sequence \in Nat
        BY TimerFields, Zenon DEF IInv, TypeOK
    <2> QED
        BY <1>1, <1>2, <2>1 DEF IInv, Seqs, Stages
<1>7. \A id \in TimerId : Waiting(id) => Waiting(id)'
    <2>1. \A id \in TimerId : id[1] \in Addrs
        BY Zenon DEF TimerId
    <2>2. \A id \in TimerId : Waiting(id) => id[1] # a
        BY <1>1, Zenon DEF Waiting
    <2>3. \A id \in TimerId : id[1] # a => heap'[id[1]] = heap[id[1]] /\ (id \in activeTimers_' => id \in activeTimers_)
        BY <1>1, <1>2, <2>1
    <2> QED
        BY <1>1, <2>2, <2>3, Zenon DEF Waiting
<1>8. AddTasks' /\ NoTwice'
    BY <1>1, <1>7, SameTasks, Zenon DEF IInv
<1>9. Gone'
    <2> SUFFICES ASSUME NEW p \in TimerId, <<p, TRUE>> \in cancelled
                 PROVE  /\ p[2] <= created'
                        /\ heap'[p[1]] # Free /\ heap'[p[1]].sequence = p[2] =>
                              p \in cancelingTimers_ /\ \E e \in expired : e[2] = p[1]
        BY <1>1, Zenon DEF Gone
    <2>1. p[1] \in Addrs /\ p[2] \in Nat /\ created \in Nat /\ p[2] <= created
        BY Zenon DEF IInv, TypeOK, TimerId, Gone
    <2>2. CASE p[1] = a
        <3>0. heap' = h /\ created' = created + 1 /\ h[a].sequence = created + 1
            BY <1>1, <1>2, Zenon
        <3>1. heap'[p[1]].sequence = created + 1 /\ created' = created + 1
            BY <2>2, <3>0, Zenon
        <3>2. p[2] <= created' /\ heap'[p[1]].sequence # p[2]
            BY <2>1, <3>1
        <3> QED
            BY <3>2, Zenon
    <2>3. CASE p[1] # a
        <3>0. heap' = h /\ created' = created + 1
            BY <1>1, Zenon
        <3>1. heap'[p[1]] = heap[p[1]] /\ created' = created + 1
            BY <1>2, <2>1, <2>3, <3>0, Zenon
        <3>2. heap[p[1]] # Free /\ heap[p[1]].sequence = p[2] =>
                  p \in cancelingTimers_ /\ \E e \in expired : e[2] = p[1]
            BY Zenon DEF IInv, Gone
        <3>3. p[2] <= created'
            BY <2>1, <3>1
        <3> QED
            BY <3>1, <3>2, <3>3, Zenon
    <2> QED
        BY <2>2, <2>3, Zenon
<1> QED
    BY <1>4, <1>5, <1>6, <1>8, <1>9, Zenon DEF IInv

\* addTimer in another thread queues the insertion.
LEMMA AddQueueIInv ==
    ASSUME IInv, NEW t \in Threads, NEW a \in Addrs, NEW when \in Times, NEW i \in Intervals,
           addTimer_queue(t, a, when, i)
    PROVE  IInv'
<1>0. PICK n \in Nat : n = created
    BY Zenon DEF IInv, TypeOK
<1> DEFINE h == NewTimer(a, when, i)
           x == [op |-> "add", id |-> <<a, n + 1>>]
<1>1. /\ heap[a] = Free /\ created' = created + 1 /\ heap' = h
      /\ tasks' = Append(tasks, x) /\ adding' = [adding EXCEPT ![t] = <<a, n + 1>>]
      /\ UNCHANGED <<now, timers_, activeTimers_, cancelingTimers_, ids, cancelled, expired, toRun,
                     readTime, callingExpiredTimers_, active, armed, readable>>
    BY <1>0, Zenon DEF addTimer_queue, loopVars, fdVars
<1>2. /\ h \in [Addrs -> Timer] /\ h[a] # Free /\ h[a].sequence = created + 1
      /\ \A b \in Addrs \ {a} : h[b] = heap[b]
      /\ \A p \in activeTimers_ : p[1] # a
      /\ \A e \in expired : e[2] # a
    BY <1>1, NewTimerFacts, Zenon
<1>3. <<a, n + 1>> \in TimerId
    BY DEF TimerId
<1>4. x \in Task /\ x.op = "add" /\ x.id = <<a, n + 1>>
    BY <1>3, ZenonT(30) DEF Task
<1> HIDE DEF h, x
<1>5. TypeOK'
    <2>1. tasks' \in Seq(Task)
        <3>1. tasks \in Seq(Task)
            BY Zenon DEF IInv, TypeOK, Task
        <3> QED
            BY <1>1, <1>4, <3>1
    <2>2. adding' \in [Threads -> TimerId \cup {Nobody}]
        BY <1>1, <1>3, Zenon DEF IInv, TypeOK
    <2>3. heap' \in [Addrs -> Timer]
        BY <1>1, <1>2, Zenon
    <2>4. created' \in Nat
        <3>1. created \in Nat
            BY Zenon DEF IInv, TypeOK
        <3> QED
            BY ONLY <1>1, <3>1
    <2> QED
        BY <1>1, <2>1, <2>2, <2>3, <2>4, ZenonT(30) DEF IInv, TypeOK, Task
<1>6. \A p \in activeTimers_ : p[1] \in Addrs /\ heap'[p[1]] = heap[p[1]]
    BY <1>1, <1>2, ZenonT(30) DEF IInv, TypeOK, TimerId
<1>7. SetsAgree'
    <2>1. timers_ = {<<heap[p[1]].expiration, p[1]>> : p \in activeTimers_}
        BY Zenon DEF IInv, SetsAgree
    <2>2. timers_ = {<<heap'[p[1]].expiration, p[1]>> : p \in activeTimers_}
        BY <1>6, <2>1, Zenon
    <2> QED
        BY <1>1, <1>6, <2>2, Zenon DEF IInv, SetsAgree
<1>8. InCall'
    BY <1>1, <1>2, Zenon DEF IInv, TypeOK, InCall
<1>9. Seqs' /\ Stages'
    <2>1. created \in Nat /\ \A b \in Addrs : heap[b].sequence \in Nat
        BY TimerFields, Zenon DEF IInv, TypeOK
    <2> QED
        BY <1>1, <1>2, <2>1 DEF IInv, Seqs, Stages
<1>10. \A id \in TimerId : Waiting(id) => Waiting(id)'
    BY <1>1, <1>2, Zenon DEF TimerId, Waiting
<1>11. Waiting(x.id)' /\ ~Waiting(x.id)
    <2>1. x.id[1] = a /\ x.id[2] = n + 1 /\ heap'[a].sequence = n + 1 /\ heap'[a] # Free
        BY <1>0, <1>1, <1>2, <1>4
    <2>2. x.id \notin activeTimers_' /\ \A e \in expired' : e[2] # a
        BY <1>1, <1>2, <2>1, Zenon
    <2> QED
        BY <1>1, <2>1, <2>2, ZenonT(30) DEF Waiting
<1>12. AddTasks' /\ NoTwice'
    BY <1>1, <1>4, <1>10, <1>11, AppendTasks, Zenon DEF IInv
<1>13. Gone'
    <2> SUFFICES ASSUME NEW p \in TimerId, <<p, TRUE>> \in cancelled
                 PROVE  /\ p[2] <= created'
                        /\ heap'[p[1]] # Free /\ heap'[p[1]].sequence = p[2] =>
                              p \in cancelingTimers_ /\ \E e \in expired : e[2] = p[1]
        BY <1>1, Zenon DEF Gone
    <2>1. p[1] \in Addrs /\ p[2] \in Nat /\ created \in Nat /\ p[2] <= created
        BY Zenon DEF IInv, TypeOK, TimerId, Gone
    <2>2. CASE p[1] = a
        <3>0. heap' = h /\ created' = created + 1 /\ h[a].sequence = created + 1
            BY <1>1, <1>2, Zenon
        <3>1. heap'[p[1]].sequence = created + 1 /\ created' = created + 1
            BY <2>2, <3>0, Zenon
        <3>2. p[2] <= created' /\ heap'[p[1]].sequence # p[2]
            BY <2>1, <3>1
        <3> QED
            BY <3>2, Zenon
    <2>3. CASE p[1] # a
        <3>0. heap' = h /\ created' = created + 1
            BY <1>1, ZenonT(30)
        <3>1. heap'[p[1]] = heap[p[1]] /\ created' = created + 1
            BY <1>2, <2>1, <2>3, <3>0, Zenon
        <3>2. heap[p[1]] # Free /\ heap[p[1]].sequence = p[2] =>
                  p \in cancelingTimers_ /\ \E e \in expired : e[2] = p[1]
            BY Zenon DEF IInv, Gone
        <3>3. p[2] <= created'
            BY <2>1, <3>1
        <3> QED
            BY <3>1, <3>2, <3>3, Zenon
    <2> QED
        BY <2>2, <2>3, Zenon
<1> QED
    BY <1>5, <1>7, <1>8, <1>9, <1>12, <1>13, Zenon DEF IInv

\* What cancelInLoop does: the timer is deleted if it is in the queue, and
\* remembered if it is being called.
LEMMA CancelFacts ==
    ASSUME IInv, NEW id \in TimerId, cancelInLoop(id),
           UNCHANGED <<created, expired, callingExpiredTimers_>>
    PROVE  /\ heap' \in [Addrs -> Timer] /\ timers_' \subseteq timers_
           /\ activeTimers_' \subseteq activeTimers_ /\ cancelingTimers_' \subseteq TimerId
           /\ cancelled' \subseteq TimerId \X BOOLEAN /\ UNCHANGED fdVars
           /\ Seqs' /\ SetsAgree' /\ InCall' /\ Gone'
           /\ \A w \in TimerId : Waiting(w) => Waiting(w)'
<1> DEFINE known == id \in activeTimers_ \cup Called
<1>1. /\ id[1] \in Addrs /\ id[2] \in Nat /\ id = <<id[1], id[2]>> /\ created \in Nat
      /\ heap \in [Addrs -> Timer] /\ activeTimers_ \subseteq TimerId
      /\ cancelingTimers_ \subseteq TimerId /\ UNCHANGED fdVars
    BY DEF IInv, TypeOK, TimerId, cancelInLoop
<1>2. known \in BOOLEAN
    OBVIOUS
<1>3. \/ cancelled' = cancelled
      \/ heap[id[1]].sequence = id[2] /\ cancelled' = cancelled \cup {<<id, known>>}
    BY Zenon DEF cancelInLoop, RecordCancel
<1>4. known => id \in activeTimers_ \/ \E e \in expired : e[2] = id[1]
    BY <1>1 DEF Called
<1> HIDE DEF known
<1>5. cancelled' \subseteq TimerId \X BOOLEAN
    BY <1>2, <1>3 DEF IInv, TypeOK
<1>6. ASSUME NEW p \in TimerId, <<p, TRUE>> \in cancelled', <<p, TRUE>> \notin cancelled
      PROVE  p = id /\ known /\ heap[id[1]].sequence = id[2]
    <2>1. heap[id[1]].sequence = id[2] /\ <<p, TRUE>> = <<id, known>>
        BY <1>3, <1>6, Zenon
    <2>2. p = id /\ known = TRUE
        BY <2>1, Zenon
    <2> QED
        BY <2>1, <2>2, Zenon
<1>7. \A p \in activeTimers_ : /\ p[1] \in Addrs /\ p = <<p[1], p[2]>>
                               /\ heap[p[1]] # Free /\ heap[p[1]].sequence = p[2]
    BY DEF IInv, TypeOK, TimerId, SetsAgree
<1>8. CASE id \in activeTimers_
    <2>1. /\ timers_' = timers_ \ {<<heap[id[1]].expiration, id[1]>>}
          /\ activeTimers_' = activeTimers_ \ {id} /\ UNCHANGED cancelingTimers_
          /\ heap' = [heap EXCEPT ![id[1]] = Free]
        BY <1>8, Zenon DEF cancelInLoop, Delete
    <2>2. heap' \in [Addrs -> Timer] /\ heap'[id[1]] = Free /\ \A b \in Addrs \ {id[1]} : heap'[b] = heap[b]
        BY <1>1, <2>1, TimerFields, Zenon
    <2>3. \A p \in activeTimers_' : p \in activeTimers_ /\ p[1] # id[1] /\ heap'[p[1]] = heap[p[1]]
        BY <1>1, <1>7, <1>8, <2>1, <2>2
    <2>4. Seqs'
        BY <1>1, <2>2, TimerFields DEF IInv, Seqs
    <2>5. SetsAgree'
        <3>1. timers_ = {<<heap[p[1]].expiration, p[1]>> : p \in activeTimers_}
            BY Zenon DEF IInv, SetsAgree
        <3>2. timers_' = {<<heap[p[1]].expiration, p[1]>> : p \in activeTimers_'}
            BY <2>1, <2>3, <3>1
        <3>3. timers_' = {<<heap'[p[1]].expiration, p[1]>> : p \in activeTimers_'}
            BY <2>3, <3>2, Zenon
        <3> QED
            BY <1>7, <2>3, <3>3, Zenon DEF SetsAgree
    <2>6. InCall'
        BY <1>8, <2>1, <2>2, Zenon DEF IInv, TypeOK, InCall
    <2>7. ASSUME NEW p \in TimerId, <<p, TRUE>> \in cancelled'
          PROVE  /\ p[2] <= created
                 /\ heap'[p[1]] # Free /\ heap'[p[1]].sequence = p[2] =>
                       p \in cancelingTimers_ /\ \E e \in expired : e[2] = p[1]
        <3>1. p[1] \in Addrs
            BY Zenon DEF TimerId
        <3>2. CASE <<p, TRUE>> \in cancelled
            BY <2>2, <3>1, <3>2, Zenon DEF IInv, Gone
        <3>3. CASE p = id /\ heap[id[1]].sequence = id[2]
            BY <1>1, <2>2, <3>3, Zenon DEF IInv, Seqs
        <3> QED
            BY <1>6, <2>7, <3>2, <3>3, Zenon
    <2>8. Gone'
        BY <2>1, <2>7, Zenon DEF Gone
    <2>9. ASSUME NEW w \in TimerId, Waiting(w) PROVE Waiting(w)'
        <3>1. w[1] \in Addrs /\ w = <<w[1], w[2]>>
            BY DEF TimerId
        <3>2. w[1] # id[1]
            BY <1>1, <1>7, <1>8, <2>9, <3>1 DEF Waiting
        <3> QED
            BY <2>1, <2>2, <2>9, <3>1, <3>2, Zenon DEF Waiting
    <2> QED
        BY <1>1, <1>5, <2>1, <2>2, <2>4, <2>5, <2>6, <2>8, <2>9, Zenon
<1>9. CASE id \notin activeTimers_
    <2>1. /\ UNCHANGED <<timers_, activeTimers_, heap>>
          /\ cancelingTimers_' = IF callingExpiredTimers_ THEN cancelingTimers_ \cup {id}
                                                          ELSE cancelingTimers_
        BY <1>9, ZenonT(30) DEF cancelInLoop
    <2>2. Seqs' /\ SetsAgree' /\ InCall'
        BY <2>1, Zenon DEF IInv, Seqs, SetsAgree, InCall
    <2>3. ASSUME NEW p \in TimerId, <<p, TRUE>> \in cancelled'
          PROVE  /\ p[2] <= created
                 /\ heap[p[1]] # Free /\ heap[p[1]].sequence = p[2] =>
                       p \in cancelingTimers_' /\ \E e \in expired : e[2] = p[1]
        <3>1. CASE <<p, TRUE>> \in cancelled
            BY <2>1, <3>1, Zenon DEF IInv, Gone
        <3>2. CASE p = id /\ known /\ heap[id[1]].sequence = id[2]
            <4>1. \E e \in expired : e[2] = id[1]
                BY <1>4, <1>9, <3>2, Zenon
            <4>2. callingExpiredTimers_
                BY <4>1, Zenon DEF IInv, Stages
            <4> QED
                BY <1>1, <2>1, <3>2, <4>1, <4>2, Zenon DEF IInv, Seqs
        <3> QED
            BY <1>6, <2>3, <3>1, <3>2, Zenon
    <2>4. Gone'
        BY <2>1, <2>3, Zenon DEF Gone
    <2>5. \A w \in TimerId : Waiting(w) => Waiting(w)'
        BY <2>1, Zenon DEF Waiting
    <2> QED
        BY <1>1, <1>5, <2>1, <2>2, <2>4, <2>5, Zenon
<1> QED
    BY <1>8, <1>9, Zenon

\* cancel in the loop thread.
LEMMA CancelIInv ==
    ASSUME IInv, NEW id \in ids, cancel(id)
    PROVE  IInv'
<1>1. /\ cancelInLoop(id) /\ id \in TimerId
      /\ UNCHANGED <<now, created, tasks, adding, ids, expired, toRun, readTime,
                     callingExpiredTimers_, active>>
    BY Zenon DEF cancel, loopVars, IInv, TypeOK
<1>2. /\ heap' \in [Addrs -> Timer] /\ timers_' \subseteq timers_
      /\ activeTimers_' \subseteq activeTimers_ /\ cancelingTimers_' \subseteq TimerId
      /\ cancelled' \subseteq TimerId \X BOOLEAN /\ UNCHANGED fdVars
      /\ Seqs' /\ SetsAgree' /\ InCall' /\ Gone'
      /\ \A w \in TimerId : Waiting(w) => Waiting(w)'
    BY <1>1, CancelFacts, Zenon
<1>3. TypeOK'
    BY <1>1, <1>2, Zenon DEF IInv, TypeOK, fdVars
<1>4. AddTasks' /\ NoTwice'
    BY <1>1, <1>2, SameTasks, Zenon DEF IInv
<1>5. Stages'
    BY <1>1, Zenon DEF IInv, Stages
<1> QED
    BY <1>2, <1>3, <1>4, <1>5, Zenon DEF IInv

\* cancel in another thread queues a task.
LEMMA CancelQueueIInv ==
    ASSUME IInv, NEW id \in ids, cancel_queue(id)
    PROVE  IInv'
<1> DEFINE x == [op |-> "cancel", id |-> id]
<1>1. /\ tasks' = Append(tasks, x) /\ id \in TimerId
      /\ UNCHANGED <<now, created, adding, ids, cancelled, heap, timers_, activeTimers_,
                     cancelingTimers_, expired, toRun, readTime, callingExpiredTimers_, active,
                     armed, readable>>
    BY Zenon DEF cancel_queue, queueVars, loopVars, fdVars, IInv, TypeOK
<1>2. x \in Task /\ x.op # "add"
    BY <1>1, Zenon DEF Task
<1> HIDE DEF x
<1>3. TypeOK'
    <2>1. tasks' \in Seq(Task)
        BY <1>1, <1>2 DEF IInv, TypeOK, Task
    <2> QED
        BY <1>1, <2>1, Zenon DEF IInv, TypeOK, Task
<1>4. \A w \in TimerId : Waiting(w) => Waiting(w)'
    BY <1>1, Zenon DEF Waiting
<1>5. AddTasks' /\ NoTwice'
    BY <1>1, <1>2, <1>4, AppendTasks, Zenon DEF IInv
<1>6. Seqs' /\ Stages' /\ SetsAgree' /\ InCall' /\ Gone'
    BY <1>1, ZenonT(30) DEF IInv, Seqs, Stages, SetsAgree, InCall, Gone
<1> QED
    BY <1>3, <1>5, <1>6, Zenon DEF IInv

\* doPendingFunctors inserts or cancels.
LEMMA RunTaskIInv ==
    ASSUME IInv, runTask
    PROVE  IInv'
<1>1. /\ tasks # <<>> /\ tasks' = Tail(tasks) /\ tasks \in Seq(Task)
      /\ UNCHANGED <<now, created, adding, ids, expired, toRun, readTime,
                     callingExpiredTimers_, active>>
    BY ZenonT(30) DEF runTask, loopVars, IInv, TypeOK, Task
<1>2. /\ 1 \in DOMAIN tasks /\ Head(tasks) = tasks[1] /\ Head(tasks).id \in TimerId
      /\ tasks' \in Seq(Task)
    BY <1>1, TasksTyped
<1>3. PICK id \in TimerId : id = Head(tasks).id
    BY <1>2, Zenon
<1>4. /\ id[1] \in Addrs /\ id[2] \in Nat /\ id = <<id[1], id[2]>>
      /\ heap \in [Addrs -> Timer]
    BY DEF TimerId, IInv, TypeOK
<1>5. Stages'
    BY <1>1, Zenon DEF IInv, Stages
<1>6. CASE Head(tasks).op = "add"
    <2>1. addTimerInLoop(heap, id[1])
        BY <1>3, <1>6, Zenon DEF runTask
    <2>2. Waiting(id)
        BY <1>2, <1>3, <1>6, Zenon DEF IInv, AddTasks
    <2>3. heap[id[1]] # Free /\ heap[id[1]].sequence = id[2] /\ \A e \in expired : e[2] # id[1]
        BY <2>2, Zenon DEF Waiting
    <2>4. \A p \in activeTimers_ : p[1] # id[1]
        <3>1. \A p \in activeTimers_ : p = <<p[1], p[2]>> /\ heap[p[1]].sequence = p[2]
            BY DEF IInv, TypeOK, TimerId, SetsAgree
        <3> QED
            BY <1>4, <2>2, <2>3, <3>1, ZenonT(30) DEF Waiting
    <2>5. SetsAgree' /\ InCall'
        BY <1>1, <1>4, <2>1, <2>3, <2>4, InsertSets, Zenon
    <2>6. /\ activeTimers_' = activeTimers_ \cup {id} /\ heap' = heap
          /\ timers_' = timers_ \cup {<<heap[id[1]].expiration, id[1]>>}
          /\ UNCHANGED <<cancelingTimers_, cancelled>>
        BY <1>4, <2>1, <2>3, Zenon DEF addTimerInLoop
    <2>7. heap[id[1]].expiration \in Nat /\ now \in Nat /\ armed \in Nat /\ readable \in BOOLEAN
        BY <1>4, TimerFields, Zenon DEF IInv, TypeOK
    <2>8. armed' \in Nat /\ readable' \in BOOLEAN
        BY <2>1, <2>7, Zenon DEF addTimerInLoop, resetTimerfd, fdVars
    <2>9. TypeOK'
        <3>1. timers_' \subseteq Nat \X Addrs /\ activeTimers_' \subseteq TimerId
            BY <1>4, <2>6, <2>7 DEF IInv, TypeOK
        <3> QED
            BY <1>1, <1>2, <2>6, <2>8, <3>1, Zenon DEF IInv, TypeOK, Task
    <2>10. Seqs' /\ Gone'
        BY <1>1, <2>6, Zenon DEF IInv, Seqs, Gone
    <2>11. \A w \in TimerId : Waiting(w) /\ w # id => Waiting(w)'
        BY <1>1, <2>6, Zenon DEF Waiting
    <2>12. AddTasks' /\ NoTwice'
        BY <1>1, <1>3, <1>6, <2>11, TailTasks, Zenon DEF IInv
    <2> QED
        BY <1>5, <2>5, <2>9, <2>10, <2>12, Zenon DEF IInv
<1>7. CASE Head(tasks).op # "add"
    <2>1. cancelInLoop(id)
        BY <1>3, <1>7, Zenon DEF runTask
    <2>2. /\ heap' \in [Addrs -> Timer] /\ timers_' \subseteq timers_
          /\ activeTimers_' \subseteq activeTimers_ /\ cancelingTimers_' \subseteq TimerId
          /\ cancelled' \subseteq TimerId \X BOOLEAN /\ UNCHANGED fdVars
          /\ Seqs' /\ SetsAgree' /\ InCall' /\ Gone'
          /\ \A w \in TimerId : Waiting(w) => Waiting(w)'
        BY <1>1, <2>1, CancelFacts, ZenonT(30)
    <2>3. TypeOK'
        BY <1>1, <1>2, <2>2, Zenon DEF IInv, TypeOK, fdVars, Task
    <2>4. AddTasks' /\ NoTwice'
        BY <1>1, <2>2, TailTasks, Zenon DEF IInv
    <2> QED
        BY <1>5, <2>2, <2>3, <2>4, Zenon DEF IInv
<1> QED
    BY <1>6, <1>7, Zenon

\* handleRead moves the expired timers out of both sets.
LEMMA HandleReadIInv ==
    ASSUME IInv, handleRead
    PROVE  IInv'
<1> DEFINE E == getExpired
<1>1. /\ active /\ ~callingExpiredTimers_ /\ expired = {}
      /\ E \subseteq timers_ /\ expired' = E /\ toRun' = E /\ timers_' = timers_ \ E
      /\ activeTimers_' = activeTimers_ \ Actives(E)
      /\ active' = FALSE /\ readable' = FALSE /\ readTime' = now
      /\ callingExpiredTimers_' = TRUE /\ cancelingTimers_' = {}
      /\ UNCHANGED <<now, created, tasks, adding, ids, cancelled, heap, armed>>
    BY ZenonT(30) DEF handleRead, getExpired, IInv, Stages
<1> HIDE DEF E
<1>2. \A p \in activeTimers_ : /\ p[1] \in Addrs /\ p = <<p[1], p[2]>>
                               /\ heap[p[1]] # Free /\ heap[p[1]].sequence = p[2]
    BY DEF IInv, TypeOK, TimerId, SetsAgree
<1>3. \A e \in timers_ : \E p \in activeTimers_ : e = <<heap[p[1]].expiration, p[1]>>
    BY Zenon DEF IInv, SetsAgree
<1>4. \A p \in activeTimers_ : <<heap[p[1]].expiration, p[1]>> \in timers_
    BY ZenonT(30) DEF IInv, SetsAgree
<1>5. \A p \in activeTimers_ : p \in activeTimers_' <=> <<heap[p[1]].expiration, p[1]>> \notin E
    <2> TAKE p \in activeTimers_
    <2>1. \A e \in E : e[2] = p[1] => e = <<heap[p[1]].expiration, p[1]>>
        BY <1>1, <1>3
    <2>2. p \in Actives(E) <=> \E e \in E : e[2] = p[1]
        BY <1>2 DEF Actives
    <2>3. (\E e \in E : e[2] = p[1]) <=> <<heap[p[1]].expiration, p[1]>> \in E
        BY <2>1, Zenon
    <2> QED
        BY <1>1, <2>2, <2>3, Zenon
<1>6. TypeOK'
    BY <1>1, Zenon DEF IInv, TypeOK
<1>7. Seqs' /\ Stages' /\ Gone'
    BY <1>1, Zenon DEF IInv, Seqs, Stages, Gone
<1>8. SetsAgree'
    <2>1. timers_' = {<<heap[p[1]].expiration, p[1]>> : p \in activeTimers_'}
        <3>1. ASSUME NEW x \in timers_'
              PROVE  \E p \in activeTimers_' : x = <<heap[p[1]].expiration, p[1]>>
            BY <1>1, <1>3, <1>5, Zenon
        <3>2. ASSUME NEW p \in activeTimers_'
              PROVE  <<heap[p[1]].expiration, p[1]>> \in timers_'
            BY <1>1, <1>4, <1>5, Zenon
        <3> QED
            BY <3>1, <3>2, ZenonT(30)
    <2> QED
        BY <1>1, <1>2, <2>1, Zenon DEF SetsAgree
<1>9. InCall'
    <2>1. ASSUME NEW e \in E PROVE heap[e[2]] # Free /\ \A p \in activeTimers_' : p[1] # e[2]
        <3>1. PICK p \in activeTimers_ : e = <<heap[p[1]].expiration, p[1]>>
            BY <1>1, <1>3, Zenon
        <3>2. e[2] = p[1] /\ heap[p[1]] # Free /\ p \notin activeTimers_'
            BY <1>2, <1>5, <3>1, Zenon
        <3>3. \A q \in activeTimers_' : q[1] = p[1] => q = p
            BY <1>1, <1>2
        <3> QED
            BY <3>2, <3>3, Zenon
    <2> QED
        BY <1>1, <2>1, Zenon DEF InCall
<1>10. ASSUME NEW w \in TimerId, Waiting(w) PROVE Waiting(w)'
    <2>1. ASSUME NEW e \in E, e[2] = w[1] PROVE FALSE
        <3>1. PICK p \in activeTimers_ : e = <<heap[p[1]].expiration, p[1]>>
            BY <1>1, <1>3, Zenon
        <3>2. p = w
            BY <1>2, <1>10, <2>1, <3>1 DEF Waiting, TimerId
        <3> QED
            BY <1>10, <3>2, ZenonT(30) DEF Waiting
    <2> QED
        BY <1>1, <1>10, <2>1, Zenon DEF Waiting
<1>11. AddTasks' /\ NoTwice'
    BY <1>1, <1>10, SameTasks, Zenon DEF IInv
<1> QED
    BY <1>6, <1>7, <1>8, <1>9, <1>11, ZenonT(30) DEF IInv

\* reset() restarts the repeating timers nobody cancelled and deletes the rest.
LEMMA ResetIInv ==
    ASSUME IInv, reset
    PROVE  IInv'
<1> DEFINE R == Restarted
           again(a) == [heap[a] EXCEPT !.expiration = readTime + heap[a].interval]
<1>1. /\ callingExpiredTimers_' = FALSE /\ expired' = {} /\ readTime' = 0 /\ toRun = {}
      /\ activeTimers_' = activeTimers_ \cup Actives(R)
      /\ timers_' = timers_ \cup {<<readTime + heap[e[2]].interval, e[2]>> : e \in R}
      /\ UNCHANGED <<now, created, tasks, adding, ids, cancelled, cancelingTimers_, toRun, active>>
    BY Zenon DEF reset
<1>2. heap' = [a \in Addrs |-> CASE \E e \in R : e[2] = a -> again(a)
                                 [] \E e \in expired \ R : e[2] = a -> Free
                                 [] OTHER -> heap[a]]
    BY ZenonT(30) DEF reset
<1>3. /\ R \subseteq expired
      /\ \A e \in R : <<e[2], heap[e[2]].sequence>> \notin cancelingTimers_
      /\ \A e \in expired, f \in R : e[2] = f[2] => e \in R
    BY Zenon DEF Restarted, repeat
<1>4. /\ heap \in [Addrs -> Timer] /\ readTime \in Nat /\ created \in Nat
      /\ \A e \in expired : e[2] \in Addrs /\ e \in Nat \X Addrs
    BY Zenon DEF IInv, TypeOK
<1>5. \A a \in Addrs : /\ again(a) \in Timer
                       /\ again(a).expiration = readTime + heap[a].interval
                       /\ again(a).sequence = heap[a].sequence
    <2> TAKE a \in Addrs
    <2>1. heap[a] \in Timer /\ readTime + heap[a].interval \in Nat
        BY <1>4, TimerFields
    <2> QED
        BY <2>1, Zenon DEF Timer
<1> HIDE DEF R, again
<1>6. \A e \in R : heap'[e[2]] = again(e[2])
    BY <1>2, <1>3, <1>4, Zenon
<1>7. \A e \in expired \ R : heap'[e[2]] = Free
    BY <1>2, <1>3, <1>4, Zenon
<1>8. \A a \in Addrs : (\A e \in expired : e[2] # a) => heap'[a] = heap[a]
    BY <1>2, <1>3, Zenon
<1>9. heap' \in [Addrs -> Timer]
    <2>1. \A a \in Addrs : heap'[a] \in {again(a), Free, heap[a]}
        BY <1>2, ZenonT(30)
    <2>2. \A a \in Addrs : heap'[a] \in Timer
        BY <1>4, <1>5, <2>1, TimerFields, Zenon
    <2> QED
        BY <1>2, <2>2, Zenon
<1>10. \A e \in expired : heap[e[2]] # Free /\ heap[e[2]].sequence > 0
    BY <1>4, ZenonT(30) DEF IInv, InCall, Seqs
<1>11. \A p \in activeTimers_ : /\ p[1] \in Addrs /\ heap'[p[1]] = heap[p[1]]
                                /\ heap[p[1]] # Free /\ heap[p[1]].sequence = p[2]
    BY <1>8, ZenonT(30) DEF IInv, TypeOK, TimerId, SetsAgree, InCall
<1>12. \A e \in R : /\ heap'[e[2]] # Free /\ heap'[e[2]].sequence = heap[e[2]].sequence
                    /\ heap'[e[2]].expiration = readTime + heap[e[2]].interval
    BY <1>3, <1>4, <1>5, <1>6, <1>10, TimerFields
<1>13. \A p \in Actives(R) : \E e \in R : p = <<e[2], heap[e[2]].sequence>>
    BY Zenon DEF Actives
<1>14. \A e \in R : <<e[2], heap[e[2]].sequence>> \in Actives(R)
    BY Zenon DEF Actives
<1>15. TypeOK'
    <2>0. timers_' \subseteq Nat \X Addrs
        <3>0. \A a \in Addrs : heap[a].interval \in Nat
            BY <1>4, TimerFields, Zenon
        <3>1. \A e \in R : e[2] \in Addrs /\ readTime + heap[e[2]].interval \in Nat
            BY <1>3, <1>4, <3>0
        <3>2. timers_ \subseteq Nat \X Addrs
            BY Zenon DEF IInv, TypeOK
        <3> QED
            BY <1>1, <3>1, <3>2
    <2>1. armed' \in Nat /\ readable' \in BOOLEAN
        <3>1. \A x \in timers_' : x[1] \in Nat
            BY <2>0, Zenon
        <3>2. Rearm(timers_')
            BY Zenon DEF reset
        <3>3. now \in Nat /\ armed \in Nat /\ readable \in BOOLEAN
            BY Zenon DEF IInv, TypeOK
        <3>4. (\E x \in timers_' : resetTimerfd(x[1])) \/ UNCHANGED fdVars
            BY <3>2, ZenonT(30) DEF Rearm
        <3> QED
            BY <3>1, <3>3, <3>4, ZenonT(30) DEF resetTimerfd, fdVars
    <2>3. activeTimers_' \subseteq TimerId
        <3>1. \A e \in R : <<e[2], heap[e[2]].sequence>> \in TimerId
            BY <1>3, <1>4, TimerFields, ZenonT(30) DEF TimerId
        <3> QED
            BY <1>1, <1>13, <3>1, Zenon DEF IInv, TypeOK
    <2> QED
        BY <1>1, <1>9, <2>0, <2>1, <2>3, Zenon DEF IInv, TypeOK
<1>16. Seqs' /\ Stages' /\ InCall'
    <2>1. \A a \in Addrs : heap'[a] \in {again(a), Free, heap[a]}
        BY <1>2, Zenon
    <2>2. ASSUME NEW a \in Addrs
          PROVE  heap'[a].sequence <= created /\ (heap'[a] # Free => heap'[a].sequence > 0)
        <3>1. CASE \E e \in expired : e[2] = a
            <4>1. PICK e \in expired : e[2] = a
                BY <3>1, Zenon
            <4>2. heap[a].sequence <= created /\ heap[a].sequence > 0
                BY <1>10, <4>1, Zenon DEF IInv, Seqs
            <4>3. CASE e \in R
                BY <1>5, <1>6, <4>1, <4>2, <4>3, Zenon
            <4>4. CASE e \notin R
                <5>1. heap'[a] = Free
                    BY <1>7, <4>1, <4>4, Zenon
                <5>2. Free.sequence = 0 /\ created \in Nat
                    BY Zenon DEF Free, IInv, TypeOK
                <5> QED
                    BY <5>1, <5>2
            <4> QED
                BY <4>3, <4>4, Zenon
        <3>2. CASE \A e \in expired : e[2] # a
            BY <1>8, <3>2, Zenon DEF IInv, Seqs
        <3> QED
            BY <3>1, <3>2, ZenonT(30)
    <2> QED
        BY <1>1, <2>2, ZenonT(30) DEF Seqs, Stages, InCall
<1>17. SetsAgree'
    <2>1. \A p \in activeTimers_' : heap'[p[1]] # Free /\ heap'[p[1]].sequence = p[2]
        <3>1. \A p \in activeTimers_ : heap'[p[1]] # Free /\ heap'[p[1]].sequence = p[2]
            BY <1>11, Zenon
        <3>2. \A p \in Actives(R) : heap'[p[1]] # Free /\ heap'[p[1]].sequence = p[2]
            BY <1>12, <1>13
        <3> QED
            BY <1>1, <3>1, <3>2, Zenon
    <2>2. timers_ = {<<heap[p[1]].expiration, p[1]>> : p \in activeTimers_}
        BY Zenon DEF IInv, SetsAgree
    <2>3. ASSUME NEW x \in timers_'
          PROVE  \E p \in activeTimers_' : x = <<heap'[p[1]].expiration, p[1]>>
        <3>1. CASE x \in timers_
            BY <1>1, <1>11, <2>2, <3>1, Zenon
        <3>2. CASE x \notin timers_
            <4>1. PICK e \in R : x = <<readTime + heap[e[2]].interval, e[2]>>
                BY <1>1, <2>3, <3>2, ZenonT(30)
            <4> DEFINE q == <<e[2], heap[e[2]].sequence>>
            <4>2. q \in activeTimers_' /\ q[1] = e[2]
                BY <1>1, <1>14, Zenon
            <4> HIDE DEF q
            <4>3. x = <<heap'[q[1]].expiration, q[1]>>
                BY <1>12, <4>1, <4>2, ZenonT(30)
            <4> QED
                BY <4>2, <4>3, Zenon
        <3> QED
            BY <3>1, <3>2, ZenonT(30)
    <2>4. ASSUME NEW p \in activeTimers_'
          PROVE  <<heap'[p[1]].expiration, p[1]>> \in timers_'
        <3>1. CASE p \in activeTimers_
            BY <1>1, <1>11, <2>2, <3>1, ZenonT(30)
        <3>2. CASE p \notin activeTimers_
            <4>1. PICK e \in R : p = <<e[2], heap[e[2]].sequence>>
                BY <1>1, <1>13, <2>4, <3>2, ZenonT(30)
            <4> QED
                BY <1>1, <1>12, <4>1, Zenon
        <3> QED
            BY <3>1, <3>2, ZenonT(30)
    <2>5. timers_' = {<<heap'[p[1]].expiration, p[1]>> : p \in activeTimers_'}
        BY <2>3, <2>4, Zenon
    <2> QED
        BY <2>1, <2>5, ZenonT(30) DEF SetsAgree
<1>18. Gone'
    <2> SUFFICES ASSUME NEW p \in TimerId, <<p, TRUE>> \in cancelled
                 PROVE  p[2] <= created /\ ~(heap'[p[1]] # Free /\ heap'[p[1]].sequence = p[2])
        BY <1>1, Zenon DEF Gone
    <2>1. /\ p[2] <= created /\ p[1] \in Addrs /\ p = <<p[1], p[2]>>
          /\ heap[p[1]] # Free /\ heap[p[1]].sequence = p[2] =>
                p \in cancelingTimers_ /\ \E e \in expired : e[2] = p[1]
        <3>1. p[1] \in Addrs /\ p = <<p[1], p[2]>>
            BY DEF TimerId
        <3> QED
            BY <3>1, Zenon DEF IInv, Gone
    <2>2. CASE \A e \in expired : e[2] # p[1]
        BY <1>8, <2>1, <2>2, Zenon
    <2>3. ASSUME NEW e \in expired, e[2] = p[1], e \notin R
          PROVE  heap'[p[1]] = Free
        BY <1>7, <2>3, ZenonT(30)
    <2>4. ASSUME NEW e \in R, e[2] = p[1]
          PROVE  heap'[p[1]].sequence # p[2]
        BY <1>3, <1>10, <1>12, <2>1, <2>4, Zenon
    <2> QED
        BY <2>1, <2>2, <2>3, <2>4, Zenon
<1>19. \A w \in TimerId : Waiting(w) => Waiting(w)'
    <2> SUFFICES ASSUME NEW w \in TimerId, Waiting(w) PROVE Waiting(w)'
        BY Zenon
    <2>1. w[1] \in Addrs /\ heap'[w[1]] = heap[w[1]]
        BY <1>8, Zenon DEF TimerId, Waiting
    <2>2. w \notin activeTimers_'
        <3>1. w \notin activeTimers_ /\ \A e \in R : e[2] # w[1]
            BY <1>3, Zenon DEF Waiting
        <3>2. w \notin Actives(R)
            BY <1>13, <3>1
        <3> QED
            BY <1>1, <3>1, <3>2, ZenonT(30)
    <2> QED
        BY <1>1, <2>1, <2>2, ZenonT(30) DEF Waiting
<1>20. AddTasks' /\ NoTwice'
    BY <1>1, <1>19, SameTasks, Zenon DEF IInv
<1> QED
    BY <1>15, <1>16, <1>17, <1>18, <1>20, Zenon DEF IInv

\* A callback runs; time passes; the timerfd fires; poll() returns; another
\* thread takes its TimerId.
LEMMA OtherIInv ==
    ASSUME IInv, \/ (\E e \in toRun : run(e)) \/ tick \/ fire \/ poll
                 \/ (\E t \in Threads : addTimer_return(t))
    PROVE  IInv'
<1>1. CASE \E e \in toRun : run(e)
    <2>1. TypeOK'
        BY <1>1, Zenon DEF run, queueVars, fdVars, IInv, TypeOK
    <2>2. /\ UNCHANGED <<heap, created, timers_, activeTimers_, cancelingTimers_,
                           callingExpiredTimers_, expired, tasks, cancelled>>
          /\ active' => ~callingExpiredTimers_
        BY <1>1 DEF run, queueVars, IInv, Stages
    <2> QED
        BY <2>1, <2>2, StableIInv, ZenonT(30)
<1>2. CASE tick \/ fire
    <2>1. TypeOK'
        <3>1. CASE tick
            BY <3>1 DEF tick, queueVars, loopVars, fdVars, IInv, TypeOK
        <3>2. CASE fire
            BY <3>2, ZenonT(30) DEF fire, queueVars, loopVars, IInv, TypeOK
        <3> QED
            BY <1>2, <3>1, <3>2, ZenonT(30)
    <2>2. /\ UNCHANGED <<heap, created, timers_, activeTimers_, cancelingTimers_,
                           callingExpiredTimers_, expired, tasks, cancelled>>
          /\ active' => ~callingExpiredTimers_
        BY <1>2 DEF tick, fire, queueVars, loopVars, IInv, Stages
    <2> QED
        BY <2>1, <2>2, StableIInv, Zenon
<1>3. CASE poll
    <2>1. TypeOK'
        BY <1>3, ZenonT(30) DEF poll, queueVars, fdVars, IInv, TypeOK
    <2> QED
        BY <1>3, <2>1, StableIInv, ZenonT(30) DEF poll, queueVars
<1>4. ASSUME NEW t \in Threads, addTimer_return(t) PROVE IInv'
    <2>1. adding[t] \in TimerId
        BY <1>4, Zenon DEF addTimer_return, IInv, TypeOK
    <2>2. PICK seq \in {adding[t][2]} \cup
                       (IF heap[adding[t][1]] = Free THEN {} ELSE {heap[adding[t][1]].sequence}) :
              ids' = ids \cup {<<adding[t][1], seq>>}
        BY <1>4, Zenon DEF addTimer_return
    <2>3. adding[t][1] \in Addrs /\ adding[t][2] \in Nat
        BY <2>1, Zenon DEF TimerId
    <2>4. heap[adding[t][1]].sequence \in Nat
        BY <2>3, TimerFields, ZenonT(30) DEF IInv, TypeOK
    <2>5. ids' \subseteq TimerId
        <3>1. ids \subseteq TimerId
            BY Zenon DEF IInv, TypeOK
        <3>2. PICK m \in Nat : ids' = ids \cup {<<adding[t][1], m>>}
            BY <2>2, <2>3, <2>4, ZenonT(30)
        <3>3. <<adding[t][1], m>> \in TimerId
            BY <2>3, <3>2, Zenon DEF TimerId
        <3> QED
            BY <3>1, <3>2, <3>3, ZenonT(30)
    <2>6. adding' \in [Threads -> TimerId \cup {Nobody}]
        BY <1>4, ZenonT(30) DEF addTimer_return, IInv, TypeOK
    <2>7. TypeOK'
        BY <1>4, <2>5, <2>6, Zenon DEF addTimer_return, queueVars, loopVars, fdVars, IInv, TypeOK
    <2> QED
        BY <1>4, <2>7, StableIInv, ZenonT(30) DEF addTimer_return, queueVars, loopVars, IInv, Stages
<1> QED
    BY <1>1, <1>2, <1>3, <1>4, Zenon

\* Every step preserves the invariant.
LEMMA NextIInv == IInv /\ [Next]_vars => IInv'
<1> SUFFICES ASSUME IInv, [Next]_vars PROVE IInv'
    BY Zenon
<1>1. CASE HandleReadStep
    BY <1>1, HandleReadIInv, ResetIInv, OtherIInv, Zenon DEF HandleReadStep
<1>2. CASE runTask
    BY <1>2, RunTaskIInv, Zenon
<1>3. CASE poll \/ fire \/ tick
    BY <1>3, OtherIInv, Zenon
<1>4. CASE UserStep
    <2>1. ASSUME NEW a \in Addrs, NEW when \in Times, NEW i \in Intervals,
                 \/ addTimer(a, when, i)
                 \/ \E t \in Threads : addTimer_queue(t, a, when, i)
          PROVE  IInv'
        BY <2>1, AddTimerIInv, AddQueueIInv, Zenon
    <2>2. CASE \E t \in Threads : addTimer_return(t)
        BY <2>2, OtherIInv, Zenon
    <2>3. ASSUME NEW id \in ids, cancel(id) \/ cancel_queue(id) PROVE IInv'
        BY <2>3, CancelIInv, CancelQueueIInv, ZenonT(30)
    <2> QED
        BY <1>4, <2>1, <2>2, <2>3, Zenon DEF UserStep
<1>5. CASE UNCHANGED vars
    <2>1. TypeOK'
        BY <1>5, Zenon DEF vars, IInv, TypeOK
    <2> QED
        BY <1>5, <2>1, StableIInv, ZenonT(30) DEF vars, IInv, Stages
<1> QED
    BY <1>1, <1>2, <1>3, <1>4, <1>5, Zenon DEF Next

\* The inductive invariant holds in every behaviour.
LEMMA Invariance == Spec => []IInv
BY InitIInv, NextIInv, PTL DEF Spec

\* For any number of timers, addresses, threads and queued tasks, timers_ and
\* activeTimers_ hold the same timers, and each is a Timer that exists.
THEOREM SetsAlwaysAgree == Spec => []SetsAgree
<1>1. IInv => SetsAgree
    BY Zenon DEF IInv
<1> QED
    BY <1>1, Invariance, PTL

\* No Timer is deleted while handleRead() has to run or reset it or while its
\* insertion is queued, whatever callbacks and other threads cancel.
THEOREM NoTimerDangles == Spec => []NoDanglingTimer
<1>1. IInv => NoDanglingTimer
    BY ZenonT(30) DEF IInv, InCall, AddTasks, Waiting, NoDanglingTimer
<1> QED
    BY <1>1, Invariance, PTL

\* A timer that was cancelled while it was in the queue or being called never
\* comes back into the queue, even if its address is used again.
THEOREM CancelledStaysGone == Spec => []CancelledIsGone
<1>1. IInv => CancelledIsGone
    <2> SUFFICES ASSUME IInv, ~callingExpiredTimers_, NEW p \in activeTimers_
                 PROVE  <<p, TRUE>> \notin cancelled
        BY Zenon DEF CancelledIsGone
    <2>1. p \in TimerId /\ heap[p[1]] # Free /\ heap[p[1]].sequence = p[2] /\ expired = {}
        BY Zenon DEF IInv, TypeOK, SetsAgree, Stages
    <2> QED
        BY <2>1, Zenon DEF IInv, Gone
<1> QED
    BY <1>1, Invariance, PTL
-----------------------------------------------------------------------------
(***************************************************************************)
(* ZlibStream: no byte is lost, for any sizes of pieces and buffers.       *)
(***************************************************************************)
ZlibTypes ==
    /\ zerror_ \in {"Z_OK", "Z_BUF_ERROR", "Z_STREAM_END"} /\ bufferSize_ \in Nat \ {0}
    /\ next_in \in {"null", "string", "buffer", "stale"} /\ avail_in \in Nat /\ held \in Nat
    /\ output_ \in Nat /\ room \in Nat /\ input \in Nat /\ given \in Nat /\ kept \in Nat
    /\ call \in {"no", "write", "writeBuffer", "finish", "aborted", "stale"}

\* Where the bytes given are at every step of a call: write(StringPiece) has
\* its own behind next_in, finish() those that a Buffer has as well.
BytesPlaced ==
    /\ call \in {"no", "writeBuffer"} /\ zerror_ = "Z_OK" => output_ + held + input = given
    /\ call = "write" => output_ + held + avail_in + input = given
    /\ call = "writeBuffer" => avail_in = input
    /\ call = "finish" \/ zerror_ = "Z_STREAM_END" =>
          output_ + held + avail_in + input = given + kept

\* Only finish() ends the stream, when zlib is empty.
EndsEmpty == /\ zerror_ = "Z_STREAM_END" => call \in {"no", "finish"} /\ held = 0 /\ avail_in = 0
             /\ zerror_ # "Z_BUF_ERROR"

PointerReset == /\ next_in = "null" => avail_in = 0
                /\ next_in = "string" <=> call = "write"
                /\ call = "aborted" => next_in \in {"buffer", "stale"}

\* What next_in points to is the front of the Buffer, and has moved only when
\* more came behind it.
PointerInBuffer == /\ next_in = "buffer" => avail_in <= input
                   /\ next_in = "stale" => avail_in < input /\ call # "writeBuffer"
                   /\ next_in = "stale" /\ call = "finish" => avail_in = 0
                   /\ call = "stale" => next_in = "stale" /\ avail_in > 0

ZlibInv == ZlibTypes /\ BytesPlaced /\ EndsEmpty /\ PointerReset /\ PointerInBuffer

LEMMA ZlibInitially == ZlibInit => ZlibInv
BY ZlibAssumption DEF ZlibInit, ZlibInv, ZlibTypes, BytesPlaced, EndsEmpty, PointerReset, PointerInBuffer

\* compress moves bytes from the input through zlib to the output; with
\* input, or asked to finish, it does not meet Z_BUF_ERROR.
LEMMA Compressed ==
    ASSUME ZlibTypes, NEW flush \in BOOLEAN, NEW r \in deflate(ensured, flush),
           compresses(r, ensured, flush), avail_in > 0 \/ flush
    PROVE  /\ avail_in' \in Nat /\ held' \in Nat /\ output_' \in Nat /\ room' \in Nat
           /\ bufferSize_' \in Nat \ {0}
           /\ output_' + held' + avail_in' = output_ + held + avail_in
           /\ zerror_' = "Z_OK" \/ (flush /\ zerror_' = "Z_STREAM_END" /\ avail_in' = 0 /\ held' = 0)
           /\ avail_in = 0 => avail_in' = 0
           /\ avail_in' <= avail_in
<1>1. ensured \in Nat \ {0}
  BY DEF ensured, ZlibTypes
<1>2. PICK m \in Nat \ {0} : m = ensured
  BY <1>1, Zenon
<1>3. /\ r.in \in 0 .. avail_in /\ r.out \in 0 .. m /\ r.out <= held + r.in
      /\ r.in < avail_in => r.out = m
      /\ flush => r.out = IF held + r.in < m THEN held + r.in ELSE m
  BY <1>2, Zenon DEF deflate
<1>4. /\ avail_in' = avail_in - r.in /\ held' = held + r.in - r.out
      /\ output_' = output_ + r.out /\ room' = m - r.out
      /\ bufferSize_' = IF m = r.out /\ bufferSize_ < kMaxBufferSize THEN 2 * bufferSize_ ELSE bufferSize_
      /\ zerror_' = result(r, flush)
  BY <1>2, Zenon DEF compresses
<1>5. PICK a \in Nat, o \in Nat : a = r.in /\ o = r.out
  BY <1>3 DEF ZlibTypes
<1>6. bufferSize_' \in Nat \ {0}
  BY <1>4 DEF ZlibTypes
<1>7. /\ avail_in' \in Nat /\ held' \in Nat /\ output_' \in Nat /\ room' \in Nat
      /\ output_' + held' + avail_in' = output_ + held + avail_in
      /\ avail_in = 0 => avail_in' = 0
      /\ avail_in' <= avail_in
  BY <1>3, <1>4, <1>5 DEF ZlibTypes
<1>8. zerror_' = "Z_OK" \/ (flush /\ zerror_' = "Z_STREAM_END" /\ avail_in' = 0 /\ held' = 0)
  <2>1. CASE flush /\ a = avail_in /\ o = held + a
    BY <2>1, <1>3, <1>4, <1>5 DEF ZlibTypes, result
  <2>2. CASE ~(flush /\ a = avail_in /\ o = held + a)
    <3>1. a + o # 0
      <4>1. /\ a \in 0 .. avail_in /\ o \in 0 .. m /\ (a < avail_in => o = m) /\ avail_in \in Nat
            /\ held \in Nat
        BY <1>3, <1>5, Zenon DEF ZlibTypes
      <4>2. CASE a < avail_in
        BY <4>1, <4>2
      <4>3. CASE flush /\ a = avail_in
        <5>1. o = IF held + a < m THEN held + a ELSE m
          BY <1>3, <1>5, <4>3, Zenon
        <5>2. o # held + a
          BY <2>2, <4>3, Zenon
        <5>3. o = m
          BY <5>1, <5>2, ZenonT(30)
        <5>4. QED
          BY <5>3, <4>1
      <4>4. QED
        BY <4>1, <4>2, <4>3
    <3>2. QED
      BY <2>2, <3>1, <1>4, <1>5, Zenon DEF result
  <2>3. QED
    BY <2>1, <2>2, Zenon
<1>9. QED
  BY <1>6, <1>7, <1>8, Zenon

LEMMA ZlibStep == ZlibInv /\ [ZlibNext]_zlibVars => ZlibInv'
<1> SUFFICES ASSUME ZlibInv, [ZlibNext]_zlibVars PROVE ZlibInv'
  BY Zenon
<1> USE DEF ZlibInv
<1>1. ASSUME NEW n \in Pieces, write(n) PROVE ZlibInv'
  <2>1. n \in Nat
    BY ZlibAssumption, ZenonT(30)
  <2>2. QED
    BY <1>1, <2>1 DEF write, ZlibTypes, BytesPlaced, EndsEmpty, PointerReset, PointerInBuffer
<1>2. ASSUME NEW n \in Pieces, fill(n) PROVE ZlibInv'
  <2>1. n \in Nat
    BY ZlibAssumption, Zenon
  <2>2. QED
    BY <1>2, <2>1 DEF fill, ZlibTypes, BytesPlaced, EndsEmpty, PointerReset, PointerInBuffer
<1>3. CASE writeLoop
  <2>1. CASE avail_in > 0 /\ zerror_ = "Z_OK"
    <3>1. PICK r \in deflate(ensured, FALSE) : compresses(r, ensured, FALSE)
      BY <1>3, <2>1, Zenon DEF writeLoop, writes
    <3>2. UNCHANGED <<input, given, kept, call, next_in>> /\ call = "write"
      BY <1>3, <2>1, Zenon DEF writeLoop, writes
    <3>3. /\ avail_in' \in Nat /\ held' \in Nat /\ output_' \in Nat /\ room' \in Nat
          /\ bufferSize_' \in Nat \ {0} /\ zerror_' = "Z_OK"
          /\ output_' + held' + avail_in' = output_ + held + avail_in
      BY <2>1, <3>1, Compressed, Zenon
    <3>4. PointerInBuffer'
      BY <3>2, ZenonT(30) DEF PointerReset, PointerInBuffer
    <3>5. QED
      BY <3>2, <3>3, <3>4, Zenon DEF ZlibTypes, BytesPlaced, EndsEmpty, PointerReset
  <2>2. CASE ~(avail_in > 0 /\ zerror_ = "Z_OK")
    <3>1. /\ call = "write" /\ call' = "no" /\ next_in' = IF avail_in = 0 THEN "null" ELSE next_in
          /\ UNCHANGED <<input, given, kept, zerror_, bufferSize_, avail_in, held, output_, room>>
      BY <1>3, <2>2, Zenon DEF writeLoop, writes
    <3>2. zerror_ = "Z_OK" /\ avail_in = 0
      BY <2>2, <3>1 DEF EndsEmpty, ZlibTypes
    <3>3. next_in' = "null"
      BY <3>1, <3>2, ZenonT(30)
    <3>4. ZlibTypes' /\ EndsEmpty' /\ PointerReset' /\ PointerInBuffer'
      BY <3>1, <3>2, <3>3, ZenonT(30) DEF ZlibTypes, EndsEmpty, PointerReset, PointerInBuffer
    <3>5. BytesPlaced'
      BY <3>1, <3>2 DEF ZlibTypes, BytesPlaced
    <3>6. QED
      BY <3>4, <3>5, Zenon
  <2>3. QED
    BY <2>1, <2>2, Zenon
<1>4. CASE writeBuffer
  <2>1. input <= input
    BY DEF ZlibTypes
  <2>2. QED
    BY <1>4, <2>1, ZenonT(30) DEF writeBuffer, ZlibTypes, BytesPlaced, EndsEmpty, PointerReset, PointerInBuffer
<1>5. CASE compressBuffer
  <2>0. /\ call = "writeBuffer" /\ call' = "no" /\ UNCHANGED <<next_in, given, kept>>
        /\ input' = avail_in'
    BY <1>5, Zenon DEF compressBuffer, retrieves
  <2>1. CASE avail_in > 0
    <3>1. PICK r \in deflate(ensured, FALSE) : compresses(r, ensured, FALSE)
      BY <1>5, <2>1, Zenon DEF compressBuffer, retrieves
    <3>3. /\ avail_in' \in Nat /\ held' \in Nat /\ output_' \in Nat /\ room' \in Nat
          /\ bufferSize_' \in Nat \ {0} /\ zerror_' = "Z_OK"
          /\ output_' + held' + avail_in' = output_ + held + avail_in
      BY <2>1, <3>1, Compressed, ZenonT(30)
    <3>4. PointerReset' /\ PointerInBuffer'
      BY <2>0, <2>1, <3>3 DEF PointerReset, PointerInBuffer, ZlibTypes
    <3>5. ZlibTypes' /\ EndsEmpty'
      BY <2>0, <3>3, Zenon DEF ZlibTypes, EndsEmpty
    <3>6. BytesPlaced'
      <4>1. output_ + held + input = given /\ avail_in = input
        BY <2>0, Zenon DEF BytesPlaced, EndsEmpty, ZlibTypes
      <4>2. QED
        BY <4>1, <2>0, <3>3, ZenonT(30) DEF ZlibTypes, BytesPlaced
    <3>7. QED
      BY <3>4, <3>5, <3>6, Zenon
  <2>2. CASE ~(avail_in > 0)
    <3>1. PointerInBuffer'
      BY <1>5, <2>0, <2>2 DEF compressBuffer, retrieves, ZlibTypes, PointerReset, PointerInBuffer
    <3>2. QED
      BY <1>5, <2>0, <2>2, <3>1, ZenonT(30) DEF compressBuffer, retrieves, ZlibTypes, BytesPlaced, EndsEmpty,
         PointerReset
  <2>3. QED
    BY <2>1, <2>2, Zenon
<1>6. CASE finish
  BY <1>6 DEF finish, ZlibTypes, BytesPlaced, EndsEmpty, PointerReset, PointerInBuffer
<1>7. CASE finishLoop
  <2>0. call = "finish" /\ UNCHANGED <<next_in, input, given, kept>>
    BY <1>7, Zenon DEF finishLoop, finishes
  <2>1. CASE zerror_ = "Z_OK"
    <3>1. PICK r \in deflate(ensured, TRUE) : compresses(r, ensured, TRUE)
      BY <1>7, <2>1, Zenon DEF finishLoop, finishes
    <3>2. call' = call
      BY <1>7, <2>1, Zenon DEF finishLoop, finishes
    <3>3. /\ avail_in' \in Nat /\ held' \in Nat /\ output_' \in Nat /\ room' \in Nat
          /\ bufferSize_' \in Nat \ {0}
          /\ output_' + held' + avail_in' = output_ + held + avail_in
          /\ zerror_' = "Z_OK" \/ (zerror_' = "Z_STREAM_END" /\ avail_in' = 0 /\ held' = 0)
          /\ avail_in = 0 => avail_in' = 0
          /\ avail_in' <= avail_in
      BY <3>1, Compressed, ZenonT(30)
    <3>4. PointerInBuffer'
      BY <2>0, <3>2, <3>3 DEF ZlibTypes, PointerInBuffer
    <3>5. QED
      BY <2>0, <3>2, <3>3, <3>4, Zenon DEF ZlibTypes, BytesPlaced, EndsEmpty, PointerReset
  <2>2. CASE zerror_ # "Z_OK"
    BY <1>7, <2>2, ZenonT(30) DEF finishLoop, finishes, ZlibTypes, BytesPlaced, EndsEmpty, PointerReset,
       PointerInBuffer
  <2>3. QED
    BY <2>1, <2>2, Zenon
<1>8. CASE UNCHANGED zlibVars
  BY <1>8, Zenon DEF zlibVars, ZlibTypes, BytesPlaced, EndsEmpty, PointerReset, PointerInBuffer
<1>9. QED
  BY <1>1, <1>2, <1>3, <1>4, <1>5, <1>6, <1>7, <1>8, ZenonT(30) DEF ZlibNext

\* No byte is lost or compressed twice on the way from the caller through
\* zlib to the output Buffer, whatever calls of write and finish are made
\* and however deflate divides its work, until finish() reads from a Buffer
\* that has moved, which takes an append after an incomplete write(Buffer*).
THEOREM StreamConservesTheorem == ZlibSpec => []StreamConserves
<1>1. ZlibInv => StreamConserves
  BY DEF ZlibInv, ZlibTypes, BytesPlaced, EndsEmpty, PointerReset, PointerInBuffer, StreamConserves,
         BytesConserved, FinishedIsWhole, NextInReset, StaleRead
<1>2. QED
  BY ZlibInitially, ZlibStep, <1>1, PTL DEF ZlibSpec
=============================================================================
