------------------------------ MODULE EventLoop ------------------------------
(***************************************************************************)
(* muduo::net::EventLoop: the reactor that runs in one thread, and the     *)
(* calls that thread and others make on it.                                *)
(*                                                                         *)
(* The loop thread alternates between poll(), the handlers of the active   *)
(* channels and doPendingFunctors().  queueInLoop() and quit() are called  *)
(* by any thread and take two steps each: the change of the shared state   *)
(* (under mutex_, or of the atomic quit_) and then the write to the        *)
(* eventfd that brings the loop out of poll().                             *)
(*                                                                         *)
(* User code (channel callbacks, functors, destructors of what a functor   *)
(* holds) is represented by the calls it makes on the loop.  runInLoop()   *)
(* in the loop thread calls its argument on the spot, which is more of the *)
(* same user code; in any other thread it is queueInLoop().                *)
(***************************************************************************)
EXTENDS Naturals, Sequences

CONSTANTS
    Threads,        \* the threads that are not the loop thread
    LoopThread,     \* the thread the EventLoop was created in
    IOChannels,     \* the channels of the loop other than wakeupChannel_
    WakeupChannel,  \* wakeupChannel_
    MaxCalls        \* bound: calls each thread makes on the loop

ASSUME ThreadsAssumption == LoopThread \notin Threads
ASSUME ChannelsAssumption == WakeupChannel \notin IOChannels
ASSUME MaxCallsAssumption == MaxCalls \in Nat

VARIABLES
    loopPc,             \* where the loop thread is
    quit_,              \* std::atomic<bool>
    activeChannels_,    \* what poll() returned and is not handled yet
    wakeupFd_,          \* the value of the eventfd counter
    pendingFunctors_,   \* guarded by mutex_
    functors,           \* doPendingFunctors: swapped out, not run yet
    spent,              \* doPendingFunctors: run, not destroyed yet
    ran,                \* history: the functors run, in order
    call,               \* per thread: the call on the loop it is inside
    calls               \* per thread: calls made so far

callVars == <<call, calls>>
batchVars == <<functors, spent, ran>>
vars == <<loopPc, quit_, activeChannels_, wakeupFd_, pendingFunctors_,
          functors, spent, ran, call, calls>>

Callers == Threads \cup {LoopThread}
Channels == IOChannels \cup {WakeupChannel}
LoopPcs == {"out", "test", "poll", "handle", "swap", "run", "functor", "destroy"}

(***************************************************************************)
(* A functor is known by who queued it and the number of that call.  A     *)
(* functor is silent when queueInLoop() wrote no wakeup for it and no      *)
(* doPendingFunctors() of the same iteration follows: the loop thread      *)
(* queued it outside loop(), or from a destructor that runs when           *)
(* doPendingFunctors() drops its local vector.                             *)
(***************************************************************************)
Functor == [by : Callers, n : 1 .. MaxCalls, silent : BOOLEAN]

isInLoopThread(t) == t = LoopThread

\* Flags only the loop thread reads and writes: where loop() sets and clears them.
looping_ == loopPc # "out"
eventHandling_ == loopPc = "handle"

\* The flag cleared before the functors run instead of after.
callingPendingFunctors_ClearedEarly == loopPc = "swap"

callingPendingFunctors_ == loopPc \in {"swap", "run", "functor"}

\* The loop thread is executing user code, which may call back into the loop.
InUserCode ==
    \/ loopPc \in {"out", "functor"}
    \/ eventHandling_ /\ activeChannels_ \cap IOChannels # {}
    \/ loopPc = "destroy" /\ spent # <<>>

MayCall(t) == /\ call[t] = "idle"
              /\ calls[t] < MaxCalls
              /\ isInLoopThread(t) => InUserCode

\* The loop thread goes from one place of loop() to another; it is not
\* inside a call on the loop.
Goto(from, to) == /\ loopPc = from /\ loopPc' = to
                  /\ call[LoopThread] = "idle" /\ UNCHANGED callVars
-----------------------------------------------------------------------------
Init ==
    /\ loopPc = "out" /\ quit_ = FALSE
    /\ activeChannels_ = {} /\ wakeupFd_ = 0
    /\ pendingFunctors_ = <<>> /\ functors = <<>> /\ spent = <<>> /\ ran = <<>>
    /\ call = [t \in Callers |-> "idle"]
    /\ calls = [t \in Callers |-> 0]

NewFunctor(t) ==
    [by |-> t, n |-> calls[t] + 1,
     silent |-> isInLoopThread(t) /\ loopPc \in {"out", "destroy"}]

\* queueInLoop: push_back under mutex_ ...
queueInLoop(t) ==
    /\ MayCall(t)
    /\ pendingFunctors_' = Append(pendingFunctors_, NewFunctor(t))
    /\ call' = [call EXCEPT ![t] = "queued"]
    /\ calls' = [calls EXCEPT ![t] = @ + 1]
    /\ UNCHANGED <<loopPc, quit_, activeChannels_, wakeupFd_, batchVars>>

\* The wakeup decided without looking at callingPendingFunctors_.
NeedsWakeup_OtherThreadsOnly(t) == ~isInLoopThread(t)

NeedsWakeup(t) == ~isInLoopThread(t) \/ callingPendingFunctors_

\* ... then wakeup() if the loop may not see the functor otherwise.
queueInLoop_wakeup(t) ==
    /\ call[t] = "queued"
    /\ wakeupFd_' = IF NeedsWakeup(t) THEN wakeupFd_ + 1 ELSE wakeupFd_
    /\ call' = [call EXCEPT ![t] = "idle"]
    /\ UNCHANGED <<loopPc, quit_, activeChannels_, pendingFunctors_, batchVars, calls>>

quit(t) ==
    /\ MayCall(t)
    /\ quit_' = TRUE
    /\ call' = [call EXCEPT ![t] = IF isInLoopThread(t) THEN "idle" ELSE "quitting"]
    /\ calls' = [calls EXCEPT ![t] = @ + 1]
    /\ UNCHANGED <<loopPc, activeChannels_, wakeupFd_, pendingFunctors_, batchVars>>

quit_wakeup(t) ==
    /\ call[t] = "quitting"
    /\ wakeupFd_' = wakeupFd_ + 1
    /\ call' = [call EXCEPT ![t] = "idle"]
    /\ UNCHANGED <<loopPc, quit_, activeChannels_, pendingFunctors_, batchVars, calls>>
-----------------------------------------------------------------------------
\* loop() is entered: looping_ = true, quit_ = false.
loop ==
    /\ Goto("out", "test")
    /\ quit_' = FALSE
    /\ UNCHANGED <<activeChannels_, wakeupFd_, pendingFunctors_, batchVars>>

\* while (!quit_): leave the loop, or poll.
loop_test ==
    /\ Goto("test", IF quit_ THEN "out" ELSE "poll")
    /\ UNCHANGED <<quit_, activeChannels_, wakeupFd_, pendingFunctors_, batchVars>>

\* quit_ reset on every iteration, after the test.
poll_ClearsQuit(active) ==
    /\ Goto("poll", "handle")
    /\ activeChannels_' = active
    /\ quit_' = FALSE
    /\ UNCHANGED <<wakeupFd_, pendingFunctors_, batchVars>>

poll(active) ==
    /\ Goto("poll", "handle")
    /\ activeChannels_' = active
    /\ UNCHANGED <<quit_, wakeupFd_, pendingFunctors_, batchVars>>

\* The poller reports every readable fd: the eventfd iff its counter is not 0.
poll_wakeup == /\ wakeupFd_ > 0
               /\ \E io \in SUBSET IOChannels : poll(io \cup {WakeupChannel})

poll_io == /\ wakeupFd_ = 0
           /\ \E io \in SUBSET IOChannels : io # {} /\ poll(io)

\* A poll that returned nothing starts the next iteration at once.
poll_timeout_Continues ==
    /\ wakeupFd_ = 0 /\ Goto("poll", "test")
    /\ UNCHANGED <<quit_, activeChannels_, wakeupFd_, pendingFunctors_, batchVars>>

\* kPollTimeMs elapsed, or the system call was interrupted.
poll_timeout == wakeupFd_ = 0 /\ poll({})

\* The callback of an active I/O channel returns.
handleEvent(c) ==
    /\ c \in activeChannels_ \cap IOChannels
    /\ Goto("handle", "handle")
    /\ activeChannels_' = activeChannels_ \ {c}
    /\ UNCHANGED <<quit_, wakeupFd_, pendingFunctors_, batchVars>>

\* The callback of wakeupChannel_ reads the eventfd.
handleRead ==
    /\ WakeupChannel \in activeChannels_
    /\ Goto("handle", "handle")
    /\ wakeupFd_' = 0
    /\ activeChannels_' = activeChannels_ \ {WakeupChannel}
    /\ UNCHANGED <<quit_, pendingFunctors_, batchVars>>

\* The channels are handled; doPendingFunctors sets callingPendingFunctors_ ...
doPendingFunctors ==
    /\ activeChannels_ = {}
    /\ Goto("handle", "swap")
    /\ UNCHANGED <<quit_, activeChannels_, wakeupFd_, pendingFunctors_, batchVars>>

\* A swap that copies the vector and forgets to empty the shared one.
doPendingFunctors_swap_Copy ==
    /\ Goto("swap", "run")
    /\ functors' = pendingFunctors_
    /\ UNCHANGED <<quit_, activeChannels_, wakeupFd_, pendingFunctors_, spent, ran>>

\* ... and swaps the vectors under mutex_,
doPendingFunctors_swap ==
    /\ Goto("swap", "run")
    /\ functors' = pendingFunctors_
    /\ pendingFunctors_' = <<>>
    /\ UNCHANGED <<quit_, activeChannels_, wakeupFd_, spent, ran>>

\* calls the functors one after the other,
functor ==
    /\ functors # <<>>
    /\ Goto("run", "functor")
    /\ ran' = Append(ran, Head(functors))
    /\ spent' = Append(spent, Head(functors))
    /\ functors' = Tail(functors)
    /\ UNCHANGED <<quit_, activeChannels_, wakeupFd_, pendingFunctors_>>

functor_return ==
    /\ Goto("functor", "run")
    /\ UNCHANGED <<quit_, activeChannels_, wakeupFd_, pendingFunctors_, batchVars>>

\* clears callingPendingFunctors_,
doPendingFunctors_end ==
    /\ functors = <<>>
    /\ Goto("run", "destroy")
    /\ UNCHANGED <<quit_, activeChannels_, wakeupFd_, pendingFunctors_, batchVars>>

\* and destroys the functors with its local vector.
doPendingFunctors_return ==
    /\ Goto("destroy", "test")
    /\ spent' = <<>>
    /\ UNCHANGED <<quit_, activeChannels_, wakeupFd_, pendingFunctors_, functors, ran>>
-----------------------------------------------------------------------------
\* The steps of loop() that do not wait for the outside world.
LoopStep ==
    \/ loop_test \/ poll_wakeup
    \/ handleRead \/ \E c \in IOChannels : handleEvent(c)
    \/ doPendingFunctors \/ doPendingFunctors_swap
    \/ functor \/ functor_return
    \/ doPendingFunctors_end \/ doPendingFunctors_return

CallStep(t) == \/ queueInLoop(t) \/ queueInLoop_wakeup(t)
               \/ quit(t) \/ quit_wakeup(t)

Next == \/ loop \/ LoopStep \/ poll_io \/ poll_timeout
        \/ \E t \in Callers : CallStep(t)

Spec == Init /\ [][Next]_vars

-----------------------------------------------------------------------------
\* Every variable stays within its C++ type; calls stay within the bound.
TypeOK ==
    /\ loopPc \in LoopPcs /\ quit_ \in BOOLEAN
    /\ activeChannels_ \subseteq Channels /\ wakeupFd_ \in Nat
    /\ pendingFunctors_ \in Seq(Functor) /\ functors \in Seq(Functor)
    /\ spent \in Seq(Functor) /\ ran \in Seq(Functor)
    /\ call \in [Callers -> {"idle", "queued", "quitting"}]
    /\ calls \in [Callers -> 0 .. MaxCalls]

(***************************************************************************)
(* No lost wakeup.  While the loop thread is in poll() and a functor is    *)
(* pending, the eventfd is readable or the thread that queued the functor  *)
(* is about to write it, so poll() does not sleep over queued work.  The   *)
(* exceptions are the silent functors, which wait for another event or for *)
(* the poll timeout (EventLoop.cc:160-171, 254-269).                       *)
(***************************************************************************)
NoLostWakeup ==
    loopPc = "poll" =>
        \A i \in DOMAIN pendingFunctors_ :
            LET f == pendingFunctors_[i]
            IN  \/ f.silent
                \/ wakeupFd_ > 0
                \/ f.by \in Threads /\ call[f.by] = "queued"

(***************************************************************************)
(* A quit() that arrives while the loop is in poll() is not slept over:    *)
(* the eventfd is readable or the caller is about to write it              *)
(* (EventLoop.cc:136-146).                                                 *)
(***************************************************************************)
QuitNotMissed ==
    loopPc = "poll" /\ quit_ =>
        wakeupFd_ > 0 \/ \E t \in Threads : call[t] = "quitting"

(***************************************************************************)
(* handleRead() never finds the eventfd empty, so its LOG_ERROR branch     *)
(* ("reads n bytes instead of 8", EventLoop.cc:248-251) is never taken.    *)
(***************************************************************************)
HandleReadFindsData == WakeupChannel \in activeChannels_ => wakeupFd_ > 0

(***************************************************************************)
(* The loop implements a FIFO task queue: every queued functor is started  *)
(* exactly once, in the order in which queueInLoop acquired mutex_, across *)
(* the swap of the two vectors and when functors queue functors.           *)
(***************************************************************************)
Abstract == INSTANCE TaskQueue WITH
                Task <- Functor,
                queue <- functors \o pendingFunctors_,
                done <- ran
ImplementsTaskQueue == Abstract!Spec

Queued(t, n) == \E i \in DOMAIN pendingFunctors_ :
                    LET f == pendingFunctors_[i]
                    IN  f.by = t /\ f.n = n /\ ~f.silent
Ran(t, n) == \E i \in DOMAIN ran : ran[i].by = t /\ ran[i].n = n

(***************************************************************************)
(* A functor that is not silent runs, or the loop is left, without the     *)
(* help of the poll timeout (queueInLoop and doPendingFunctors).           *)
(***************************************************************************)
QueuedFunctorRuns ==
    \A t \in Callers, n \in 1 .. MaxCalls :
        Queued(t, n) ~> Ran(t, n) \/ ~looping_

\* Once quit() has set quit_ in a running loop, loop() returns.
QuitStopsLoop == looping_ /\ quit_ ~> ~looping_

(***************************************************************************)
(* With the poll timeout (kPollTimeMs) pending functors are picked up by   *)
(* doPendingFunctors even if all of them are silent, or the loop is left.  *)
(***************************************************************************)
TimeoutPicksUpAll ==
    WF_vars(poll_timeout) =>
        (pendingFunctors_ # <<>> ~> functors # <<>> \/ ~looping_)
=============================================================================
