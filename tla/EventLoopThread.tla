--------------------------- MODULE EventLoopThread ---------------------------
(***************************************************************************)
(* muduo::net::EventLoopThread: an owner thread starts a thread that runs  *)
(* an EventLoop on its stack, uses the loop, and in the destructor quits   *)
(* the loop and joins the thread.  The EventLoop is the one of EventLoop,  *)
(* the new thread is its LoopThread.                                       *)
(***************************************************************************)
EXTENDS EventLoop

CONSTANT Owner      \* the thread that owns the EventLoopThread object

ASSUME OwnerAssumption == Owner \in Threads

VARIABLES
    loop_,          \* loop_ is not null
    threadPc,       \* where threadFunc is
    ownerPc,        \* where the owner is
    userQuit        \* history: user code has called quit() on the loop itself

threadVars == <<loop_, threadPc, ownerPc, userQuit>>
allVars == <<vars, threadVars>>

Owners(from, to) == ownerPc = from /\ ownerPc' = to /\ UNCHANGED <<threadPc, userQuit>>
Thread(from, to) == threadPc = from /\ threadPc' = to /\ UNCHANGED <<ownerPc, userQuit>>

InitThread == /\ Init
              /\ loop_ = FALSE
              /\ threadPc = "none" /\ ownerPc = "constructed"
              /\ userQuit = FALSE
-----------------------------------------------------------------------------
\* startLoop: thread_.start() returns once the new thread runs ...
startLoop == /\ ownerPc = "constructed" /\ ownerPc' = "waiting"
             /\ threadPc' = "callback"
             /\ UNCHANGED <<loop_, userQuit>> /\ UNCHANGED vars

\* ... and the wait for loop_ ends when the owner sees it set, under mutex_.
startLoop_return == /\ Owners("waiting", "started")
                    /\ loop_
                    /\ UNCHANGED loop_ /\ UNCHANGED vars

\* The pointer is never published.
threadFunc_Unpublished == /\ Thread("callback", "published")
                          /\ call[LoopThread] = "idle"
                          /\ UNCHANGED loop_ /\ UNCHANGED vars

\* threadFunc: the loop exists, callback_ has returned, loop_ = &loop; notify.
threadFunc == /\ Thread("callback", "published")
              /\ call[LoopThread] = "idle"
              /\ loop_' = TRUE
              /\ UNCHANGED vars

threadFunc_loop == /\ Thread("published", "looping")
                   /\ loop
                   /\ UNCHANGED loop_

\* loop.loop() has returned: loop_ = NULL under mutex_,
threadFunc_clear == /\ Thread("looping", "cleared")
                    /\ ~looping_
                    /\ loop_' = FALSE
                    /\ UNCHANGED vars

\* the mutex is released, the EventLoop destroyed, the thread ends.
threadFunc_return == /\ Thread("cleared", "exited")
                     /\ UNCHANGED loop_ /\ UNCHANGED vars

\* ~EventLoopThread: loop_ is read without the mutex ...
destructor ==
    /\ ownerPc \in {"constructed", "started"} /\ call[Owner] = "idle"
    /\ ownerPc' = IF loop_ THEN "quitting" ELSE "gone"
    /\ UNCHANGED <<loop_, threadPc, userQuit>> /\ UNCHANGED vars

\* ... loop_->quit() sets the flag ...
destructor_quit ==
    /\ Owners("quitting", "waking")
    /\ quit_' = TRUE /\ call' = [call EXCEPT ![Owner] = "quitting"]
    /\ UNCHANGED <<loopPc, activeChannels_, wakeupFd_, pendingFunctors_, batchVars, calls>>
    /\ UNCHANGED loop_

\* The destructor does not join the thread.
destructor_wakeup_NoJoin ==
    /\ Owners("waking", "gone")
    /\ wakeupFd_' = IF threadPc = "exited" THEN wakeupFd_ ELSE wakeupFd_ + 1
    /\ call' = [call EXCEPT ![Owner] = "idle"]
    /\ UNCHANGED <<loopPc, quit_, activeChannels_, pendingFunctors_, batchVars, calls>>
    /\ UNCHANGED loop_

\* ... and writes the eventfd.  The loop may have seen the flag and be gone:
\* the write then goes to a closed descriptor (EventLoop.cc:139-141).
destructor_wakeup ==
    /\ Owners("waking", "joining")
    /\ wakeupFd_' = IF threadPc = "exited" THEN wakeupFd_ ELSE wakeupFd_ + 1
    /\ call' = [call EXCEPT ![Owner] = "idle"]
    /\ UNCHANGED <<loopPc, quit_, activeChannels_, pendingFunctors_, batchVars, calls>>
    /\ UNCHANGED loop_

\* thread_.join() returns when the thread has ended.
destructor_join == /\ Owners("joining", "gone")
                   /\ threadPc = "exited"
                   /\ UNCHANGED loop_ /\ UNCHANGED vars
-----------------------------------------------------------------------------
\* The owner uses the pointer startLoop returned, callback_ and the callbacks
\* of the loop run in the loop thread; nobody uses the loop once it is gone.
UserCall(t) ==
    /\ t = Owner => ownerPc = "started"
    /\ call[t] = "idle" =>
         /\ threadPc # "exited"
         /\ isInLoopThread(t) => threadPc = "callback" \/ looping_
    /\ \/ /\ queueInLoop(t) \/ queueInLoop_wakeup(t) \/ quit_wakeup(t)
          /\ UNCHANGED userQuit
       \/ quit(t) /\ userQuit' = TRUE
    /\ UNCHANGED <<loop_, threadPc, ownerPc>>

Users == {Owner, LoopThread}

Running == /\ LoopStep \/ poll_io \/ poll_timeout
           /\ UNCHANGED threadVars

ThreadStep == threadFunc \/ threadFunc_loop \/ threadFunc_clear \/ threadFunc_return

OwnerStep == \/ startLoop_return
             \/ destructor_quit \/ destructor_wakeup \/ destructor_join

NextThread == \/ startLoop \/ destructor
              \/ OwnerStep \/ ThreadStep \/ Running
              \/ \E t \in Users : UserCall(t)

SpecThread == InitThread /\ [][NextThread]_allVars

\* Both threads are scheduled, epoll_wait returns at the latest after
\* kPollTimeMs, and calls that were begun are finished.
FairThread ==
    /\ SpecThread
    /\ WF_allVars(Running)
    /\ WF_allVars(ThreadStep)
    /\ WF_allVars(OwnerStep)
    /\ \A t \in Users : WF_allVars(call[t] # "idle" /\ UserCall(t))
-----------------------------------------------------------------------------
(***************************************************************************)
(* The destructor calls quit() on an EventLoop that still exists, as long  *)
(* as nobody but the destructor quits the loop.  (The wakeup() inside that *)
(* quit() may come too late: EventLoopThread.cc:30.)                       *)
(***************************************************************************)
QuitOnLiveLoop ==
    ~userQuit /\ ownerPc = "quitting" => threadPc \in {"published", "looping"}

(***************************************************************************)
(* The EventLoopThread, with the mutex_ that threadFunc locks, outlives    *)
(* its thread, as long as nobody but the destructor quits the loop.        *)
(***************************************************************************)
OutlivesThread == ~userQuit /\ ownerPc = "gone" => threadPc \in {"none", "exited"}

(***************************************************************************)
(* startLoop() returns, unless user code quits the loop in its first       *)
(* iterations (loop_ may then be null again when the owner looks).         *)
(***************************************************************************)
StartLoopReturns == ownerPc = "waiting" ~> ownerPc = "started" \/ userQuit

(***************************************************************************)
(* A destructor whose quit() reaches a loop that is looping comes to its   *)
(* end: the loop is left and join() returns (EventLoopThread.cc:26-35).    *)
(***************************************************************************)
QuitOfRunningLoopJoins ==
    ownerPc \in {"waking", "joining"} /\ looping_ /\ quit_ ~> ownerPc = "gone"

(***************************************************************************)
(* ~EventLoopThread calls quit() and joins the thread                      *)
(* (EventLoopThread_unittest.cc:29): every destructor ends, without help   *)
(* from a quit() of user code.  A quit() that comes between startLoop()    *)
(* and loop.loop() is erased by loop(), and the join waits for ever (the   *)
(* FIXME of EventLoop.cc:108).                                             *)
(***************************************************************************)
DestructorEnds ==
    ownerPc \in {"quitting", "waking", "joining"} ~> ownerPc = "gone" \/ userQuit

(***************************************************************************)
(* Lifetimes nest: the destructor calls quit() on a loop that exists, and  *)
(* the object outlives its thread, although ~EventLoopThread reads loop_   *)
(* without mutex_ (EventLoopThread.cc:28).                                 *)
(***************************************************************************)
LifetimesNest == QuitOnLiveLoop /\ OutlivesThread

\* The owner never hangs: startLoop() comes back with a loop, and the
\* destructor whose quit() reaches a running loop joins the thread.
OwnerNeverHangs == StartLoopReturns /\ QuitOfRunningLoopJoins
=============================================================================
