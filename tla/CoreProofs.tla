----------------------------- MODULE CoreProofs -----------------------------
(***************************************************************************)
(* Proofs about EventLoop and the EventLoopThread it runs in, about        *)
(* MutexLock, FileUtil, LogFile and Logging of muduo/base, and about       *)
(* Inspector.  For any threads, channels, sizes and bounds.                *)
(***************************************************************************)
EXTENDS EventLoopThread, MutexLock, FileUtil, LogFile, Logging, Inspector, TLAPS

(***************************************************************************)
(* The inductive strengthening of NoLostWakeup.  NoLostWakeup speaks of    *)
(* the loop in poll(); what carries it there is that from the swap of      *)
(* doPendingFunctors on, every functor pushed into the emptied vector is   *)
(* covered by a wakeup that no handleRead() has consumed.                  *)
(***************************************************************************)
AfterSwap == {"run", "functor", "destroy", "out", "test", "poll"}

\* t is between the push and the write of queueInLoop, and will write.
AboutToWrite(t) == call[t] = "queued" /\ (t = LoopThread => loopPc = "functor")

WakeupCovers ==
    loopPc \in AfterSwap =>
        \A i \in DOMAIN pendingFunctors_ :
            \/ pendingFunctors_[i].silent
            \/ wakeupFd_ > 0
            \/ AboutToWrite(pendingFunctors_[i].by)

\* The loop thread is inside a call only where it runs user code.
LoopThreadCalls ==
    /\ loopPc \in {"test", "poll", "swap", "run"} => call[LoopThread] = "idle"
    /\ call[LoopThread] # "quitting"

\* Each local of loop() and doPendingFunctors() is empty outside its scope.
Scopes ==
    /\ activeChannels_ # {} => loopPc = "handle"
    /\ functors # <<>> => loopPc \in {"run", "functor"}

LoopInv == /\ LoopThreadCalls /\ Scopes
           /\ WakeupCovers /\ QuitNotMissed /\ HandleReadFindsData
-----------------------------------------------------------------------------
\* What the operations on queues return; SequenceTheorems has these facts and
\* many more, which would be in the context of every step below.
LEMMA AppendIsConcat ==
    ASSUME NEW S, NEW q \in Seq(S), NEW x \in S
    PROVE  Append(q, x) = q \o <<x>>
    OBVIOUS

LEMMA ConcatAssociative ==
    ASSUME NEW S, NEW s \in Seq(S), NEW t \in Seq(S), NEW u \in Seq(S)
    PROVE  (s \o t) \o u = s \o (t \o u)
    BY SMTT(30)
-----------------------------------------------------------------------------
\* The functor queueInLoop builds is a Functor while the caller may call.
LEMMA NewFunctorType ==
    ASSUME TypeOK, NEW t \in Callers, MayCall(t)
    PROVE  NewFunctor(t) \in Functor
  BY MaxCallsAssumption DEF TypeOK, MayCall, NewFunctor, Functor, isInLoopThread

\* Every variable keeps its type (all handlers of EventLoop.cc).
THEOREM TypeCorrect == Spec => []TypeOK
<1>1. Init => TypeOK
  <2>1. Init => calls \in [Callers -> 0 .. MaxCalls]
    BY MaxCallsAssumption DEF Init
  <2>2. Init => call \in [Callers -> {"idle", "queued", "quitting"}]
    BY Zenon DEF Init
  <2>3. Init => /\ loopPc \in LoopPcs /\ quit_ \in BOOLEAN
    BY Zenon DEF Init, LoopPcs
  <2>6. Init => activeChannels_ \subseteq Channels /\ wakeupFd_ \in Nat
    BY DEF Init
  <2>4. Init => /\ pendingFunctors_ \in Seq(Functor) /\ functors \in Seq(Functor)
                /\ spent \in Seq(Functor) /\ ran \in Seq(Functor)
    BY DEF Init
  <2>7. QED
    BY <2>1, <2>2, <2>3, <2>4, <2>6, Zenon DEF TypeOK
<1>2. TypeOK /\ [Next]_vars => TypeOK'
  <2> SUFFICES ASSUME TypeOK, [Next]_vars
               PROVE  TypeOK'
    BY Zenon
  <2> USE DEF TypeOK, batchVars, callVars, LoopPcs, Goto
  <2>1. CASE loop
    BY <2>1, Zenon DEF loop
  <2>2. CASE loop_test
    BY <2>2, Zenon DEF loop_test
  <2>3. ASSUME NEW active \in SUBSET Channels, poll(active)
        PROVE  TypeOK'
    BY <2>3, Zenon DEF poll
  <2>4. CASE poll_wakeup
    BY <2>3, <2>4, Zenon DEF poll_wakeup, Channels
  <2>5. CASE poll_io
    BY <2>3, <2>5, Zenon DEF poll_io, Channels
  <2>6. CASE poll_timeout
    BY <2>3, <2>6, Zenon DEF poll_timeout
  <2>7. ASSUME NEW c \in IOChannels, handleEvent(c)
        PROVE  TypeOK'
    BY <2>7, Zenon DEF handleEvent
  <2>8. CASE handleRead
    BY <2>8, Zenon DEF handleRead
  <2>9. CASE doPendingFunctors
    BY <2>9, Zenon DEF doPendingFunctors
  <2>10. CASE doPendingFunctors_swap
    BY <2>10 DEF doPendingFunctors_swap
  <2>11. CASE functor
    BY <2>11, SMTT(30) DEF functor
  <2>12. CASE functor_return
    BY <2>12, Zenon DEF functor_return
  <2>13. CASE doPendingFunctors_end
    BY <2>13, Zenon DEF doPendingFunctors_end
  <2>14. CASE doPendingFunctors_return
    BY <2>14 DEF doPendingFunctors_return
  <2>15. ASSUME NEW t \in Callers, queueInLoop(t)
         PROVE  TypeOK'
    <3>1. NewFunctor(t) \in Functor
      BY <2>15, NewFunctorType, Zenon DEF queueInLoop
    <3>2. calls' \in [Callers -> 0 .. MaxCalls]
      BY <2>15, MaxCallsAssumption DEF queueInLoop, MayCall
    <3>3. QED
      BY <2>15, <3>1, <3>2 DEF queueInLoop
  <2>16. ASSUME NEW t \in Callers, queueInLoop_wakeup(t)
         PROVE  TypeOK'
    BY <2>16 DEF queueInLoop_wakeup
  <2>17. ASSUME NEW t \in Callers, quit(t)
         PROVE  TypeOK'
    <3>1. calls' \in [Callers -> 0 .. MaxCalls]
      BY <2>17, MaxCallsAssumption DEF quit, MayCall
    <3>2. QED
      BY <2>17, <3>1, Zenon DEF quit
  <2>18. ASSUME NEW t \in Callers, quit_wakeup(t)
         PROVE  TypeOK'
    BY <2>18 DEF quit_wakeup
  <2>19. CASE UNCHANGED vars
    BY <2>19, Zenon DEF vars
  <2>20. QED
    BY Zenon, <2>1, <2>2, <2>4, <2>5, <2>6, <2>7, <2>8, <2>9, <2>10, <2>11, <2>12,
       <2>13, <2>14, <2>15, <2>16, <2>17, <2>18, <2>19
       DEF Next, LoopStep, CallStep
<1>3. QED
  BY <1>1, <1>2, PTL DEF Spec
-----------------------------------------------------------------------------
\* The calls of the threads preserve the invariant.
LEMMA CallStepInv ==
    ASSUME TypeOK, TypeOK', LoopInv, NEW t \in Callers, CallStep(t)
    PROVE  LoopInv'
<1> USE DEF LoopInv, batchVars, callVars
<1>1. CASE queueInLoop(t)
  <2>1. LoopThreadCalls' /\ Scopes' /\ QuitNotMissed' /\ HandleReadFindsData'
    BY <1>1, ThreadsAssumption, Zenon DEF queueInLoop, MayCall, InUserCode, isInLoopThread,
       LoopThreadCalls, Scopes, QuitNotMissed, HandleReadFindsData, Callers,
       TypeOK, eventHandling_
  <2>2. WakeupCovers'
    <3> SUFFICES ASSUME loopPc \in AfterSwap, NEW i \in DOMAIN pendingFunctors_'
                 PROVE  \/ pendingFunctors_'[i].silent
                        \/ wakeupFd_' > 0
                        \/ AboutToWrite(pendingFunctors_[i].by)'
      BY <1>1, Zenon DEF WakeupCovers, queueInLoop
    <3>1. /\ NewFunctor(t) \in Functor /\ NewFunctor(t).by = t
          /\ pendingFunctors_' = Append(pendingFunctors_, NewFunctor(t))
      BY <1>1, NewFunctorType, Zenon DEF queueInLoop, NewFunctor
    <3>2. /\ i \in DOMAIN pendingFunctors_ \/ i = Len(pendingFunctors_) + 1
          /\ i \in DOMAIN pendingFunctors_ => pendingFunctors_'[i] = pendingFunctors_[i]
          /\ i = Len(pendingFunctors_) + 1 => pendingFunctors_'[i] = NewFunctor(t)
      BY <3>1, SMTT(30) DEF TypeOK
    <3>3. CASE i \in DOMAIN pendingFunctors_
      BY <1>1, <3>2, <3>3 DEF WakeupCovers, AboutToWrite, queueInLoop, TypeOK
    <3>4. CASE i = Len(pendingFunctors_) + 1
      <4>1. CASE t = LoopThread /\ loopPc # "functor"
        <5>1. loopPc \in {"out", "destroy"}
          BY <1>1, <4>1, Zenon DEF queueInLoop, AfterSwap, MayCall, InUserCode,
             eventHandling_, isInLoopThread
        <5>2. NewFunctor(t).silent
          BY <4>1, <5>1, Zenon DEF NewFunctor, isInLoopThread
        <5>3. QED
          BY <3>2, <3>4, <5>2, Zenon
      <4>2. CASE ~(t = LoopThread /\ loopPc # "functor")
        BY <1>1, <3>1, <3>2, <3>4, <4>2 DEF queueInLoop, TypeOK, AboutToWrite
      <4>3. QED
        BY <4>1, <4>2, Zenon
    <3>5. QED
      BY <3>2, <3>3, <3>4, Zenon
  <2>3. QED
    BY <2>1, <2>2, Zenon
<1>2. CASE queueInLoop_wakeup(t)
  <2>1. LoopThreadCalls' /\ Scopes' /\ QuitNotMissed' /\ HandleReadFindsData'
    BY <1>2, ThreadsAssumption DEF queueInLoop_wakeup,
       LoopThreadCalls, Scopes, QuitNotMissed, HandleReadFindsData, Callers, TypeOK
  <2>2. WakeupCovers'
    BY <1>2 DEF queueInLoop_wakeup, NeedsWakeup, WakeupCovers, AboutToWrite, TypeOK,
       LoopThreadCalls, callingPendingFunctors_, isInLoopThread
  <2>3. QED
    BY <2>1, <2>2, Zenon
<1>3. CASE quit(t)
  <2>1. /\ UNCHANGED <<loopPc, activeChannels_, wakeupFd_, pendingFunctors_, functors>>
        /\ quit_' = TRUE /\ call[t] = "idle"
        /\ call' = [call EXCEPT ![t] = IF isInLoopThread(t) THEN "idle" ELSE "quitting"]
    BY <1>3, Zenon DEF quit, MayCall
  <2>2. \A u \in Callers : call'[u] = call[u] \/ (u = t /\ u # LoopThread)
    BY <2>1, Zenon DEF TypeOK, isInLoopThread
  <2>3. LoopThreadCalls'
    BY <2>1, <2>2, Zenon DEF LoopThreadCalls, Callers
  <2>4. Scopes' /\ HandleReadFindsData'
    BY <2>1, Zenon DEF Scopes, HandleReadFindsData
  <2>5. QuitNotMissed'
    BY <1>3, <2>1, ThreadsAssumption, Zenon DEF QuitNotMissed, quit, MayCall, InUserCode,
       isInLoopThread, eventHandling_, Callers, TypeOK
  <2>6. WakeupCovers'
    <3> SUFFICES ASSUME loopPc \in AfterSwap, NEW i \in DOMAIN pendingFunctors_
                 PROVE  \/ pendingFunctors_[i].silent
                        \/ wakeupFd_ > 0
                        \/ AboutToWrite(pendingFunctors_[i].by)'
      BY <2>1, Zenon DEF WakeupCovers
    <3>1. call[t] = "idle" /\ t \in Callers
      BY <2>1, Zenon
    <3>2. \A u \in Callers : AboutToWrite(u) => AboutToWrite(u)'
      BY <2>1, <2>2, <3>1, Zenon DEF AboutToWrite
    <3>3. pendingFunctors_[i] \in Functor
      BY SMTT(30) DEF TypeOK
    <3>4. pendingFunctors_[i].by \in Callers
      BY <3>3, Zenon DEF Functor
    <3>5. QED
      BY <2>1, <3>2, <3>4, Zenon DEF WakeupCovers
  <2>7. QED
    BY <2>3, <2>4, <2>5, <2>6, Zenon
<1>4. CASE quit_wakeup(t)
  <2>1. LoopThreadCalls' /\ Scopes' /\ HandleReadFindsData'
    BY <1>4 DEF quit_wakeup, LoopThreadCalls, Scopes, HandleReadFindsData, Callers, TypeOK
  <2>2. QuitNotMissed' /\ WakeupCovers'
    <3>1. wakeupFd_' > 0
      BY <1>4 DEF quit_wakeup, TypeOK
    <3>2. QED
      BY <3>1, <1>4, Zenon DEF QuitNotMissed, WakeupCovers
  <2>3. QED
    BY <2>1, <2>2, Zenon
<1>5. QED
  BY <1>1, <1>2, <1>3, <1>4, Zenon DEF CallStep

\* So do the steps of the loop thread and of the poller.
LEMMA LoopStepInv ==
    ASSUME TypeOK, TypeOK', LoopInv, loop \/ LoopStep \/ poll_io \/ poll_timeout
    PROVE  LoopInv'
<1> USE DEF LoopInv, batchVars, callVars, Goto, LoopThreadCalls, Scopes,
        WakeupCovers, AboutToWrite, AfterSwap, QuitNotMissed, HandleReadFindsData
<1>1. CASE loop
  BY <1>1, Zenon DEF loop
<1>2. CASE loop_test
  BY <1>2, Zenon DEF loop_test
<1>3. CASE poll_wakeup
  BY <1>3, Zenon DEF poll_wakeup, poll
<1>4. CASE poll_io
  BY <1>4, ChannelsAssumption, Zenon DEF poll_io, poll
<1>5. CASE poll_timeout
  BY <1>5, Zenon DEF poll_timeout, poll
<1>6. ASSUME NEW c \in IOChannels, handleEvent(c)
      PROVE  LoopInv'
  BY <1>6, ZenonT(30) DEF handleEvent
<1>7. CASE handleRead
  BY <1>7, Zenon DEF handleRead
<1>8. CASE doPendingFunctors
  BY <1>8, Zenon DEF doPendingFunctors
<1>9. CASE doPendingFunctors_swap
  BY <1>9 DEF doPendingFunctors_swap
<1>10. CASE functor
  BY <1>10, Zenon DEF functor
<1>11. CASE functor_return
  BY <1>11, Zenon DEF functor_return
<1>12. CASE doPendingFunctors_end
  BY <1>12, Zenon DEF doPendingFunctors_end
<1>13. CASE doPendingFunctors_return
  BY <1>13, Zenon DEF doPendingFunctors_return
<1>14. QED
  BY Zenon, <1>1, <1>2, <1>3, <1>4, <1>5, <1>6, <1>7, <1>8, <1>9, <1>10, <1>11,
     <1>12, <1>13 DEF LoopStep

(***************************************************************************)
(* The inductive invariant of loop(), queueInLoop(), quit() and            *)
(* doPendingFunctors(): every functor that is not silent is covered by a   *)
(* wakeup, a write about to come, or a doPendingFunctors() still ahead.    *)
(***************************************************************************)
THEOREM LoopInvariant == Spec => []LoopInv
<1>1. Init => LoopInv
  BY DEF Init, LoopInv, LoopThreadCalls, Scopes, WakeupCovers, QuitNotMissed,
     HandleReadFindsData, Callers
<1>2. TypeOK /\ TypeOK' /\ LoopInv /\ [Next]_vars => LoopInv'
  <2>1. CASE UNCHANGED vars
    BY <2>1, Zenon DEF vars, LoopInv, LoopThreadCalls, Scopes, WakeupCovers,
       AboutToWrite, QuitNotMissed, HandleReadFindsData
  <2>2. QED
    BY <2>1, CallStepInv, LoopStepInv, Zenon DEF Next
<1>3. QED
  BY <1>1, <1>2, TypeCorrect, PTL DEF Spec

(***************************************************************************)
(* poll() never sleeps over a functor queueInLoop() owes a wakeup, for any *)
(* number of threads, channels and calls.                                  *)
(***************************************************************************)
THEOREM NoWakeupIsLost == Spec => []NoLostWakeup
<1>1. TypeOK /\ LoopInv => NoLostWakeup
  <2> SUFFICES ASSUME TypeOK, LoopInv, loopPc = "poll",
                      NEW i \in DOMAIN pendingFunctors_
               PROVE  \/ pendingFunctors_[i].silent
                      \/ wakeupFd_ > 0
                      \/ /\ pendingFunctors_[i].by \in Threads
                         /\ call[pendingFunctors_[i].by] = "queued"
    BY Zenon DEF NoLostWakeup
  <2>1. pendingFunctors_[i] \in Functor
    BY DEF TypeOK
  <2>2. pendingFunctors_[i].by \in Callers
    BY <2>1, Zenon DEF Functor
  <2>3. QED
    BY <2>2, Zenon DEF LoopInv, WakeupCovers, AboutToWrite, AfterSwap, Callers
<1>2. QED
  BY <1>1, TypeCorrect, LoopInvariant, PTL

\* poll() never sleeps over a quit() (EventLoop.cc:136-146).
THEOREM QuitIsNotMissed == Spec => []QuitNotMissed
BY LoopInvariant, PTL DEF LoopInv

\* handleRead() always finds the eventfd readable (EventLoop.cc:244-252).
THEOREM HandleReadAlwaysFindsData == Spec => []HandleReadFindsData
BY LoopInvariant, PTL DEF LoopInv
-----------------------------------------------------------------------------
\* Appending to the second of two concatenated sequences appends to the whole.
LEMMA ConcatAppend ==
    ASSUME NEW S, NEW s \in Seq(S), NEW u \in Seq(S), NEW e \in S
    PROVE  s \o Append(u, e) = Append(s \o u, e)
<1>1. Append(u, e) = u \o <<e>>
  BY AppendIsConcat, Zenon
<1>2. s \o u \in Seq(S) /\ <<e>> \in Seq(S)
  OBVIOUS
<1>3. Append(s \o u, e) = (s \o u) \o <<e>>
  BY <1>2, AppendIsConcat, Zenon
<1>4. QED
  BY <1>1, <1>2, <1>3, ConcatAssociative

(***************************************************************************)
(* queueInLoop() and doPendingFunctors() implement a FIFO task queue: the  *)
(* mapping takes the functors swapped out and the pending ones, in this    *)
(* order, for the abstract queue.                                          *)
(***************************************************************************)
THEOREM LoopIsATaskQueue == Spec => ImplementsTaskQueue
<1>1. Init => Abstract!Init
  BY DEF Init, Abstract!Init
<1>2. ASSUME TypeOK, LoopInv, [Next]_vars
      PROVE  [Abstract!Next]_(Abstract!vars)
  <2> DEFINE queue == functors \o pendingFunctors_
  <2> USE <1>2 DEF Abstract!vars, batchVars, callVars
  <2>1. ASSUME NEW t \in Callers, queueInLoop(t)
        PROVE  Abstract!Next
    <3>1. NewFunctor(t) \in Functor
      BY <2>1, NewFunctorType, Zenon DEF queueInLoop
    <3>2. queue' = Append(queue, NewFunctor(t))
      BY <2>1, <3>1, ConcatAppend, SMTT(30) DEF queueInLoop, TypeOK
    <3>3. QED
      BY <2>1, <3>1, <3>2, Zenon DEF queueInLoop, Abstract!Next, Abstract!Submit
  <2>2. CASE functor
    <3>1. /\ queue # <<>> /\ Head(queue) = Head(functors)
          /\ Tail(queue) = Tail(functors) \o pendingFunctors_
      BY <2>2, SMTT(30) DEF functor, TypeOK
    <3>2. QED
      BY <2>2, <3>1, Zenon DEF functor, Abstract!Next, Abstract!Run
  <2>3. CASE doPendingFunctors_swap
    <3>1. functors = <<>>
      BY <2>3, Zenon DEF doPendingFunctors_swap, Goto, LoopInv, Scopes
    <3>2. queue' = queue
      BY <2>3, <3>1 DEF doPendingFunctors_swap, TypeOK
    <3>3. QED
      BY <2>3, <3>2, Zenon DEF doPendingFunctors_swap
  <2>4. ASSUME UNCHANGED <<functors, pendingFunctors_, ran>>
        PROVE  UNCHANGED Abstract!vars
    BY <2>4, Zenon
  <2>5. CASE \/ loop \/ loop_test \/ poll_wakeup \/ poll_io \/ poll_timeout
             \/ handleRead \/ \E c \in IOChannels : handleEvent(c)
    BY <2>4, <2>5, Zenon DEF loop, loop_test, poll_wakeup, poll_io, poll_timeout, poll,
       handleRead, handleEvent
  <2>6. CASE \/ doPendingFunctors \/ functor_return
             \/ doPendingFunctors_end \/ doPendingFunctors_return
    BY <2>4, <2>6, Zenon DEF doPendingFunctors, functor_return,
       doPendingFunctors_end, doPendingFunctors_return
  <2>7. ASSUME NEW t \in Callers, queueInLoop_wakeup(t) \/ quit(t) \/ quit_wakeup(t)
        PROVE  UNCHANGED Abstract!vars
    BY <2>4, <2>7, Zenon DEF queueInLoop_wakeup, quit, quit_wakeup
  <2>8. CASE UNCHANGED vars
    BY <2>4, <2>8, Zenon DEF vars
  <2>9. QED
    BY <2>1, <2>2, <2>3, <2>5, <2>6, <2>7, <2>8, Zenon DEF Next, LoopStep, CallStep
<1>3. QED
  BY <1>1, <1>2, TypeCorrect, LoopInvariant, PTL DEF Spec, ImplementsTaskQueue, Abstract!Spec
-----------------------------------------------------------------------------
(***************************************************************************)
(* The lifetimes of an EventLoopThread, of its thread and of the EventLoop *)
(* on that thread's stack nest, for any threads, channels and calls.       *)
(***************************************************************************)
BeforeLoop == {"none", "callback", "published"}

\* loop_ points to the EventLoop from its publication to the end of loop(),
\* and loop() runs only inside threadFunc.
PointerIsLoop == /\ loop_ <=> threadPc \in {"published", "looping"}
                 /\ threadPc \in BeforeLoop => loopPc = "out"

\* There is a thread once startLoop was called.
ThreadOfOwner == /\ ownerPc = "constructed" => threadPc = "none"
                 /\ ownerPc \notin {"constructed", "gone"} => threadPc # "none"

\* Until the destructor calls quit() nobody has: the loop, once entered, is
\* not left, and a started owner holds a pointer to it.
NotQuitYet ==
    ~userQuit /\ ownerPc \in {"constructed", "waiting", "started", "quitting"} =>
        /\ ~quit_
        /\ threadPc \in BeforeLoop \cup {"looping"}
        /\ threadPc = "looping" => loopPc # "out"
        /\ ownerPc \in {"started", "quitting"} => loop_

ThreadInv == /\ userQuit \in BOOLEAN
             /\ PointerIsLoop /\ ThreadOfOwner /\ NotQuitYet /\ OutlivesThread
-----------------------------------------------------------------------------
\* A step of loop() is taken inside loop(), leaves it only from the test of
\* a quit_ that is set, and writes no quit_ (EventLoop.cc:103-134).
LEMMA LoopStepInside ==
    ASSUME LoopStep \/ poll_io \/ poll_timeout
    PROVE  /\ loopPc # "out" /\ quit_' = quit_
           /\ loopPc' = "out" => quit_
<1>1. CASE loop_test
  BY <1>1, Zenon DEF loop_test, Goto
<1>2. CASE poll_wakeup \/ poll_io \/ poll_timeout
  BY <1>2, Zenon DEF poll_wakeup, poll_io, poll_timeout, poll, Goto
<1>3. CASE handleRead \/ \E c \in IOChannels : handleEvent(c)
  BY <1>3, Zenon DEF handleRead, handleEvent, Goto
<1>4. CASE doPendingFunctors \/ doPendingFunctors_swap
  BY <1>4, Zenon DEF doPendingFunctors, doPendingFunctors_swap, Goto
<1>5. CASE functor \/ functor_return
  BY <1>5, Zenon DEF functor, functor_return, Goto
<1>6. CASE doPendingFunctors_end \/ doPendingFunctors_return
  BY <1>6, Zenon DEF doPendingFunctors_end, doPendingFunctors_return, Goto
<1>7. QED
  BY <1>1, <1>2, <1>3, <1>4, <1>5, <1>6, Zenon DEF LoopStep

\* An EventLoopThread is constructed without a thread (EventLoopThread.cc:16-24).
LEMMA InitThreadInv == InitThread => ThreadInv
  BY Zenon DEF InitThread, Init, ThreadInv, PointerIsLoop, ThreadOfOwner, NotQuitYet,
         OutlivesThread, BeforeLoop

\* Each step of the owner, in startLoop and in the destructor, keeps the
\* invariant (EventLoopThread.cc:26-50).
LEMMA OwnerKeeps ==
    ASSUME ThreadInv, startLoop \/ destructor \/ OwnerStep
    PROVE  ThreadInv'
<1> USE DEF ThreadInv, PointerIsLoop, ThreadOfOwner, NotQuitYet, OutlivesThread, BeforeLoop
<1>1. CASE startLoop
  BY <1>1, Zenon DEF startLoop, vars
<1>2. CASE destructor
  BY <1>2, Zenon DEF destructor, vars
<1>3. CASE startLoop_return
  BY <1>3, Zenon DEF startLoop_return, Owners, vars
<1>4. CASE destructor_quit
  BY <1>4, Zenon DEF destructor_quit, Owners
<1>5. CASE destructor_wakeup
  BY <1>5, Zenon DEF destructor_wakeup, Owners
<1>6. CASE destructor_join
  BY <1>6, ZenonT(30) DEF destructor_join, Owners, vars
<1>7. QED
  BY <1>1, <1>2, <1>3, <1>4, <1>5, <1>6, Zenon DEF OwnerStep

\* Each step of threadFunc keeps the invariant (EventLoopThread.cc:52-67).
LEMMA ThreadKeeps ==
    ASSUME ThreadInv, ThreadStep
    PROVE  ThreadInv'
<1> USE DEF ThreadInv, PointerIsLoop, ThreadOfOwner, NotQuitYet, OutlivesThread, BeforeLoop
<1>1. CASE threadFunc
  BY <1>1, Zenon DEF threadFunc, Thread, vars
<1>2. CASE threadFunc_loop
  BY <1>2, Zenon DEF threadFunc_loop, Thread, loop, Goto
<1>3. CASE threadFunc_clear
  BY <1>3, Zenon DEF threadFunc_clear, Thread, looping_, vars
<1>4. CASE threadFunc_return
  BY <1>4, Zenon DEF threadFunc_return, Thread, vars
<1>5. QED
  BY <1>1, <1>2, <1>3, <1>4, Zenon DEF ThreadStep

\* So do the loop itself and the calls of user code, which enter and leave
\* no loop; a quit() of theirs is remembered in userQuit.
LEMMA LoopKeeps ==
    ASSUME ThreadInv, Running \/ \E t \in Users : UserCall(t)
    PROVE  ThreadInv'
<1> USE DEF ThreadInv, PointerIsLoop, ThreadOfOwner, NotQuitYet, OutlivesThread, BeforeLoop
<1>1. CASE Running
  <2>1. /\ loopPc # "out" /\ quit_' = quit_
        /\ loopPc' = "out" => quit_
    BY <1>1, LoopStepInside, Zenon DEF Running
  <2>2. UNCHANGED <<loop_, threadPc, ownerPc, userQuit>>
    BY <1>1, Zenon DEF Running, threadVars
  <2>3. QED
    BY <2>1, <2>2, Zenon
<1>2. ASSUME NEW t \in Users, UserCall(t)
      PROVE  ThreadInv'
  <2>1. UNCHANGED <<loop_, threadPc, ownerPc>> /\ loopPc' = loopPc
    BY <1>2, Zenon DEF UserCall, queueInLoop, queueInLoop_wakeup, quit, quit_wakeup
  <2>2. (quit_' = quit_ /\ userQuit' = userQuit) \/ userQuit' = TRUE
    BY <1>2, Zenon DEF UserCall, queueInLoop, queueInLoop_wakeup, quit_wakeup
  <2>3. CASE quit_' = quit_ /\ userQuit' = userQuit
    BY <2>1, <2>3, Zenon
  <2>4. CASE userQuit' = TRUE
    BY <2>1, <2>4, Zenon
  <2>5. QED
    BY <2>2, <2>3, <2>4, ZenonT(30)
<1>3. QED
  BY <1>1, <1>2, Zenon

(***************************************************************************)
(* The destructor's quit() finds an EventLoop that exists, and the         *)
(* EventLoopThread outlives its thread, unless user code quits the loop    *)
(* itself (EventLoopThread.cc:26-35, 52-67), although loop_ is read there  *)
(* without mutex_.                                                         *)
(***************************************************************************)
THEOREM LifetimesAlwaysNest == SpecThread => []LifetimesNest
<1>1. ThreadInv /\ [NextThread]_allVars => ThreadInv'
  <2>1. SUFFICES ASSUME ThreadInv, [NextThread]_allVars
                 PROVE  ThreadInv'
    BY Zenon
  <2>2. CASE UNCHANGED allVars
    BY <2>1, <2>2, Zenon DEF allVars, vars, threadVars, ThreadInv, PointerIsLoop, ThreadOfOwner,
                      NotQuitYet, OutlivesThread
  <2>3. CASE NextThread
    BY <2>1, <2>3, OwnerKeeps, ThreadKeeps, LoopKeeps, Zenon DEF NextThread
  <2>4. QED
    BY <2>1, <2>2, <2>3, ZenonT(30)
<1>2. ThreadInv => LifetimesNest
  BY Zenon DEF ThreadInv, PointerIsLoop, NotQuitYet, LifetimesNest, QuitOnLiveLoop
<1>3. QED
  BY InitThreadInv, <1>1, <1>2, PTL DEF SpecThread
-----------------------------------------------------------------------------
(***************************************************************************)
(* Mutual exclusion and the holder of a MutexLock, proved for any number   *)
(* of threads.                                                             *)
(***************************************************************************)
\* The places from pthread_mutex_lock to pthread_mutex_unlock.
Owning == {"locked", "inside", "unlocking", "waiting"}
Places == Owning \cup {"outside", "asleep", "woken"}

\* The threads between the two are those the pthread mutex belongs to, so
\* there is at most one, and holder_ changes in its hands only.
LockInv == /\ lockAt \in [Lockers -> Places]
           /\ \A t \in Lockers : mutex_ = t <=> lockAt[t] \in Owning
           /\ HolderIsInside

\* Initially nobody is inside.
LEMMA InitLockInv == LockInit => LockInv
BY NobodyAssumption, ZenonT(30) DEF LockInit, LockInv, HolderIsInside, Owning, Places

\* No step of lock, unlock or a wait on a condition lets a second thread in
\* or leaves holder_ behind.
LEMMA NextLockInv == LockInv /\ [LockNext]_lockVars => LockInv'
<1> SUFFICES ASSUME LockInv, [LockNext]_lockVars PROVE LockInv'
    BY Zenon
<1> USE NobodyAssumption DEF LockInv, HolderIsInside, Owning, Places
<1>1. ASSUME NEW t \in Lockers, acquire(t) PROVE LockInv'
    BY <1>1, Zenon DEF acquire, At
<1>2. ASSUME NEW t \in Lockers, assignHolder(t) PROVE LockInv'
    BY <1>2, Zenon DEF assignHolder, At
<1>3. ASSUME NEW t \in Lockers, NEW to \in {"unlocking", "waiting"}, unassignHolder(t, to)
      PROVE  LockInv'
    BY <1>3, Zenon DEF unassignHolder, At
<1>4. ASSUME NEW t \in Lockers, release(t) PROVE LockInv'
    BY <1>4, Zenon DEF release, At
<1>5. ASSUME NEW t \in Lockers, wake(t) PROVE LockInv'
    BY <1>5, Zenon DEF wake, At
<1>6. CASE UNCHANGED lockVars
    BY <1>6, Zenon DEF lockVars
<1> QED
    BY <1>1, <1>2, <1>3, <1>4, <1>5, <1>6, Zenon DEF LockNext

\* isLockedByThisThread() is true exactly in the thread that is between lock()
\* and unlock() and not in a wait, for any number of threads.
THEOREM HolderAlwaysInside == LockSpec => []HolderIsInside
<1>1. LockInv => HolderIsInside
    BY Zenon DEF LockInv
<1> QED
    BY <1>1, InitLockInv, NextLockInv, PTL DEF LockSpec
-----------------------------------------------------------------------------
(***************************************************************************)
(* FileUtil: a file is read up to the limit, for any sizes and limit.      *)
(***************************************************************************)
\* What was read is no more than the limit and the file; readToString ends
\* without an error only at one of the two.
ReadTypes ==
    /\ disk \in Nat /\ content \in Nat /\ atStart \in Nat /\ maxSize \in Nat /\ nul \in Int
    /\ reading \in {"no", "read", "done"} /\ err \in BOOLEAN
    /\ content <= maxSize /\ content <= disk /\ atStart <= disk

ReadInv == ReadTypes /\ FilesReadWhole

LEMMA ReadInitially == ReadInit => ReadInv
<1> SUFFICES ASSUME ReadInit PROVE ReadInv
  BY Zenon
<1>1. /\ disk \in Nat /\ maxSize \in Nat /\ reading = "no" /\ content = 0 /\ atStart = 0 /\ nul = -1
      /\ kBufferSize \in Nat \ {0}
  BY ReadAssumption DEF ReadInit
<1>2. err = FALSE
  BY Zenon DEF ReadInit
<1>3. err \in BOOLEAN
  BY <1>2, Zenon
<1>4. reading # "done"
  BY <1>1, ZenonT(30)
<1>5. QED
  BY <1>1, <1>3, <1>4 DEF ReadInv, ReadTypes, FilesReadWhole, ReadsToTheEnd, EndsInBuffer

LEMMA ReadStep == ReadInv /\ [ReadNext]_readVars => ReadInv'
<1> SUFFICES ASSUME ReadInv, [ReadNext]_readVars PROVE ReadInv'
  BY Zenon
<1> USE DEF ReadInv, ReadTypes, FilesReadWhole, ReadsToTheEnd, EndsInBuffer
<1>1. CASE grow
  BY <1>1 DEF grow
<1>2. CASE readToString
  <2>1. /\ atStart' = disk /\ UNCHANGED <<disk, maxSize, content, nul>>
        /\ reading' \in {"read", "done"}
    BY <1>2, Zenon DEF readToString
  <2>2. err' \in BOOLEAN
    BY <1>2, Zenon DEF readToString
  <2>3. reading' = "done" => err'
    BY <1>2, Zenon DEF readToString
  <2>4. QED
    BY <2>1, <2>2, <2>3
<1>3. CASE readLoop
  <2>1. UNCHANGED <<disk, maxSize, atStart, nul>> /\ reading = "read"
    BY <1>3, Zenon DEF readLoop
  <2>2. CASE content >= maxSize
    <3>1. reading' = "done" /\ UNCHANGED <<content, err>>
      BY <1>3, <2>2, ZenonT(30) DEF readLoop
    <3>2. QED
      BY <2>1, <2>2, <3>1
  <2>3. CASE ~(content >= maxSize)
    <3> DEFINE left == disk - content
               most == IF left < toRead THEN left ELSE toRead
    <3>1. PICK n \in IF fd_ = "directory" THEN {-1} ELSE {-1} \cup (IF most = 0 THEN {0} ELSE 1 .. most) :
             /\ content' = IF n > 0 THEN content + n ELSE content
             /\ err' = (err \/ n < 0)
             /\ reading' = IF ends(n) THEN "done" ELSE "read"
      BY <1>3, <2>3, ZenonT(30) DEF readLoop
    <3>2. toRead \in Nat \ {0} /\ toRead <= maxSize - content
      BY <2>3, ReadAssumption DEF toRead
    <3>3. most \in Nat /\ most <= disk - content /\ most <= maxSize - content
          /\ (most = 0 => content = disk)
      BY <3>2
    <3> HIDE DEF most
    <3>4. n = -1 \/ (n = 0 /\ most = 0) \/ n \in 1 .. most
      BY <3>1, <3>3, Zenon
    <3>5. n \in Int
      BY <3>3, <3>4
    <3>6. err' \in BOOLEAN /\ (n = -1 => err')
      <4>1. n = -1 => n < 0
        BY <3>5
      <4>2. err' = (err \/ n < 0)
        BY <3>1, ZenonT(30)
      <4>3. QED
        BY <4>1, <4>2, Zenon
    <3>7. content' \in Nat /\ content' <= maxSize /\ content' <= disk /\ reading' \in {"read", "done"}
          /\ (reading' = "done" => n <= 0) /\ (n <= 0 => content' = content)
      BY <3>1, <3>3, <3>4 DEF ends
    <3>8. reading' = "done" => err' \/ content' >= atStart
      BY <3>3, <3>4, <3>6, <3>7
    <3>9. QED
      BY <2>1, <3>6, <3>7, <3>8, ZenonT(30)
  <2>4. QED
    BY <2>2, <2>3, ZenonT(30)
<1>4. CASE readToBuffer
  <2>1. UNCHANGED <<disk, reading, maxSize, content, err, atStart>> /\ nul' \in Int /\ nul' < kBufferSize
    BY <1>4, ReadAssumption DEF readToBuffer, readsToBuffer
  <2>2. QED
    BY <2>1, Zenon
<1>5. CASE UNCHANGED readVars
  BY <1>5, Zenon DEF readVars
<1>6. QED
  BY <1>1, <1>2, <1>3, <1>4, <1>5, Zenon DEF ReadNext

\* However short the reads and however the file grows meanwhile,
\* readToString ends with maxSize bytes or all the file had at the call, or
\* with an error, and readToBuffer puts its NUL inside buf_.
THEOREM FilesReadWholeTheorem == ReadSpec => []FilesReadWhole
BY ReadInitially, ReadStep, PTL DEF ReadSpec, ReadInv
-----------------------------------------------------------------------------
(***************************************************************************)
(* LogFile: a log file is rolled in its period, for any sizes and period.  *)
(***************************************************************************)
FileTypes ==
    /\ lineCount_ \in Nat /\ startOfPeriod_ \in Int /\ lastRoll_ \in Nat /\ lastFlush_ \in Nat
    /\ writtenBytes_ \in Nat /\ now \in Nat /\ lastAppend \in Nat /\ overdue \in Nat

\* The file was begun in its period and flushed since, and no line has been
\* waiting for longer than lineCount_ tells.
FileInv == /\ FileTypes /\ OverfullForASecond
           /\ lastRoll_ <= now /\ lastRoll_ <= lastFlush_ /\ startOfPeriod_ = StartOf(lastRoll_)
           /\ overdue <= lineCount_ /\ lineCount_ < checkEveryN_

LEMMA StartOfInt == ASSUME NEW t \in Nat PROVE StartOf(t) \in Int
BY FileAssumption DEF StartOf

LEMMA FileInitially == FileInit => FileInv
<1> SUFFICES ASSUME FileInit PROVE FileInv
  BY Zenon
<1>1. now \in Nat /\ StartOf(now) \in Int
  BY StartOfInt DEF FileInit
<1>2. QED
  BY <1>1, FileAssumption DEF FileInit, FileInv, FileTypes, OverfullForASecond

LEMMA FileStep == FileInv /\ [FileNext]_fileVars => FileInv'
<1> SUFFICES ASSUME FileInv, [FileNext]_fileVars PROVE FileInv'
  BY Zenon
<1> USE DEF FileInv, FileTypes, OverfullForASecond
<1>1. CASE tick
  BY <1>1 DEF tick
<1>2. ASSUME NEW line_ \in 1 .. 2, append_unlocked(line_) PROVE FileInv'
  <2>1. PICK len \in 0 .. line_ : logs(len, writtenBytes_ + len > rollSize_, checkEveryN_)
    BY <1>2, Zenon DEF append_unlocked, fileAppend
  <2>2. PICK begin \in Int : begin = StartOf(now)
    BY StartOfInt, ZenonT(30)
  <2>3. /\ lastAppend' = now /\ now' = now /\ len \in Nat
        /\ overdue' = IF begin # startOfPeriod_' \/ now - lastFlush_' > flushInterval_
                      THEN overdue + 1 ELSE 0
    BY <2>1, <2>2 DEF logs
  <2>4. now = lastRoll_ => begin = startOfPeriod_
    BY <2>2, Zenon
  <2>5. ASSUME rollFile, now <= lastRoll_ => writtenBytes_' = writtenBytes_ + len
        PROVE  /\ lastRoll_' = now /\ lastFlush_' \in Nat /\ now <= lastFlush_'
               /\ startOfPeriod_' = begin /\ writtenBytes_' \in Nat /\ overdue' = 0
               /\ OverfullForASecond'
    <3>1. CASE now > lastRoll_
      BY <2>2, <2>3, <2>5, <3>1, FileAssumption DEF rollFile
    <3>2. CASE ~(now > lastRoll_)
      BY <2>3, <2>4, <2>5, <3>2, FileAssumption DEF rollFile
    <3>3. QED
      BY <3>1, <3>2, ZenonT(30)
  <2>6. CASE writtenBytes_ + len > rollSize_
    <3>1. /\ rollFile /\ lineCount_' = lineCount_
          /\ now <= lastRoll_ => writtenBytes_' = writtenBytes_ + len
      BY <2>1, <2>6, ZenonT(30) DEF logs
    <3>2. QED
      BY <2>2, <2>3, <2>5, <3>1
  <2>7. CASE ~(writtenBytes_ + len > rollSize_) /\ lineCount_ + 1 < checkEveryN_
    <3>1. /\ lineCount_' = lineCount_ + 1 /\ writtenBytes_' = writtenBytes_ + len
          /\ UNCHANGED <<lastRoll_, lastFlush_, startOfPeriod_>>
      BY <2>1, <2>7, Zenon DEF logs
    <3>2. overdue' \in Nat /\ overdue' <= overdue + 1
      BY <2>3
    <3>3. QED
      BY <2>3, <2>7, <3>1, <3>2, FileAssumption
  <2>8. CASE ~(writtenBytes_ + len > rollSize_) /\ ~(lineCount_ + 1 < checkEveryN_)
    <3>1. lineCount_' = 0 /\ 0 < checkEveryN_
      BY <2>1, <2>8, FileAssumption DEF logs
    <3>2. CASE begin # startOfPeriod_
      <4>1. rollFile /\ (now <= lastRoll_ => writtenBytes_' = writtenBytes_ + len)
        BY <2>1, <2>2, <2>8, <3>2, ZenonT(30) DEF logs
      <4>2. QED
        BY <2>2, <2>3, <2>5, <3>1, <4>1
    <3>3. CASE begin = startOfPeriod_
      <4>1. /\ lastFlush_' = IF now - lastFlush_ > flushInterval_ THEN now ELSE lastFlush_
            /\ writtenBytes_' = writtenBytes_ + len /\ UNCHANGED <<lastRoll_, startOfPeriod_>>
        BY <2>1, <2>2, <2>8, <3>3, Zenon DEF logs
      <4>2. overdue' = 0
        BY <2>3, <3>3, <4>1, FileAssumption
      <4>3. QED
        BY <2>3, <2>8, <3>1, <4>1, <4>2, FileAssumption
    <3>4. QED
      BY <3>2, <3>3, ZenonT(30)
  <2>9. QED
    BY <2>6, <2>7, <2>8, Zenon
<1>3. CASE UNCHANGED fileVars
  BY <1>3, Zenon DEF fileVars
<1>4. QED
  BY <1>1, <1>2, <1>3, ZenonT(30) DEF FileNext

\* LogFile rolls a file that is too large with the first line of another
\* second, and notices a new period or a flush that is due within
\* checkEveryN_ lines, whatever the sizes, intervals and periods are.
THEOREM RolledInTimeTheorem == FileSpec => []RolledInTime
<1>1. FileInv => RolledInTime
  BY FileAssumption DEF FileInv, FileTypes, RolledInTime, NoticedInTime
<1>2. QED
  BY FileInitially, FileStep, <1>1, PTL DEF FileSpec
-----------------------------------------------------------------------------
(***************************************************************************)
(* Logging: the cached second of a log line is the current one.            *)
(***************************************************************************)
\* A thread's cached text is of t_lastSecond, in the zone of now unless the
\* zone was set in that second or later.
LogInv ==
    /\ second \in Nat \ {0} /\ zoneSet \in Nat /\ zoneSet <= second
    /\ \A t \in LogThreads :
          /\ t_lastSecond[t] \in Nat /\ t_lastSecond[t] <= second
          /\ t_time[t][1] = t_lastSecond[t]
          /\ zoneSet < t_lastSecond[t] => t_time[t][2] = g_logTimeZone
          /\ stamping[t] \in {0, t_lastSecond[t]}
    /\ t_lastSecond \in [LogThreads -> Nat] /\ stamping \in [LogThreads -> Nat]
    /\ DOMAIN t_time = LogThreads /\ t_time = [t \in LogThreads |-> t_time[t]]
    /\ DOMAIN line = LogThreads /\ line = [t \in LogThreads |-> line[t]]

\* The stamp before the first line.
LEMMA NoLineFields ==
    /\ 0 \in Nat /\ 0 <= 1 /\ <<0, "invalid">>[1] = 0 /\ <<0, "invalid">>[2] = "invalid"
    /\ NoLine.text[1] = NoLine.at /\ NoLine.text[2] = NoLine.suffix
BY DEF NoLine

LEMMA LogStep == LogInv /\ StampIsCurrent /\ [LogNext]_logVars => LogInv' /\ StampIsCurrent'
<1> SUFFICES ASSUME LogInv, StampIsCurrent, [LogNext]_logVars PROVE LogInv' /\ StampIsCurrent'
  BY Zenon
<1> USE DEF LogInv
<1>0. /\ second \in Nat /\ second <= second /\ second + 1 \in Nat \ {0} /\ zoneSet <= second + 1
      /\ \A t \in LogThreads : t_lastSecond[t] <= second + 1 /\ ~(second < t_lastSecond[t])
  <2>1. /\ second \in Nat /\ zoneSet \in Nat /\ zoneSet <= second
        /\ \A t \in LogThreads : t_lastSecond[t] \in Nat /\ t_lastSecond[t] <= second
    BY ZenonT(30)
  <2>2. QED
    BY ONLY <2>1
<1>1. CASE setTimeZone
  <2>1. LogInv'
    BY <1>0, <1>1, ZenonT(30) DEF setTimeZone
  <2>2. StampIsCurrent'
    BY <1>1, ZenonT(30) DEF setTimeZone, StampIsCurrent
  <2>3. QED
    BY <2>1, <2>2, ZenonT(30)
<1>2. CASE clock
  <2>1. LogInv'
    BY <1>0, <1>2, ZenonT(30) DEF clock
  <2>2. StampIsCurrent'
    BY <1>2, ZenonT(30) DEF clock, StampIsCurrent
  <2>3. QED
    BY <2>1, <2>2, Zenon
<1>3. ASSUME NEW t \in LogThreads, formatTime(t) PROVE LogInv' /\ StampIsCurrent'
  <2>1. /\ stamping' = [stamping EXCEPT ![t] = second]
        /\ t_time' = [t_time EXCEPT ![t] = IF second # t_lastSecond[t] THEN <<second, g_logTimeZone>> ELSE @]
        /\ t_lastSecond' = [t_lastSecond EXCEPT ![t] = second]
        /\ UNCHANGED <<second, g_logTimeZone, line, zoneSet>>
    BY <1>3, ZenonT(30) DEF formatTime, formats
  <2>2. /\ t_lastSecond'[t] = second /\ stamping'[t] = second
        /\ t_time'[t] = IF second # t_lastSecond[t] THEN <<second, g_logTimeZone>> ELSE t_time[t]
        /\ \A u \in LogThreads \ {t} : /\ t_lastSecond'[u] = t_lastSecond[u]
                                       /\ stamping'[u] = stamping[u] /\ t_time'[u] = t_time[u]
    BY <2>1, ZenonT(30)
  <2>3. t_time'[t][1] = second /\ (zoneSet < second => t_time'[t][2] = g_logTimeZone)
    <3>1. CASE second # t_lastSecond[t]
      <4>1. t_time'[t] = <<second, g_logTimeZone>>
        BY <2>2, <3>1, ZenonT(30)
      <4>2. QED
        BY ONLY <4>1
    <3>2. CASE second = t_lastSecond[t]
      BY <2>2, <3>2, ZenonT(30)
    <3>3. QED
      BY <3>1, <3>2, Zenon
  <2>4. \A u \in LogThreads :
          /\ t_lastSecond'[u] \in Nat /\ t_lastSecond'[u] <= second
          /\ t_time'[u][1] = t_lastSecond'[u]
          /\ zoneSet < t_lastSecond'[u] => t_time'[u][2] = g_logTimeZone
          /\ stamping'[u] \in {0, t_lastSecond'[u]}
    <3> TAKE u \in LogThreads
    <3>1. CASE u = t
      BY <1>0, <2>2, <2>3, <3>1, ZenonT(30)
    <3>2. CASE u # t
      BY <2>2, <3>2, ZenonT(30)
    <3>3. QED
      BY <3>1, <3>2, Zenon
  <2>5. /\ t_lastSecond' \in [LogThreads -> Nat] /\ stamping' \in [LogThreads -> Nat]
        /\ DOMAIN t_time' = LogThreads /\ t_time' = [u \in LogThreads |-> t_time'[u]]
    BY <2>1, Zenon
  <2>6. LogInv'
    BY <2>1, <2>4, <2>5, ZenonT(30)
  <2>7. StampIsCurrent'
    BY <2>1, ZenonT(30) DEF StampIsCurrent
  <2>8. QED
    BY <2>6, <2>7, ZenonT(30)
<1>4. ASSUME NEW t \in LogThreads, formatSuffix(t) PROVE LogInv' /\ StampIsCurrent'
  <2>1. /\ stamping[t] # 0 /\ stamping' = [stamping EXCEPT ![t] = 0]
        /\ line' = [line EXCEPT ![t] = [at |-> stamping[t], text |-> t_time[t],
                                        suffix |-> g_logTimeZone, zoneSet |-> zoneSet]]
        /\ UNCHANGED <<second, g_logTimeZone, t_lastSecond, t_time, zoneSet>>
    BY <1>4, Zenon DEF formatSuffix
  <2>2. LogInv'
    BY <2>1, ZenonT(30)
  <2>3. stamping[t] = t_lastSecond[t]
    BY <2>1, ZenonT(30)
  <2>4. /\ line'[t].at = t_lastSecond[t] /\ line'[t].text = t_time[t]
        /\ line'[t].suffix = g_logTimeZone /\ line'[t].zoneSet = zoneSet
        /\ \A u \in LogThreads \ {t} : line'[u] = line[u]
    BY <2>1, <2>3, ZenonT(30)
  <2>5. StampIsCurrent'
    <3>1. ASSUME NEW u \in LogThreads
          PROVE  /\ line'[u].text[1] = line'[u].at
                 /\ line'[u].zoneSet < line'[u].at => line'[u].text[2] = line'[u].suffix
      <4>1. CASE u = t
        BY <2>4, <4>1, ZenonT(30)
      <4>2. CASE u # t
        BY <2>4, <4>2, ZenonT(30) DEF StampIsCurrent
      <4>3. QED
        BY <4>1, <4>2, Zenon
    <3>2. QED
      BY <3>1, Zenon DEF StampIsCurrent
  <2>6. QED
    BY <2>2, <2>5, ZenonT(30)
<1>5. CASE UNCHANGED logVars
  <2>1. LogInv'
    BY <1>5, ZenonT(30) DEF logVars
  <2>2. StampIsCurrent'
    BY <1>5, Zenon DEF logVars, StampIsCurrent
  <2>3. QED
    BY <2>1, <2>2, ZenonT(30)
<1>6. QED
  BY <1>1, <1>2, <1>3, <1>4, <1>5, Zenon DEF LogNext

\* A log line carries the text of its own second, in the zone its suffix
\* implies unless the zone was set in that second or later, whatever
\* formatTime had cached and whenever another thread set g_logTimeZone.
THEOREM StampIsCurrentTheorem == LogSpec => []StampIsCurrent
<1>1. LogInit => LogInv /\ StampIsCurrent
  <2> SUFFICES ASSUME LogInit PROVE LogInv /\ StampIsCurrent
    BY Zenon
  <2>1. /\ second \in Nat \ {0} /\ zoneSet \in Nat /\ zoneSet <= second
        /\ t_lastSecond \in [LogThreads -> Nat] /\ stamping \in [LogThreads -> Nat]
        /\ DOMAIN t_time = LogThreads /\ t_time = [t \in LogThreads |-> t_time[t]]
        /\ DOMAIN line = LogThreads /\ line = [t \in LogThreads |-> line[t]]
    BY DEF LogInit
  <2>2. ASSUME NEW t \in LogThreads
        PROVE  /\ t_lastSecond[t] = 0 /\ t_time[t] = <<0, "invalid">> /\ stamping[t] = 0
               /\ line[t] = NoLine /\ zoneSet = 0 /\ g_logTimeZone = "invalid" /\ second = 1
    BY Zenon DEF LogInit
  <2>3. LogInv
    BY <2>1, <2>2, NoLineFields, ZenonT(30) DEF LogInv
  <2>4. StampIsCurrent
    BY <2>2, NoLineFields, ZenonT(30) DEF StampIsCurrent
  <2> QED
    BY <2>3, <2>4, Zenon
<1>2. QED
  BY <1>1, LogStep, PTL DEF LogSpec
-----------------------------------------------------------------------------
(***************************************************************************)
(* Inspector: a removed command answers no more.                           *)
(***************************************************************************)
\* No command of modules_ is a removed one, and a callback runs with mutex_
\* held.
InspectInv == /\ \A m \in DOMAIN modules_ : \A c \in modules_[m] : <<m, c>> \notin removed
              /\ request # "idle" => lock = "loop"
              /\ RemovedIsSilent

LEMMA InspectStep == InspectInv /\ [InspectNext]_inspectVars => InspectInv'
<1> SUFFICES ASSUME InspectInv, [InspectNext]_inspectVars PROVE InspectInv'
  BY Zenon
<1> USE DEF InspectInv, RemovedIsSilent
<1>1. CASE start
  BY <1>1, Zenon DEF start, Entry
<1>2. CASE callbackReturns
  BY <1>2, Zenon DEF callbackReturns
<1>3. ASSUME NEW m \in Modules, NEW c \in Names, NEW null \in BOOLEAN, add(m, c, null) PROVE InspectInv'
  <2>1. /\ lock = "free" /\ UNCHANGED <<lock, request>> /\ removed' = removed \ {<<m, c>>}
        /\ modules_' = With(modules_, m, Entry(modules_, m) \cup {c})
    BY <1>3, ZenonT(30) DEF add
  <2>2. \A x \in DOMAIN modules_' : \A d \in modules_'[x] :
          <<x, d>> = <<m, c>> \/ (x \in DOMAIN modules_ /\ d \in modules_[x])
    BY <2>1, Zenon DEF With, Entry
  <2>3. QED
    BY <2>1, <2>2, ZenonT(30)
<1>4. ASSUME NEW m \in Modules, NEW c \in Names, removeCommand(m, c) PROVE InspectInv'
  <2>1. /\ lock = "free" /\ UNCHANGED <<lock, request>> /\ removed' = removed \cup {<<m, c>>}
        /\ modules_' = IF m \in DOMAIN modules_ THEN With(modules_, m, modules_[m] \ {c}) ELSE modules_
    BY <1>4, Zenon DEF removeCommand, removesCommand
  <2>2. \A x \in DOMAIN modules_' : \A d \in modules_'[x] :
          ~(x = m /\ d = c) /\ x \in DOMAIN modules_ /\ d \in modules_[x]
    BY <2>1, ZenonT(30) DEF With
  <2>3. QED
    BY <2>1, <2>2, ZenonT(30)
<1>5. ASSUME NEW p \in Paths, onRequest(p) PROVE InspectInv'
  <2> DEFINE r == split(p)
  <2>1. /\ request = "idle" /\ UNCHANGED <<modules_, removed, empty>>
        /\ \/ UNCHANGED <<lock, request>>
           \/ /\ lock' = "loop" /\ request' = <<r[1], r[2]>> /\ r[2] \in Entry(modules_, r[1])
              /\ <<r[1], r[2]>> \notin empty
    BY <1>5, ZenonT(30) DEF onRequest, answer
  <2> HIDE DEF r
  <2>2. r[2] \in Entry(modules_, r[1]) => <<r[1], r[2]>> \notin removed
    BY ZenonT(30) DEF Entry
  <2>3. <<r[1], r[2]>>[1] = r[1] /\ <<r[1], r[2]>>[2] = r[2]
    BY Zenon
  <2>4. QED
    BY <2>1, <2>2, <2>3, Zenon DEF Entry
<1>6. CASE UNCHANGED inspectVars
  BY <1>6, Zenon DEF inspectVars, Entry
<1>7. QED
  BY <1>1, <1>2, <1>3, <1>4, <1>5, <1>6, ZenonT(30) DEF InspectNext

\* A command whose remove() has returned is not running, since the callback
\* is run with mutex_ held, and its path is never dispatched to it again; the
\* entry a callback is called through stays while it runs.
THEOREM RemovedIsSilentTheorem == InspectSpec => []RemovedIsSilent
<1>1. InspectInit => InspectInv
  BY Zenon DEF InspectInit, InspectInv, RemovedIsSilent
<1>2. InspectInv => RemovedIsSilent
  BY Zenon DEF InspectInv
<1>3. QED
  BY <1>1, <1>2, InspectStep, PTL DEF InspectSpec
=============================================================================
