----------------------------- MODULE MCEventLoop -----------------------------
(***************************************************************************)
(* An EventLoop for TLC: on its own, with user code in every thread, or    *)
(* owned by an EventLoopThread.                                            *)
(***************************************************************************)
EXTENDS EventLoopThread, FiniteSetsExt

CONSTANT MaxTotal       \* calls of all threads together

VARIABLE owned          \* the loop belongs to an EventLoopThread

loopVars == <<allVars, owned>>

LoopInit == InitThread /\ owned \in BOOLEAN

LoopNext ==
    /\ UNCHANGED owned
    /\ \/ owned /\ NextThread
       \/ ~owned /\ Next /\ UNCHANGED threadVars
    /\ MapThenSumSet(LAMBDA t : calls'[t], Callers) <= MaxTotal

(***************************************************************************)
(* Fairness: the scheduler runs every thread that can run, handlers and    *)
(* functors return, and epoll_wait returns once the eventfd is readable.   *)
(* Nothing forces another channel to become ready, user code to call       *)
(* anything or, without an owner, anybody to call loop().  (Without an     *)
(* owner no ThreadStep and no OwnerStep is enabled; the wakeup() of the    *)
(* destructor is an OwnerStep.)                                            *)
(***************************************************************************)
LoopSpec ==
    /\ LoopInit /\ [][LoopNext]_loopVars
    /\ WF_vars(LoopStep) /\ WF_allVars(ThreadStep) /\ WF_allVars(OwnerStep)
    /\ \A t \in Callers :
          WF_vars(ownerPc # "waking" /\ (queueInLoop_wakeup(t) \/ quit_wakeup(t)))
=============================================================================
