------------------------------ MODULE Condition ------------------------------
(***************************************************************************)
(* muduo::Condition as its users see it.  "blocked" maps every thread to   *)
(* the condition it waits on, or to "none".  A thread that is woken holds  *)
(* the mutex again before wait() returns, so waking is all a notification  *)
(* does: the thread runs the test of its while loop again.  Critical       *)
(* sections are one step each, which MutexLock.tla justifies.              *)
(***************************************************************************)
wait(blocked, t, cond) == [blocked EXCEPT ![t] = cond]

\* pthread_cond_signal wakes one of the waiting threads, whichever.
notify(blocked, cond) ==
    LET Waiting == {t \in DOMAIN blocked : blocked[t] = cond}
    IN IF Waiting = {} THEN {blocked}
       ELSE {[blocked EXCEPT ![t] = "none"] : t \in Waiting}

notifyAll(blocked, cond) ==
    [t \in DOMAIN blocked |-> IF blocked[t] = cond THEN "none" ELSE blocked[t]]

\* The system may end a wait by itself; waitForSeconds may time out.
spurious(blocked, t) == [blocked EXCEPT ![t] = "none"]
=============================================================================
