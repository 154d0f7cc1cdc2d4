------------------------------ MODULE MutexLock ------------------------------
(***************************************************************************)
(* muduo::MutexLock and the Condition that waits on it: the pthread mutex  *)
(* and holder_, the thread id isLockedByThisThread() compares with.  The   *)
(* two are never written in one step: holder_ is set after the mutex is    *)
(* taken and cleared before it is given back, and pthread_cond_wait gives  *)
(* the mutex back behind the class's back, under an UnassignGuard.         *)
(***************************************************************************)
CONSTANTS Lockers, Nobody

ASSUME NobodyAssumption == Nobody \notin Lockers

VARIABLES
    mutex_,         \* the pthread mutex: its owner, or Nobody
    holder_,        \* the id isLockedByThisThread compares with
    lockAt          \* where each thread is in lock, wait and unlock

lockVars == <<mutex_, holder_, lockAt>>

At(t, from, to) == lockAt[t] = from /\ lockAt' = [lockAt EXCEPT ![t] = to]

LockInit == /\ mutex_ = Nobody /\ holder_ = Nobody
            /\ lockAt = [t \in Lockers |-> "outside"]
-----------------------------------------------------------------------------
\* pthread_mutex_lock, on the way into lock() or out of pthread_cond_wait.
acquire(t) == /\ mutex_ = Nobody /\ mutex_' = t
              /\ At(t, "outside", "locked") \/ At(t, "woken", "locked")
              /\ UNCHANGED holder_

\* The guard around pthread_cond_wait forgets to assign.
assignHolder_NotAfterWait(t) == /\ At(t, "locked", "inside")
                                /\ holder_' \in {t, holder_}
                                /\ UNCHANGED mutex_

assignHolder(t) == /\ At(t, "locked", "inside")
                   /\ holder_' = t
                   /\ UNCHANGED mutex_

\* unlock() and UnassignGuard clear holder_ while the mutex is still held.
unassignHolder(t, to) == /\ At(t, "inside", to)
                         /\ holder_' = Nobody
                         /\ UNCHANGED mutex_

\* pthread_mutex_unlock, or the unlock at the start of pthread_cond_wait.
release(t) == /\ At(t, "unlocking", "outside") \/ At(t, "waiting", "asleep")
              /\ mutex_' = Nobody
              /\ UNCHANGED holder_

\* Condition::notify by another thread, a timeout or a spurious wakeup.
wake(t) == At(t, "asleep", "woken") /\ UNCHANGED <<mutex_, holder_>>

LockNext == \E t \in Lockers :
    \/ acquire(t) \/ assignHolder(t) \/ release(t) \/ wake(t)
    \/ unassignHolder(t, "unlocking") \/ unassignHolder(t, "waiting")

LockSpec == LockInit /\ [][LockNext]_lockVars
-----------------------------------------------------------------------------
\* assertLocked() holds everywhere between lock() and unlock(), before and
\* after a wait on a condition, and isLockedByThisThread(), which reads
\* holder_ unlocked, is true in no other thread.  So ~MutexLock's
\* assert(holder_ == 0) holds once every thread is out.
HolderIsInside == \A t \in Lockers : holder_ = t <=> lockAt[t] = "inside"
=============================================================================
