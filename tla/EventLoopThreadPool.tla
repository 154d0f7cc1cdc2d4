------------------------ MODULE EventLoopThreadPool ------------------------
(***************************************************************************)
(* muduo::net::EventLoopThreadPool: the loops a TcpServer deals its        *)
(* connections to.  Loop 0 is the base loop; loop i > 0 belongs to the     *)
(* EventLoopThread i (EventLoopThread.tla).                                *)
(***************************************************************************)
EXTENDS Integers, Sequences

VARIABLES loops_, next_

loopPoolVars == <<loops_, next_>>
baseLoop_ == 0

LoopPoolInit == loops_ = <<>> /\ next_ = 0

startLoops(numThreads_) == /\ loops_' = [i \in 1 .. numThreads_ |-> i]
                           /\ UNCHANGED next_

\* The loop that getNextLoop returns, and the index it leaves.
nextLoop == IF loops_ = <<>> THEN baseLoop_ ELSE loops_[next_ + 1]

getNextLoop == /\ next_' = IF next_ + 1 >= Len(loops_) THEN 0 ELSE next_ + 1
               /\ UNCHANGED loops_

getAllLoops == IF loops_ = <<>> THEN <<baseLoop_>> ELSE loops_
=============================================================================
