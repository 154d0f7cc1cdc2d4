------------------------------ MODULE TaskQueue ------------------------------
(***************************************************************************)
(* What EventLoop::queueInLoop promises its callers: the functors handed   *)
(* to a loop form one FIFO queue.  Any thread appends a task, the loop     *)
(* thread takes the oldest one and runs it; no task is lost, duplicated or *)
(* overtaken.  EventLoop.tla implements this specification with a vector   *)
(* under a mutex, a second vector swapped out of it, and an eventfd.       *)
(***************************************************************************)
EXTENDS Sequences

CONSTANT Task       \* what may be queued

VARIABLES
    queue,          \* tasks submitted and not yet started, oldest first
    done            \* tasks started, in the order they were started

vars == <<queue, done>>

Init == queue = <<>> /\ done = <<>>

Submit(f) == /\ queue' = Append(queue, f)
             /\ UNCHANGED done

Run == /\ queue # <<>>
       /\ done' = Append(done, Head(queue))
       /\ queue' = Tail(queue)

Next == (\E f \in Task : Submit(f)) \/ Run

Spec == Init /\ [][Next]_vars
=============================================================================
