----------------------------- MODULE Connector -----------------------------
(***************************************************************************)
(* muduo::net::Connector: makes a connection, and tries again after a      *)
(* failure until it is told to stop.  Everything but the two assignments   *)
(* of connect_ by start() and stop() happens in the loop thread, in        *)
(* functors (tasks), timers and channel events.  The growing delay before  *)
(* a retry is left out: a timer fires at any later time.                   *)
(***************************************************************************)
EXTENDS Integers, Sequences

VARIABLES
    connect_, state_,
    channel_,       \* "none", "active", or "removed" until resetChannel runs
    timers,         \* retry timers that have not fired
    tasks,          \* functors queued in the loop
    fds,            \* sockets that are open
    gaveUp          \* history: connect failed with an error that is not retried

connectorVars == <<connect_, state_, channel_, timers, tasks, fds, gaveUp>>

ConnectorInit == /\ connect_ = FALSE /\ state_ = "kDisconnected" /\ channel_ = "none"
                 /\ timers = 0 /\ tasks = <<>> /\ fds = 0 /\ gaveUp = FALSE

\* The socket is closed.  on is connect_ at this moment, ts the timers that
\* are left.
retry(on, ts) == /\ state_' = "kDisconnected"
                 /\ timers' = IF on THEN ts + 1 ELSE ts

connecting == state_' = "kConnecting" /\ channel_' = "active"

\* A new socket: the connection is under way, refused for now, or refused
\* for good.
connect(ts, s) == \/ connecting /\ fds' = fds + 1 /\ timers' = ts /\ UNCHANGED gaveUp
                  \/ retry(TRUE, ts) /\ UNCHANGED <<channel_, fds, gaveUp>>
                  \/ gaveUp' = TRUE /\ state_' = s /\ timers' = ts /\ UNCHANGED <<channel_, fds>>

startInLoop(on, ts, s) == IF on THEN connect(ts, s)
                          ELSE state_' = s /\ timers' = ts /\ UNCHANGED <<channel_, fds, gaveUp>>

\* start() and stop() of another thread
start == /\ connect_' = TRUE /\ tasks' = Append(tasks, "startInLoop")
         /\ UNCHANGED <<state_, channel_, timers, fds, gaveUp>>

stop == /\ connect_' = FALSE /\ tasks' = Append(tasks, "stopInLoop")
        /\ UNCHANGED <<state_, channel_, timers, fds, gaveUp>>

restart == connect_' = TRUE /\ startInLoop(TRUE, timers, "kDisconnected")

removeAndResetChannel_NoReset(q) == channel_' = "removed" /\ tasks' = q
removeAndResetChannel(q) == channel_' = "removed" /\ tasks' = Append(q, "resetChannel")

stopInLoop_Lazy(q) == tasks' = q /\ UNCHANGED <<state_, channel_, timers, fds>>
stopInLoop(q) ==
    IF state_ = "kConnecting"
    THEN removeAndResetChannel(q) /\ retry(connect_, timers) /\ fds' = fds - 1
    ELSE tasks' = q /\ UNCHANGED <<state_, channel_, timers, fds>>

resetChannel(q) == channel_' = "none" /\ tasks' = q

\* The socket is writable: an error or a connection to itself is retried,
\* a connection that is no longer wanted is closed, the rest are handed on.
writable(new, leak) ==
    IF state_ # "kConnecting" THEN new = FALSE /\ UNCHANGED <<state_, channel_, timers, tasks, fds>>
    ELSE /\ removeAndResetChannel(tasks)
         /\ \/ new = FALSE /\ retry(connect_, timers) /\ fds' = fds - 1
            \/ /\ new = connect_ /\ state_' = "kConnected" /\ UNCHANGED timers
               /\ fds' = IF connect_ \/ leak THEN fds ELSE fds - 1

connectorWrite(new) == writable(new, FALSE)

connectorError == IF state_ # "kConnecting" THEN UNCHANGED <<state_, channel_, timers, tasks, fds>>
                  ELSE removeAndResetChannel(tasks) /\ retry(connect_, timers) /\ fds' = fds - 1
=============================================================================
