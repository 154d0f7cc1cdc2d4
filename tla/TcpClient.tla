----------------------------- MODULE TcpClient -----------------------------
(***************************************************************************)
(* muduo::net::TcpClient with its Connector and one connection at a time.  *)
(* The loop thread polls, handles what poll reported and runs the functors *)
(* queued before; another thread calls connect(), disconnect(), stop() and *)
(* the destructor, which read and write the client's flags and connection_ *)
(* between any two steps of the loop.                                      *)
(***************************************************************************)
EXTENDS Connector, FiniteSets

CONSTANT MaxCalls       \* bound: calls of connect, disconnect and stop

VARIABLES
    retry_, clientConnect_, connection_,
    conn,       \* the connection: "none", "up", "down", "destroyed"
    closeCb,    \* its closeCallback_: "client" or "detail"
    ready,      \* events that poll has reported and the loop has not handled
    batch,      \* functors of this doPendingFunctors still to run, or Polled
    loopAt,     \* "idle", or in the middle of "newConnection" or "removeConnection"
    user,       \* "idle", in the middle of "stop" or of the destructor, or "gone"
    hold,       \* the timer of ~TcpClient still holds the connector
    calls, stopped,
    lapses      \* history: the ways below in which the client was misused

clientVars == <<connectorVars, retry_, clientConnect_, connection_, conn, closeCb, ready, batch, loopAt,
                user, hold, calls, stopped, lapses>>
Polled == -1

ClientInit == /\ ConnectorInit /\ retry_ \in BOOLEAN /\ clientConnect_ = TRUE /\ connection_ = FALSE
              /\ conn = "none" /\ closeCb = "client" /\ ready = {} /\ batch = 0 /\ loopAt = "idle"
              /\ user = "idle" /\ hold = FALSE /\ calls = 0 /\ stopped = FALSE /\ lapses = {}

Count(f) == Cardinality({i \in DOMAIN tasks : tasks[i] = f})
One(b) == IF b THEN 1 ELSE 0
Attempts == timers + Count("startInLoop") + One(channel_ = "active") + One(conn = "up")
            + One(loopAt # "idle")
Owed == Count("startInLoop") + Count("stopInLoop") + Count("resetChannel")
ConnectorHeld == user # "gone" \/ hold \/ timers > 0
-----------------------------------------------------------------------------
\* Calls from the other thread.
NotTheLoop == UNCHANGED <<conn, ready, batch, loopAt, retry_>>
Called == user = "idle" /\ calls < MaxCalls /\ calls' = calls + 1

connectClient == /\ Called /\ clientConnect_' = TRUE /\ start /\ stopped' = FALSE
                 /\ NotTheLoop /\ UNCHANGED <<connection_, closeCb, user, hold>>

disconnect == /\ Called /\ clientConnect_' = FALSE
              /\ NotTheLoop /\ UNCHANGED <<connectorVars, connection_, closeCb, user, hold, stopped>>

stopClient == /\ Called /\ clientConnect_' = FALSE /\ user' = "stop"
              /\ NotTheLoop /\ UNCHANGED <<connectorVars, connection_, closeCb, hold, stopped>>

stopConnector == /\ user = "stop" /\ stop /\ user' = "idle" /\ stopped' = TRUE
                 /\ NotTheLoop /\ UNCHANGED <<clientConnect_, connection_, closeCb, hold, calls>>

\* ~TcpClient reads connection_ ...
destroyClient == /\ user = "idle" /\ user' = IF connection_ THEN "closing" ELSE "stopping"
                 /\ NotTheLoop
                 /\ UNCHANGED <<connectorVars, clientConnect_, connection_, closeCb, hold, calls, stopped>>

\* ... and has the connection closed by the loop, unless others use it, or
\* stops the connector and keeps it for a second.
destroyClient_close ==
    /\ user = "closing" /\ user' = "gone"
    /\ \E unique \in BOOLEAN :
          tasks' = tasks \o (IF unique THEN <<"setCloseCallback", "forceClose">> ELSE <<"setCloseCallback">>)
    /\ NotTheLoop
    /\ UNCHANGED <<connect_, state_, channel_, timers, fds, gaveUp, clientConnect_, connection_, closeCb,
                   hold, calls, stopped>>

destroyClient_stop == /\ user = "stopping" /\ user' = "gone" /\ stop /\ hold' = TRUE /\ stopped' = TRUE
                      /\ NotTheLoop /\ UNCHANGED <<clientConnect_, connection_, closeCb, calls>>
-----------------------------------------------------------------------------
\* The loop.
NotTheUser == UNCHANGED <<retry_, clientConnect_, user, calls, stopped>>

poll == /\ batch = 0 /\ batch' = Polled
        /\ \E R \in SUBSET {"write", "error", "close", "timer"} :
              /\ R \cap {"write", "error"} # {} => channel_ = "active"
              /\ "close" \in R => conn = "up"
              /\ "timer" \in R => timers > 0
              /\ ready' = R
        /\ NotTheUser
        /\ UNCHANGED <<connectorVars, connection_, conn, closeCb, loopAt, hold>>

Handles(e) == batch = Polled /\ loopAt = "idle" /\ e \in ready /\ ready' = ready \ {e}

handleError == /\ Handles("error") /\ connectorError
               /\ NotTheUser /\ UNCHANGED <<connect_, gaveUp, connection_, conn, closeCb, batch, loopAt, hold>>

handleWrite == /\ "error" \notin ready /\ Handles("write")
               /\ \E new \in BOOLEAN : /\ connectorWrite(new)
                                       /\ loopAt' = IF new THEN "newConnection" ELSE "idle"
               /\ NotTheUser /\ UNCHANGED <<connect_, gaveUp, connection_, conn, closeCb, batch, hold>>

\* The retry timer, which holds the connector.
retryTimer == /\ Handles("timer") /\ startInLoop(connect_, timers - 1, state_)
              /\ NotTheUser /\ UNCHANGED <<connect_, tasks, connection_, conn, closeCb, batch, loopAt, hold>>

\* newConnection: connection_ is set under mutex_, then connectEstablished.
newConnection == /\ loopAt = "newConnection" /\ loopAt' = "idle"
                 /\ connection_' = TRUE /\ conn' = "up" /\ closeCb' = "client"
                 /\ NotTheUser /\ UNCHANGED <<connectorVars, ready, batch, hold>>

\* TcpConnection::handleClose calls closeCallback_: detail::removeConnection,
\* or TcpClient::removeConnection, which resets connection_ ...
closes(q) ==
    /\ conn' = "down" /\ tasks' = q
    /\ IF closeCb = "detail" THEN UNCHANGED <<connection_, loopAt>>
       ELSE /\ connection_' = FALSE
            /\ loopAt' = IF retry_ /\ clientConnect_ THEN "removeConnection" ELSE "idle"

handleClose(q) == closes(Append(q, "connectDestroyed"))

closeEvent == /\ Handles("close") /\ handleClose(tasks)
              /\ NotTheUser
              /\ UNCHANGED <<connect_, state_, channel_, timers, fds, gaveUp, closeCb, batch, hold>>

\* ... and restarts the connector if connect_ was still set.
removeConnection == /\ loopAt = "removeConnection" /\ loopAt' = "idle" /\ restart
                    /\ NotTheUser /\ UNCHANGED <<tasks, connection_, conn, closeCb, ready, batch, hold>>

doPendingFunctors == /\ batch = Polled /\ ready = {} /\ loopAt = "idle" /\ batch' = Len(tasks)
                     /\ NotTheUser
                     /\ UNCHANGED <<connectorVars, connection_, conn, closeCb, ready, loopAt, hold>>

\* The functors of the connector and of the connection.
Runs(f) == /\ batch > 0 /\ loopAt = "idle" /\ Head(tasks) = f /\ batch' = batch - 1
           /\ NotTheUser /\ UNCHANGED <<connect_, ready, hold>>

runConnector ==
    /\ \/ Runs("startInLoop") /\ startInLoop(connect_, timers, state_) /\ tasks' = Tail(tasks)
       \/ Runs("stopInLoop") /\ stopInLoop(Tail(tasks)) /\ UNCHANGED gaveUp
       \/ Runs("resetChannel") /\ resetChannel(Tail(tasks)) /\ UNCHANGED <<state_, timers, fds, gaveUp>>
    /\ UNCHANGED <<connection_, conn, closeCb, loopAt>>

runConnection ==
    /\ \/ /\ Runs("setCloseCallback") /\ closeCb' = "detail" /\ tasks' = Tail(tasks)
          /\ UNCHANGED <<connection_, conn, loopAt, fds>>
       \/ /\ Runs("forceClose") /\ UNCHANGED <<closeCb, fds>>
          /\ IF conn = "up" THEN handleClose(Tail(tasks))
             ELSE tasks' = Tail(tasks) /\ UNCHANGED <<connection_, conn, loopAt>>
       \/ /\ Runs("connectDestroyed") /\ conn' = "destroyed" /\ fds' = fds - 1 /\ tasks' = Tail(tasks)
          /\ UNCHANGED <<connection_, closeCb, loopAt>>
    /\ UNCHANGED <<state_, channel_, timers, gaveUp>>

\* The timer of ~TcpClient.  A second is taken to be longer than the loop
\* needs for the functors that were queued when it was set.
removeConnector == /\ hold /\ batch = Polled /\ tasks = <<>> /\ loopAt = "idle" /\ hold' = FALSE
                   /\ NotTheUser
                   /\ UNCHANGED <<connectorVars, connection_, conn, closeCb, ready, batch, loopAt>>
-----------------------------------------------------------------------------
\* connect() while the connector is not back at kDisconnected with nothing
\* under way; restart() after another thread's stop(); ~TcpClient with a
\* connection while the connector is not at rest; code of a client or of a
\* connector that is gone is run, after which nothing more is known.
Lapses == {"hasty", "overridden", "early", "dangling"}
Quiet == state_ = "kDisconnected" /\ Attempts = 0
Watched == {"write", "error"}
Lapse(l) == \/ l = "hasty" /\ Count("startInLoop")' > Count("startInLoop") /\ ~Quiet
            \/ l = "overridden" /\ stopped /\ ~connect_ /\ connect_' /\ stopped'
            \/ l = "early" /\ user = "closing" /\ user' = "gone"
                             /\ (channel_ # "none" \/ timers + Owed > 0 \/ loopAt # "idle")
            \/ l = "dangling" /\ user = "gone"
                             /\ \/ loopAt # "idle"
                                \/ conn = "up" /\ conn' = "down" /\ closeCb = "client"
                                \/ ~ConnectorHeld /\ (Owed' < Owed \/ ready' \cap Watched # ready \cap Watched)

LoopStep == \/ poll \/ handleError \/ handleWrite \/ retryTimer \/ newConnection \/ closeEvent
            \/ removeConnection \/ doPendingFunctors \/ runConnector \/ runConnection \/ removeConnector
UserStep == \/ connectClient \/ disconnect \/ stopClient \/ stopConnector
            \/ destroyClient \/ destroyClient_close \/ destroyClient_stop

ClientNext == /\ "dangling" \notin lapses
              /\ LoopStep \/ UserStep
              /\ lapses' = lapses \cup {l \in Lapses : Lapse(l)}

ClientSpec == ClientInit /\ [][ClientNext]_clientVars

\* The loop runs, a retry timer is reported in the end, and a function that
\* was called returns.
ClientFairSpec == /\ ClientSpec
                  /\ WF_clientVars(LoopStep /\ ClientNext)
                  /\ SF_clientVars(poll /\ "timer" \in ready' /\ ClientNext)
                  /\ WF_clientVars((stopConnector \/ destroyClient_close \/ destroyClient_stop) /\ ClientNext)
-----------------------------------------------------------------------------
\* As long as connect() is only called with the connector at rest ("FIXME:
\* check state", TcpClient.cc:106) and no restart() overrides another thread's
\* stop(), at most one attempt, waiting, under way or successful, exists at a
\* time, and the assert of connecting() holds: channel_ is null when a functor,
\* a retry timer or restart() starts an attempt.  The assert of ~Connector
\* holds, and no functor holds a bare pointer to it, unless ~TcpClient came early.
Orderly == lapses \cap {"hasty", "overridden"} = {}
Starts == \/ batch > 0 /\ Head(tasks) = "startInLoop"
          \/ "timer" \in ready \/ loopAt = "removeConnection"
OneAttempt == Orderly =>
    /\ Attempts <= 1
    /\ Starts => channel_ = "none"
    /\ ~ConnectorHeld /\ lapses = {} => channel_ = "none" /\ Owed = 0

\* Every open socket belongs to the connector's channel or to the
\* connection: none is leaked and none is closed twice.
SocketsOwned == Orderly =>
    fds = One(channel_ = "active") + One(conn \in {"up", "down"}) + One(loopAt = "newConnection")

\* A client that retries, and that nobody stopped, is connected or will try
\* again, unless connect(2) failed for good.
KeepsTrying == retry_ /\ clientConnect_ /\ connect_ /\ ~gaveUp /\ user = "idle" /\ Orderly
               => Attempts = 1

\* assert(state_ == kDisconnected) in startInLoop: a client whose connection
\* and attempts have all ended can be connected again.
StartFindsDisconnected ==
    batch > 0 /\ Head(tasks) = "startInLoop" /\ Attempts = 1 /\ conn = "destroyed"
    => state_ = "kDisconnected"

\* After stop() or the destructor all attempts end, unless the client is
\* connected again or a connection that closes at this moment overrides it.
StopTakesEffect == stopped ~> \/ channel_ # "active" /\ timers = 0 /\ loopAt = "idle"
                              \/ ~stopped \/ lapses # {}

\* A connection that ends is destroyed, by a client that still exists or by
\* detail::removeConnection, unless its end meets a client that is already
\* gone and had not yet set that callback ("not 100% safe", TcpClient.cc:87).
ClosedIsDestroyed == conn = "down" ~> conn = "destroyed" \/ conn = "up" \/ "dangling" \in lapses

\* There is one attempt as long as one is wanted, never two, and every socket
\* has one owner, while calls are orderly in the sense above.
OneAttemptOwned == OneAttempt /\ KeepsTrying /\ SocketsOwned

\* What is stopped or has ended goes away.
ClientLetsGo == StopTakesEffect /\ ClosedIsDestroyed
=============================================================================
