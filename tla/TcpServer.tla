------------------------------ MODULE TcpServer ------------------------------
(***************************************************************************)
(* muduo::net::TcpServer with its Acceptor and EventLoopThreadPool.        *)
(* Connections live in the loop they are dealt to and are kept in          *)
(* connections_, which belongs to the base loop; the two sides talk by     *)
(* functors.  A loop polls, handles events, and runs the functors queued   *)
(* before (EventLoop.tla); ~TcpServer runs in the base loop's thread and   *)
(* quits and joins the others, whose last functors may never run.          *)
(***************************************************************************)
EXTENDS Acceptor, EventLoopThreadPool, FiniteSets, Functions

CONSTANT MaxThreads    \* bound: threads of the pool

ASSUME ServerAssumption == MaxClients \in Nat /\ MaxFree \in Nat /\ MaxThreads \in Nat

VARIABLES
    numThreads_, connections_,
    conn,       \* state of each connection, by its number in the name
    ioLoop,     \* the loop each connection was dealt to
    queue,      \* pendingFunctors_ of each loop, <<function, connection>>
    batch,      \* functors that doPendingFunctors has swapped out
    at,         \* "starting" until loop() has cleared quit_, "poll", "handled",
                \* "functors" or "ended"
    quit_,      \* loops whose quit_ is set
    told,       \* loops that ~EventLoopThread has called quit() on
    server      \* "new", "started", "joining", "gone"; "dangling" when it is
                \* used after that, which is undefined

loopVars == <<queue, batch, at, quit_, told>>
serverVars == <<acceptorVars, loopPoolVars, numThreads_, connections_, conn, ioLoop, loopVars, server>>

Conns == 1 .. MaxClients
Loops == 0 .. MaxThreads
nextConnId_ == 1 + Cardinality({c \in Conns : conn[c] # "none"})
Serving == server \in {"new", "started"}

ServerInit == /\ AcceptorInit /\ LoopPoolInit
              /\ numThreads_ \in {0, MaxThreads} /\ connections_ = {}
              /\ conn = [c \in Conns |-> "none"] /\ ioLoop = [c \in Conns |-> baseLoop_]
              /\ queue = [l \in Loops |-> <<>>] /\ batch = [l \in Loops |-> <<>>]
              /\ at = [l \in Loops |-> IF l = baseLoop_ THEN "poll" ELSE "ended"]
              /\ quit_ = {} /\ told = {} /\ server = "new"

\* The thread of the base loop is neither in handleRead nor in ~TcpServer.
BaseFree == accepting = "no" /\ server # "joining"
Queued(q, l, f) == [q EXCEPT ![l] = Append(@, f)]
-----------------------------------------------------------------------------
\* startLoop() returns when the thread has published its loop, before loop()
\* is called there.
start == /\ server = "new" /\ server' = "started"
         /\ startLoops(numThreads_) /\ listen
         /\ at' = [l \in Loops |-> IF l = baseLoop_ THEN at[l]
                                   ELSE IF l <= numThreads_ THEN "starting" ELSE "ended"]
         /\ UNCHANGED <<numThreads_, connections_, conn, ioLoop, queue, batch, quit_, told>>

\* connectEstablished runs at once if the connection stays in the base loop.
newConnection(c) ==
    /\ c = nextConnId_ /\ handleRead_accept /\ getNextLoop
    /\ ioLoop' = [ioLoop EXCEPT ![c] = nextLoop]
    /\ connections_' = connections_ \cup {c}
    /\ IF nextLoop = baseLoop_
       THEN conn' = [conn EXCEPT ![c] = "kConnected"] /\ UNCHANGED queue
       ELSE /\ conn' = [conn EXCEPT ![c] = "kConnecting"]
            /\ queue' = Queued(queue, nextLoop, <<"connectEstablished", c>>)
    /\ at' = [at EXCEPT ![baseLoop_] = "handled"]
    /\ UNCHANGED <<numThreads_, batch, quit_, told, server>>

\* The other end closes: handleClose in the connection's loop calls
\* removeConnection, which runs removeConnectionInLoop at once or queues it.
removeConnectionInLoop_NoErase(c) ==
    queue' = Queued(queue, ioLoop[c], <<"connectDestroyed", c>>) /\ UNCHANGED connections_

removeConnectionInLoop_NoQueue(c) == connections_' = connections_ \ {c} /\ UNCHANGED queue

removeConnectionInLoop(c) ==
    /\ connections_' = connections_ \ {c}
    /\ queue' = Queued(queue, ioLoop[c], <<"connectDestroyed", c>>)

removeConnection(c) ==
    IF ioLoop[c] = baseLoop_ THEN removeConnectionInLoop(c)
    ELSE queue' = Queued(queue, baseLoop_, <<"removeConnectionInLoop", c>>) /\ UNCHANGED connections_

handleClose(c) ==
    /\ conn[c] = "kConnected" /\ at[ioLoop[c]] = "poll" /\ (ioLoop[c] = baseLoop_ => BaseFree)
    /\ conn' = [conn EXCEPT ![c] = "kDisconnected"]
    /\ removeConnection(c)
    /\ UNCHANGED <<acceptorVars, loopPoolVars, numThreads_, ioLoop, batch, at, quit_, told, server>>

\* The functors.  A connection is deleted with the functor that runs its
\* connectDestroyed, and its descriptor closed.
destroys(S) == /\ conn' = [c \in Conns |-> IF c \in S THEN "destroyed" ELSE conn[c]]
               /\ free' = free + Cardinality(S)
               /\ UNCHANGED <<listening_, idleFd_, accepting, backlog, clients, stolen>>

functor(l) ==
    /\ at[l] = "functors" /\ batch[l] # <<>> /\ (l = baseLoop_ => BaseFree)
    /\ batch' = [batch EXCEPT ![l] = Tail(@)]
    /\ LET f == Head(batch[l])[1] c == Head(batch[l])[2]
       IN \/ /\ f = "connectEstablished" /\ conn' = [conn EXCEPT ![c] = "kConnected"]
             /\ UNCHANGED <<acceptorVars, connections_, queue, server>>
          \/ f = "connectDestroyed" /\ destroys({c}) /\ UNCHANGED <<connections_, queue, server>>
          \/ /\ f = "removeConnectionInLoop" /\ UNCHANGED <<acceptorVars, conn>>
             /\ IF Serving THEN removeConnectionInLoop(c) /\ UNCHANGED server
                ELSE server' = "dangling" /\ UNCHANGED <<connections_, queue>>
    /\ UNCHANGED <<loopPoolVars, numThreads_, ioLoop, at, quit_, told>>

\* The rest of an iteration: poll reports a waiting client to the Acceptor,
\* the functors are swapped out, quit_ is tested; the functors left behind
\* in a loop that ends are destroyed with their connections.
poll(l) ==
    /\ at[l] = "poll" /\ (l = baseLoop_ => BaseFree)
    /\ IF l = baseLoop_ /\ server = "started" /\ listening_ /\ backlog > 0
       THEN accepting' = "accept" /\ UNCHANGED at
       ELSE at' = [at EXCEPT ![l] = "handled"] /\ UNCHANGED accepting
    /\ UNCHANGED <<listening_, idleFd_, free, backlog, clients, stolen, loopPoolVars, numThreads_,
                   connections_, conn, ioLoop, queue, batch, quit_, told, server>>

doPendingFunctors(l) ==
    /\ at[l] = "handled" /\ at' = [at EXCEPT ![l] = "functors"]
    /\ batch' = [batch EXCEPT ![l] = queue[l]] /\ queue' = [queue EXCEPT ![l] = <<>>]
    /\ UNCHANGED <<acceptorVars, loopPoolVars, numThreads_, connections_, conn, ioLoop, quit_, told, server>>

\* loop() begins: quit_ is cleared, whoever has set it, and tested.
beginLoop(l) ==
    /\ at[l] = "starting" /\ at' = [at EXCEPT ![l] = "functors"]
    /\ quit_' = quit_ \ {l}
    /\ UNCHANGED <<acceptorVars, loopPoolVars, numThreads_, connections_, conn, ioLoop, queue, batch,
                   told, server>>

Dropped(l) == {queue[l][i][2] : i \in {i \in DOMAIN queue[l] : queue[l][i][1] # "removeConnectionInLoop"}}

loopTest(l) ==
    /\ at[l] = "functors" /\ batch[l] = <<>>
    /\ IF l \in quit_
       THEN /\ at' = [at EXCEPT ![l] = "ended"] /\ queue' = [queue EXCEPT ![l] = <<>>]
            /\ conn' = [c \in Conns |-> IF c \in Dropped(l) THEN "lost" ELSE conn[c]]
       ELSE at' = [at EXCEPT ![l] = "poll"] /\ UNCHANGED <<queue, conn>>
    /\ UNCHANGED <<acceptorVars, loopPoolVars, numThreads_, connections_, ioLoop, batch, quit_, told, server>>

handlesRead == /\ handleRead
               /\ at' = IF accepting' = "no" THEN [at EXCEPT ![baseLoop_] = "handled"] ELSE at
               /\ UNCHANGED <<loopPoolVars, numThreads_, connections_, conn, ioLoop, queue, batch,
                              quit_, told, server>>
-----------------------------------------------------------------------------
\* The connections in S as a loop over the map connections_ meets them.
mapOrder(S) == CHOOSE f \in [1 .. Cardinality(S) -> S] : IsInjective(f)

\* ~TcpServer: connectDestroyed for every connection, at once in the base
\* loop and queued in the others; then the members, threadPool_ first.
destroyServer ==
    LET own == {c \in connections_ : ioLoop[c] = baseLoop_}
        last(l) == {c \in connections_ \ own : ioLoop[c] = l}
    IN /\ Serving /\ accepting = "no" /\ at[baseLoop_] \in {"poll", "functors"} /\ server' = "joining"
       /\ destroys(own) /\ connections_' = {}
       /\ queue' = [l \in Loops |->
                       queue[l] \o [i \in 1 .. Cardinality(last(l)) |->
                                       <<"connectDestroyed", mapOrder(last(l))[i]>>]]
       /\ UNCHANGED <<loopPoolVars, numThreads_, ioLoop, batch, at, quit_, told>>

\* ~EventLoopThread of each loop in turn: quit(), and join() before the next.
quitLoop(l) == /\ server = "joining" /\ l \in 1 .. Len(loops_) \ told
               /\ \A k \in 1 .. l - 1 : at[k] = "ended"
               /\ quit_' = quit_ \cup {l} /\ told' = told \cup {l}
               /\ UNCHANGED <<acceptorVars, loopPoolVars, numThreads_, connections_, conn, ioLoop,
                              queue, batch, at, server>>

\* ~Acceptor
destroyAcceptor == /\ server = "joining" /\ \A k \in 1 .. Len(loops_) : at[k] = "ended"
                   /\ server' = "gone" /\ listening_' = FALSE
                   /\ UNCHANGED <<idleFd_, accepting, free, backlog, clients, stolen, loopPoolVars,
                                  numThreads_, connections_, conn, ioLoop, loopVars>>

World == /\ connects \/ opens
         /\ UNCHANGED <<loopPoolVars, numThreads_, connections_, conn, ioLoop, loopVars, server>>

LoopStep(l) == functor(l) \/ poll(l) \/ doPendingFunctors(l) \/ loopTest(l) \/ beginLoop(l)
BaseStep == handlesRead \/ destroyAcceptor \/ \E c \in Conns : newConnection(c)

ServerNext == \/ start \/ BaseStep \/ destroyServer \/ World
              \/ \E l \in Loops : LoopStep(l) \/ quitLoop(l)
              \/ \E c \in Conns : handleClose(c)

\* Every loop keeps running, and so does ~TcpServer once it has begun.
ServerFairness == /\ \A l \in Loops : WF_serverVars(LoopStep(l))
                  /\ WF_serverVars(BaseStep)
                  /\ WF_serverVars(\E l \in Loops : quitLoop(l))

ServerSpec == ServerInit /\ [][ServerNext]_serverVars
ServerFairSpec == ServerSpec /\ ServerFairness
-----------------------------------------------------------------------------
Pending(l) == batch[l] \o queue[l]
Places(l, f, c) == {i \in DOMAIN Pending(l) : Pending(l)[i] = <<f, c>>}

\* assert(n == 1) in removeConnectionInLoop: connections_ holds the open
\* connections and those that have closed in their own loop, and for each
\* of the latter exactly one removeConnectionInLoop is on its way.
EraseFindsOne == Serving => \A c \in Conns :
    LET removals == Cardinality(Places(baseLoop_, "removeConnectionInLoop", c))
    IN /\ c \in connections_ <=> conn[c] \in {"kConnecting", "kConnected"} \/ removals > 0
       /\ removals = IF c \in connections_ /\ conn[c] = "kDisconnected" THEN 1 ELSE 0

\* "should be called only once": connectEstablished and connectDestroyed run
\* once each, in the loop of the connection and in this order, whether the
\* peer, the server or both end the connection.
ConnectionOrder == \A c \in Conns :
    LET established == Places(ioLoop[c], "connectEstablished", c)
        destroyed == Places(ioLoop[c], "connectDestroyed", c)
    IN /\ Cardinality(established) = IF conn[c] = "kConnecting" THEN 1 ELSE 0
       /\ Cardinality(destroyed) <= 1
       /\ destroyed # {} => conn[c] \in {"kConnecting", "kConnected", "kDisconnected"}
       /\ \A i \in established, j \in destroyed : i < j

\* getNextLoop deals the connections evenly to the loops of the pool.
LoadBalanced == LET load(l) == Cardinality({c \in Conns : conn[c] # "none" /\ ioLoop[c] = l})
                IN \A k, l \in Range(getAllLoops) : load(k) - load(l) <= 1

\* A connection that has closed is deleted, whatever the base loop is doing.
ClosedIsDeleted == \A c \in Conns : conn[c] = "kDisconnected" ~> conn[c] \in {"destroyed", "lost"}

\* A waiting client is accepted or turned away, also when the process is
\* out of descriptors, as long as the reserve was not lost.
BacklogDrains == \A n \in 0 .. MaxClients :
    listening_ /\ backlog > 0 /\ clients - backlog = n ~> clients - backlog > n \/ ~Serving \/ stolen

\* ~TcpServer returns: the loops it joins see that they are told to quit,
\* unless one was told before its loop() cleared quit_ (EventLoop.cc:108); then
\* it waits for ever.
ServerDestructorEnds == server = "joining" ~> server # "joining" \/ told # quit_

\* Each connection is dealt to a loop, established, removed and destroyed once
\* and in this order, over the queues of two loops, and removal finds it in
\* connections_.
EachRemovedOnce == LoadBalanced /\ EraseFindsOne /\ ConnectionOrder

\* Clients are served: the reserve descriptor is there when it is needed, and
\* everyone in the backlog is accepted or turned away.
BacklogServed == []ReserveKept /\ BacklogDrains

\* What has ended goes away: closed connections and a server being destroyed.
ServerLetsGo == ClosedIsDeleted /\ ServerDestructorEnds
=============================================================================
