--------------------------- MODULE TcpServerProofs ---------------------------
(***************************************************************************)
(* That TcpServer deals out, removes and destroys each connection once,    *)
(* for any number of clients, descriptors and loops, and that its Acceptor *)
(* keeps its reserve.                                                      *)
(***************************************************************************)
EXTENDS TcpServerQueues

(***************************************************************************)
(* ServerInv is inductive.                                                 *)
(***************************************************************************)
LEMMA InitServerInv ==
    ASSUME ServerInit
    PROVE  ServerInv
<1> USE DEF ServerInit, AcceptorInit, LoopPoolInit, acceptorVars, loopPoolVars
<1>1. ServerTypes
  <2>1. <<>> \in Seq(Functors) /\ <<>> \in Seq(Nat) /\ Len(<<>>) = 0
      OBVIOUS
  <2>2. numThreads_ \in 0 .. MaxThreads /\ free \in Nat
      BY ServerAssumption
  <2>3. /\ conn \in [Conns -> States] /\ ioLoop \in [Conns -> Loops]
        /\ queue \in [Loops -> Seq(Functors)] /\ batch \in [Loops -> Seq(Functors)]
        /\ at \in [Loops -> {"starting", "poll", "handled", "functors", "ended"}]
      BY <2>1, BaseIsLoop, Zenon DEF States
  <2>4. loops_ \in Seq(Nat) /\ Len(loops_) <= MaxThreads /\ \A i \in 1 .. Len(loops_) : loops_[i] = i
      BY <2>1, ServerAssumption
  <2>5. QED
      BY <2>2, <2>3, <2>4, Zenon DEF ServerTypes
<1>2. Phases
    BY BaseIsLoop, Zenon DEF Phases
<1>3. Reserve
    BY Zenon DEF Reserve
<1>4. Dealt
  <2>1. \A l \in 1 .. Len(loops_) : FALSE
      OBVIOUS
  <2>2. \A c \in Conns : conn[c] = "none"
      BY Zenon
  <2>3. 0 \in Nat
      BY Zenon
  <2>4. QED
      BY <2>1, <2>2, <2>3, Zenon DEF Dealt
<1>5. \A l \in Loops : Waiting[l] = <<>>
    BY DEF Waiting, Pending
<1>6. \A f, c : \A l \in Loops : ~Has(Waiting[l], f, c) /\ Once(Waiting[l], f, c) /\ Before(Waiting[l], c)
    BY <1>5 DEF Has, Once, Before
<1>7. Placed(Waiting, ioLoop)
    BY <1>6, Zenon DEF Placed
<1>8. Agreed(Waiting, conn, ioLoop, connections_, server)
    BY <1>6, BaseIsLoop, ZenonT(30) DEF Agreed, Agrees, Alive, Open
<1>9. QED
    BY <1>1, <1>2, <1>3, <1>4, <1>7, <1>8, Zenon DEF ServerInv

\* A step that leaves alone what waits, the connections and the server.
LEMMA RestKept ==
    ASSUME ServerInv, ServerTypes', Waiting' = Waiting, conn' = conn, ioLoop' = ioLoop,
           connections_' = connections_, server' = server, loops_' = loops_, next_' = next_
    PROVE  /\ Dealt' /\ Placed(Waiting', ioLoop')
           /\ Agreed(Waiting', conn', ioLoop', connections_', server')
<1>1. Dealt'
    BY DealtKept, Zenon DEF ServerInv
<1>2. QED
    BY <1>1, Zenon DEF ServerInv

LEMMA StartInv ==
    ASSUME SetFacts, ServerInv, start
    PROVE  ServerInv'
<1> USE DEF start, startLoops, listen
<1>1. ServerTypes'
  <2>1. loops_' \in Seq(Nat) /\ Len(loops_') = numThreads_ /\ \A i \in 1 .. Len(loops_') : loops_'[i] = i
      BY DEF ServerInv, ServerTypes
  <2>2. numThreads_ <= MaxThreads /\ next_' = 0
      BY ServerAssumption DEF ServerInv, ServerTypes, Phases
  <2>3. at' \in [Loops -> {"starting", "poll", "handled", "functors", "ended"}]
      BY Zenon DEF ServerInv, ServerTypes
  <2>4. QED
      BY <2>1, <2>2, <2>3, Zenon DEF ServerInv, ServerTypes
<1>2. Phases'
    BY Zenon DEF ServerInv, Phases, Serving
<1>3. Reserve'
    BY Zenon DEF ServerInv, Reserve
<1>4. \A c \in Conns : conn'[c] = "none"
    BY Zenon DEF ServerInv, Phases
<1>5. Dealt'
  <2>1. \A l : {c \in Conns : conn'[c] # "none" /\ ioLoop'[c] = l} = {}
      BY <1>4, Zenon
  <2>2. \A l : Load(l)' = 0
      BY <2>1, OneElement, Zenon DEF Load
  <2>3. next_' = 0
      BY Zenon DEF ServerInv, Phases
  <2>4. \A l \in 1 .. Len(loops_') : Load(l)' = 0 + (IF l <= next_' THEN 1 ELSE 0)
      BY <2>2, <2>3
  <2>5. 0 \in Nat
      BY Zenon
  <2>6. QED
      BY <1>4, <2>4, <2>5, Zenon DEF Dealt
<1>6. Waiting' = Waiting
    BY Zenon DEF Waiting, Pending
<1>7. Agreed(Waiting', conn', ioLoop', connections_', server')
  <2>1. server = "new" /\ server' = "started"
      BY Zenon
  <2>2. QED
      BY <1>6, <2>1, Zenon DEF ServerInv, Agreed, Agrees
<1>8. QED
    BY <1>1, <1>2, <1>3, <1>5, <1>6, <1>7, Zenon DEF ServerInv

LEMMA NewConnectionInv ==
    ASSUME SetFacts, ServerInv, NEW c \in Conns, newConnection(c)
    PROVE  ServerInv'
<1> USE DEF newConnection, handleRead_accept
<1>1. nextLoop \in Loops
  <2>1. Len(loops_) \in Nat /\ (Len(loops_) = 0 <=> loops_ = <<>>)
      BY LenProperties, EmptySeq, Zenon DEF ServerInv, ServerTypes
  <2>2. CASE loops_ = <<>>
      BY <2>2, BaseIsLoop, Zenon DEF nextLoop
  <2>3. CASE loops_ # <<>>
    <3>1. next_ \in Nat /\ next_ + 1 \in 1 .. Len(loops_)
        BY <2>1, <2>3 DEF ServerInv, ServerTypes
    <3>2. nextLoop = next_ + 1 /\ next_ + 1 <= MaxThreads
        BY <2>1, <2>3, <3>1, ServerAssumption, SMTT(30) DEF ServerInv, ServerTypes, nextLoop
    <3>3. QED
        BY <3>1, <3>2, ServerAssumption DEF Loops
  <2>4. QED
      BY <2>2, <2>3, Zenon
<1>2. conn[c] = "none" /\ server = "started"
    BY NumberIsNew, Zenon DEF ServerInv, Phases
<1>3. Waiting \in Waits /\ batch \in Waits /\ queue \in Waits /\ Waiting = Wait(batch, queue)
    BY WaitingIs, Zenon DEF ServerInv
<1>4. <<"connectEstablished", c>> \in Functors
    BY Zenon DEF Functors, Steps
<1>5. queue' \in Waits /\ Waiting' = IF nextLoop = baseLoop_ THEN Waiting ELSE Put(Waiting, nextLoop, <<"connectEstablished", c>>)
  <2>1. CASE nextLoop = baseLoop_
      BY <1>3, <2>1, Zenon DEF Waiting, Pending
  <2>2. CASE nextLoop # baseLoop_
    <3>1. Waiting' = Wait(batch', queue')
        BY Zenon DEF Waiting, Pending, Wait
    <3>2. QED
        BY <1>1, <1>3, <1>4, <2>2, <3>1, WaitPut
  <2>3. QED
      BY <2>1, <2>2, Zenon
<1>6. ServerTypes'
  <2>1. free' \in Nat
      BY DEF ServerInv, ServerTypes
  <2>2. loops_' = loops_ /\ next_' \in Nat /\ (next_' = 0 \/ next_' < Len(loops_))
    <3>1. next_ \in Nat /\ Len(loops_) \in Nat
        BY LenProperties, Zenon DEF ServerInv, ServerTypes
    <3>2. QED
        BY <3>1 DEF getNextLoop
  <2>3. conn' \in [Conns -> States] /\ ioLoop' \in [Conns -> Loops] /\ connections_' \subseteq Conns
      BY <1>1, Zenon DEF ServerInv, ServerTypes, States
  <2>4. at' \in [Loops -> {"starting", "poll", "handled", "functors", "ended"}]
      BY Zenon DEF ServerInv, ServerTypes
  <2>5. QED
      BY <1>5, <2>1, <2>2, <2>3, <2>4, Zenon DEF ServerInv, ServerTypes, Waits
<1>7. Phases'
  <2>1. accepting' = "no" /\ server' = "started" /\ batch' = batch /\ quit_' = quit_
      BY <1>2, Zenon
  <2>2. \A l \in Loops : at'[l] # "functors" => batch'[l] = <<>>
      BY Zenon DEF ServerInv, ServerTypes, Phases
  <2>3. QED
      BY <1>2, <2>1, <2>2, Zenon DEF ServerInv, Phases, Serving
<1>8. Reserve'
    BY Zenon DEF ServerInv, Reserve, ServerTypes
<1>9. \A d \in Conns : d # c => conn'[d] = conn[d]
    BY Zenon DEF ServerInv, ServerTypes
<1>10. conn'[c] = IF nextLoop = baseLoop_ THEN "kConnected" ELSE "kConnecting"
    BY Zenon DEF ServerInv, ServerTypes
<1>11. Dealt'
    BY <1>9, <1>10, DealtOn, ZenonT(30) DEF ServerInv
<1>12. ioLoop' \in [Conns -> Loops] /\ ioLoop'[c] = nextLoop /\ \A d \in Conns : d # c => ioLoop'[d] = ioLoop[d]
    BY <1>1, Zenon DEF ServerInv, ServerTypes
<1>13. Placed(Waiting', ioLoop') /\ Agreed(Waiting', conn', ioLoop', connections_', server')
  <2>1. /\ conn \in [Conns -> States] /\ ioLoop \in [Conns -> Loops] /\ Placed(Waiting, ioLoop)
        /\ Agreed(Waiting, conn, ioLoop, connections_, server)
        /\ connections_' = connections_ \cup {c} /\ server' = server /\ c \in Conns
      BY Zenon DEF ServerInv, ServerTypes
  <2>2. CASE nextLoop = baseLoop_
    <3>1. /\ conn'[c] = "kConnected" /\ (\A d \in Conns : d # c => conn'[d] = conn[d])
          /\ ioLoop'[c] = baseLoop_ /\ (\A d \in Conns : d # c => ioLoop'[d] = ioLoop[d]) /\ Waiting' = Waiting
        BY <1>5, <1>9, <1>10, <1>12, <2>2, ZenonT(30)
    <3>2. QED
        BY ONLY <1>2, <1>3, <2>1, <3>1, NewHere, SMTT(30)
  <2>3. CASE nextLoop # baseLoop_
    <3>1. /\ conn'[c] = "kConnecting" /\ (\A d \in Conns : d # c => conn'[d] = conn[d])
          /\ Waiting' = Put(Waiting, nextLoop, <<"connectEstablished", c>>)
        BY <1>5, <1>9, <1>10, <2>3, Zenon
    <3>2. QED
        BY ONLY <1>1, <1>2, <1>3, <1>12, <2>1, <2>3, <3>1, NewAway, SMTT(30)
  <2>4. QED
      BY <2>2, <2>3, Zenon
<1>14. QED
    BY <1>6, <1>7, <1>8, <1>11, <1>13, Zenon DEF ServerInv

LEMMA HandleCloseInv ==
    ASSUME ServerInv, NEW c \in Conns, handleClose(c)
    PROVE  ServerInv'
<1> USE DEF handleClose, acceptorVars, loopPoolVars
<1>1. /\ conn \in [Conns -> States] /\ ioLoop \in [Conns -> Loops] /\ Placed(Waiting, ioLoop)
      /\ Agreed(Waiting, conn, ioLoop, connections_, server)
      /\ ioLoop' = ioLoop /\ server' = server /\ c \in Conns /\ conn[c] = "kConnected"
      /\ ioLoop[c] \in Loops
    BY Zenon DEF ServerInv, ServerTypes
<1>2. Waiting \in Waits /\ batch \in Waits /\ queue \in Waits /\ Waiting = Wait(batch, queue)
    BY WaitingIs, Zenon DEF ServerInv
<1>3. Waiting' = Wait(batch', queue')
    BY Zenon DEF Waiting, Pending, Wait
<1>4. conn'[c] = "kDisconnected" /\ \A d \in Conns : d # c => conn'[d] = conn[d]
    BY <1>1, Zenon
<1>5. /\ queue' \in Waits /\ connections_' \subseteq connections_
      /\ Placed(Waiting', ioLoop') /\ Agreed(Waiting', conn', ioLoop', connections_', server')
  <2>1. CASE ioLoop[c] = baseLoop_
    <3>1. /\ queue' = Queued(queue, ioLoop[c], <<"connectDestroyed", c>>) /\ batch' = batch
          /\ connections_' = connections_ \ {c}
        BY <2>1, Zenon DEF removeConnection, removeConnectionInLoop
    <3>2. <<"connectDestroyed", c>> \in Functors
        BY Zenon DEF Functors, Steps
    <3>3. queue' \in Waits /\ Waiting' = Put(Waiting, ioLoop[c], <<"connectDestroyed", c>>)
        BY ONLY <1>1, <1>2, <1>3, <3>1, <3>2, WaitPut, SMTT(30)
    <3>4. Placed(Waiting', ioLoop) /\ Agreed(Waiting', conn', ioLoop, connections_ \ {c}, server)
        BY ONLY <1>1, <1>2, <1>4, <2>1, <3>3, CloseHere, SMTT(30)
    <3>5. QED
        BY ONLY <1>1, <3>1, <3>3, <3>4, Zenon
  <2>2. CASE ioLoop[c] # baseLoop_
    <3>1. /\ queue' = Queued(queue, baseLoop_, <<"removeConnectionInLoop", c>>) /\ batch' = batch
          /\ connections_' = connections_
        BY <2>2, Zenon DEF removeConnection
    <3>2. <<"removeConnectionInLoop", c>> \in Functors
        BY Zenon DEF Functors, Steps
    <3>3. queue' \in Waits /\ Waiting' = Put(Waiting, baseLoop_, <<"removeConnectionInLoop", c>>)
        BY ONLY <1>1, <1>2, <1>3, <3>1, <3>2, BaseIsLoop, WaitPut, SMTT(30)
    <3>4. Placed(Waiting', ioLoop) /\ Agreed(Waiting', conn', ioLoop, connections_, server)
        BY ONLY <1>1, <1>2, <1>4, <2>2, <3>3, CloseAway, SMTT(30)
    <3>5. QED
        BY ONLY <1>1, <3>1, <3>3, <3>4, ZenonT(30)
  <2>3. QED
      BY <2>1, <2>2, Zenon
<1>6. ServerTypes'
  <2>1. conn' \in [Conns -> States] /\ connections_' \subseteq Conns
      BY <1>5, Zenon DEF ServerInv, ServerTypes, States
  <2>2. QED
      BY <1>5, <2>1, Zenon DEF ServerInv, ServerTypes, Waits
<1>7. Phases'
  <2>1. server # "new"
      BY <1>1, Zenon DEF ServerInv, Phases
  <2>2. QED
      BY <2>1, Zenon DEF ServerInv, Phases, Serving
<1>8. Reserve'
    BY Zenon DEF ServerInv, Reserve
<1>9. Dealt'
    BY <1>1, <1>4, DealtKept, Zenon DEF ServerInv
<1>10. QED
    BY <1>5, <1>6, <1>7, <1>8, <1>9, ZenonT(30) DEF ServerInv

\* The functors.
LEMMA FunctorInv ==
    ASSUME SetFacts, ServerInv, NEW l \in Loops, functor(l)
    PROVE  ServerInv'
<1> DEFINE f == Head(batch[l])[1]
           c == Head(batch[l])[2]
<1>1. /\ conn \in [Conns -> States] /\ ioLoop \in [Conns -> Loops] /\ Placed(Waiting, ioLoop)
      /\ Agreed(Waiting, conn, ioLoop, connections_, server) /\ l \in Loops
    BY Zenon DEF ServerInv, ServerTypes
<1>2. Waiting \in Waits /\ batch \in Waits /\ queue \in Waits /\ Waiting = Wait(batch, queue)
    BY WaitingIs, Zenon DEF ServerInv
<1>3. Waiting' = Wait(batch', queue')
    BY Zenon DEF Waiting, Pending, Wait
<1>4. /\ at[l] = "functors" /\ batch[l] # <<>> /\ batch' = Take(batch, l) /\ ioLoop' = ioLoop
      /\ loops_' = loops_ /\ next_' = next_ /\ numThreads_' = numThreads_ /\ at' = at /\ quit_' = quit_
    BY Zenon DEF functor, Take, loopPoolVars
<1>5. /\ batch' \in Waits
      /\ Takes(Waiting, Wait(batch', queue), l, f, c)
    BY ONLY <1>1, <1>2, <1>4, WaitTake, ZenonT(30)
<1>6. f \in Steps /\ c \in Conns /\ l = Home(f, ioLoop[c]) /\ ioLoop[c] \in Loops
  <2>1. f \in Steps /\ c \in Conns /\ l = Home(f, ioLoop[c])
      BY ONLY <1>1, <1>2, <1>5, Taking, SMTT(30)
  <2>2. QED
      BY <1>1, <2>1, ZenonT(30)
<1>7. \/ f = "connectEstablished" /\ conn' = [conn EXCEPT ![c] = "kConnected"]
         /\ UNCHANGED <<acceptorVars, connections_, queue, server>>
      \/ f = "connectDestroyed" /\ destroys({c}) /\ UNCHANGED <<connections_, queue, server>>
      \/ /\ f = "removeConnectionInLoop" /\ UNCHANGED <<acceptorVars, conn>>
         /\ IF Serving THEN removeConnectionInLoop(c) /\ UNCHANGED server
            ELSE server' = "dangling" /\ UNCHANGED <<connections_, queue>>
    BY Zenon DEF functor
<1> HIDE DEF f, c
<1>8. /\ queue' \in Waits /\ conn' \in [Conns -> States] /\ connections_' \subseteq connections_
      /\ server' \in {server, "dangling"} /\ (server' = "dangling" => server \notin {"new", "started"})
      /\ Placed(Waiting', ioLoop') /\ Agreed(Waiting', conn', ioLoop', connections_', server')
      /\ \A d \in Conns : conn'[d] # "none" <=> conn[d] # "none"
      /\ idleFd_' = idleFd_ /\ stolen' = stolen /\ accepting' = accepting /\ free' \in Nat /\ free' >= free
  <2>1. free \in Nat
      BY ZenonT(30) DEF ServerInv, ServerTypes
  <2>2. CASE f = "connectEstablished" /\ conn' = [conn EXCEPT ![c] = "kConnected"]
             /\ UNCHANGED <<acceptorVars, connections_, queue, server>>
    <3>1. conn'[c] = "kConnected" /\ (\A d \in Conns : d # c => conn'[d] = conn[d])
          /\ conn' \in [Conns -> States]
        BY <1>1, <1>6, <2>2, Zenon DEF States
    <3>2. Takes(Waiting, Waiting', l, "connectEstablished", c)
        BY <1>3, <1>5, <2>2, Zenon
    <3>3. conn[c] = "kConnecting" /\ Placed(Waiting', ioLoop) /\ Agreed(Waiting', conn', ioLoop, connections_, server)
        BY ONLY <1>1, <1>2, <3>1, <3>2, Establish
    <3>4. \A d \in Conns : conn'[d] # "none" <=> conn[d] # "none"
        BY <3>1, <3>3, ZenonT(30)
    <3>5. QED
        BY <1>2, <1>4, <2>1, <2>2, <3>1, <3>3, <3>4, SMTT(30) DEF acceptorVars
  <2>3. CASE f = "connectDestroyed" /\ destroys({c}) /\ UNCHANGED <<connections_, queue, server>>
    <3>1. conn'[c] = "destroyed" /\ (\A d \in Conns : d # c => conn'[d] = conn[d])
          /\ conn' \in [Conns -> States]
        BY <1>1, <1>6, <2>3, Zenon DEF States, destroys
    <3>2. Takes(Waiting, Waiting', l, "connectDestroyed", c)
        BY <1>3, <1>5, <2>3, Zenon
    <3>3. conn[c] \in Alive /\ Placed(Waiting', ioLoop) /\ Agreed(Waiting', conn', ioLoop, connections_, server)
        BY ONLY <1>1, <1>2, <3>1, <3>2, Destroy
    <3>4. \A d \in Conns : conn'[d] # "none" <=> conn[d] # "none"
        BY <3>1, <3>3, Zenon DEF Alive
    <3>5. Cardinality({c}) = 1
        BY OneElement, Zenon
    <3>6. free' \in Nat /\ free' >= free
        BY <2>1, <2>3, <3>5 DEF destroys
    <3>7. QED
        BY <1>2, <1>4, <2>3, <3>1, <3>3, <3>4, <3>6, ZenonT(30) DEF destroys
  <2>4. CASE /\ f = "removeConnectionInLoop" /\ UNCHANGED <<acceptorVars, conn>>
             /\ Serving /\ removeConnectionInLoop(c) /\ UNCHANGED server
    <3>1. Takes(Waiting, Wait(batch', queue), l, "removeConnectionInLoop", c)
        BY <1>5, <2>4, Zenon
    <3>2. <<"connectDestroyed", c>> \in Functors
        BY <1>6, Zenon DEF Functors, Steps
    <3>3. queue' = Queued(queue, ioLoop[c], <<"connectDestroyed", c>>) /\ connections_' = connections_ \ {c}
          /\ server \in {"new", "started"}
        BY <2>4, Zenon DEF removeConnectionInLoop, Serving
    <3>4. queue' \in Waits /\ Waiting' = Put(Wait(batch', queue), ioLoop[c], <<"connectDestroyed", c>>)
        BY ONLY <1>2, <1>3, <1>5, <1>6, <3>2, <3>3, WaitPut, SMTT(30)
    <3>5. Placed(Waiting', ioLoop) /\ Agreed(Waiting', conn, ioLoop, connections_ \ {c}, server)
      <4>1. PICK M : M = Wait(batch', queue)
          BY Zenon
      <4>2. Takes(Waiting, M, l, "removeConnectionInLoop", c)
            /\ Waiting' = Put(M, ioLoop[c], <<"connectDestroyed", c>>)
          BY <3>1, <3>4, <4>1, Zenon
      <4>3. Waiting \in Waits /\ server \in {"new", "started"}
          BY <1>2, <3>3, Zenon
      <4>4. QED
          BY ONLY <1>1, <4>2, <4>3, Removed, SMTT(30)
    <3>6. QED
      <4>1. /\ idleFd_' = idleFd_ /\ stolen' = stolen /\ accepting' = accepting /\ free' = free
            /\ conn' = conn /\ server' = server
          BY <2>4, Zenon DEF acceptorVars
      <4>2. free' \in Nat /\ free' >= free
          BY ONLY <2>1, <4>1, SMTT(30)
      <4>3. connections_' \subseteq connections_
          BY <3>3, Zenon
      <4>4. server' \in {server, "dangling"} /\ (server' = "dangling" => server \notin {"new", "started"})
          BY <3>3, <4>1, Zenon
      <4>5. Placed(Waiting', ioLoop') /\ Agreed(Waiting', conn', ioLoop', connections_', server')
          BY <1>4, <3>3, <3>5, <4>1, Zenon
      <4>6. QED
          BY <1>1, <3>4, <4>1, <4>2, <4>3, <4>4, <4>5, ZenonT(30)
  <2>5. CASE /\ f = "removeConnectionInLoop" /\ UNCHANGED <<acceptorVars, conn>>
             /\ ~Serving /\ server' = "dangling" /\ UNCHANGED <<connections_, queue>>
    <3>1. Takes(Waiting, Waiting', l, "removeConnectionInLoop", c)
        BY <1>3, <1>5, <2>5, Zenon
    <3>2. server \notin {"new", "started"} /\ server' \notin {"new", "started"}
        BY <2>5, Zenon DEF Serving
    <3>3. Placed(Waiting', ioLoop) /\ Agreed(Waiting', conn, ioLoop, connections_, server')
        BY ONLY <1>1, <1>2, <3>1, <3>2, Dangle, Zenon
    <3>4. QED
        BY <1>1, <1>2, <1>4, <2>1, <2>5, <3>2, <3>3, SMTT(30) DEF acceptorVars
  <2>6. QED
      BY <1>7, <2>2, <2>3, <2>4, <2>5, Zenon
<1>9. ServerTypes'
    BY <1>4, <1>5, <1>8, ZenonT(30) DEF ServerInv, ServerTypes, Waits
<1>10. Phases'
  <2>1. \A m \in Loops : at'[m] # "functors" => batch'[m] = <<>>
      BY <1>2, <1>4, Zenon DEF ServerInv, Phases, Take, Waits
  <2>2. server # "new"
      BY <1>4, Zenon DEF ServerInv, Phases
  <2>3. server' # "new" /\ (Serving' => Serving) /\ (server = "started" => server' = "started")
      BY <1>8, <2>2, Zenon DEF Serving
  <2>4. QED
      BY <1>4, <1>8, <2>1, <2>3, ZenonT(30) DEF ServerInv, Phases
<1>11. Reserve'
  <2>1. free \in Nat
      BY Zenon DEF ServerInv, ServerTypes
  <2>2. free > 0 => free' > 0
      BY <1>8, <2>1
  <2>3. QED
      BY <1>8, <2>2, Zenon DEF ServerInv, Reserve
<1>12. Dealt'
    BY <1>4, <1>8, DealtKept, Zenon DEF ServerInv
<1>13. QED
    BY <1>8, <1>9, <1>10, <1>11, <1>12, Zenon DEF ServerInv

LEMMA PollInv ==
    ASSUME ServerInv, NEW l \in Loops, poll(l)
    PROVE  ServerInv'
<1> USE DEF poll, loopPoolVars
<1>1. ServerTypes'
    BY Zenon DEF ServerInv, ServerTypes
<1>2. Phases'
  <2>1. CASE l = baseLoop_ /\ server = "started" /\ listening_ /\ backlog > 0
      BY <2>1, Zenon DEF ServerInv, Phases, Serving
  <2>2. CASE ~(l = baseLoop_ /\ server = "started" /\ listening_ /\ backlog > 0)
    <3>1. \A m \in Loops : at'[m] # "functors" => batch'[m] = <<>>
        BY <2>2, Zenon DEF ServerInv, Phases, ServerTypes
    <3>2. accepting' # "no" => l # baseLoop_ /\ server' = "started" /\ at'[baseLoop_] = "poll"
        BY <2>2, BaseIsLoop, Zenon DEF ServerInv, Phases, ServerTypes, BaseFree
    <3>3. QED
        BY <3>1, <3>2, Zenon DEF ServerInv, Phases, Serving
  <2>3. QED
      BY <2>1, <2>2, Zenon
<1>3. Reserve'
    BY Zenon DEF ServerInv, Reserve, BaseFree
<1>4. Waiting' = Waiting
    BY Zenon DEF Waiting, Pending
<1>5. QED
    BY <1>1, <1>2, <1>3, <1>4, RestKept, Zenon DEF ServerInv

LEMMA DoPendingFunctorsInv ==
    ASSUME ServerInv, NEW l \in Loops, doPendingFunctors(l)
    PROVE  ServerInv'
<1> USE DEF doPendingFunctors, acceptorVars, loopPoolVars
<1>1. <<>> \in Seq(Functors)
    OBVIOUS
<1>2. ServerTypes'
    BY <1>1, Zenon DEF ServerInv, ServerTypes
<1>3. batch[l] = <<>> /\ \A m \in Loops : queue[m] \in Seq(Functors) /\ batch[m] \in Seq(Functors)
    BY Zenon DEF ServerInv, Phases, ServerTypes
<1>4. Phases'
  <2>1. \A m \in Loops : at'[m] # "functors" => batch'[m] = <<>>
      BY Zenon DEF ServerInv, Phases, ServerTypes
  <2>2. server = "new" => \A m \in Loops : queue'[m] = <<>> /\ batch'[m] = <<>>
      BY Zenon DEF ServerInv, Phases, ServerTypes
  <2>3. accepting # "no" => l # baseLoop_
      BY Zenon DEF ServerInv, Phases
  <2>4. QED
      BY <2>1, <2>2, <2>3, BaseIsLoop, Zenon DEF ServerInv, Phases, ServerTypes, Serving
<1>5. Reserve'
    BY Zenon DEF ServerInv, Reserve
<1>6. Waiting' = Waiting
  <2>1. \A m \in Loops : batch'[m] = (IF m = l THEN queue[l] ELSE batch[m])
                         /\ queue'[m] = IF m = l THEN <<>> ELSE queue[m]
      BY Zenon DEF ServerInv, ServerTypes
  <2>2. queue[l] \o <<>> = <<>> \o queue[l]
      BY <1>3, ConcatEmptySeq, Zenon
  <2>3. \A m \in Loops : batch'[m] \o queue'[m] = batch[m] \o queue[m]
      BY <1>3, <2>1, <2>2, Zenon
  <2>4. QED
      BY <2>3, Zenon DEF Waiting, Pending
<1>7. QED
    BY <1>2, <1>4, <1>5, <1>6, RestKept, Zenon DEF ServerInv

LEMMA LoopTestInv ==
    ASSUME ServerInv, NEW l \in Loops, loopTest(l)
    PROVE  ServerInv'
<1> USE DEF loopTest, acceptorVars, loopPoolVars
<1>1. \A m \in Loops : at'[m] # "functors" => batch'[m] = <<>>
    BY Zenon DEF ServerInv, Phases, ServerTypes
<1>2. accepting # "no" => l # baseLoop_
    BY Zenon DEF ServerInv, Phases
<1>3. Reserve'
    BY ZenonT(30) DEF ServerInv, Reserve
<1>4. CASE l \notin quit_
  <2>1. ServerTypes'
      BY <1>4, ZenonT(30) DEF ServerInv, ServerTypes
  <2>2. Phases'
      BY <1>1, <1>2, <1>4, BaseIsLoop, Zenon DEF ServerInv, Phases, ServerTypes, Serving
  <2>3. Waiting' = Waiting
      BY <1>4, ZenonT(30) DEF Waiting, Pending
  <2>4. QED
      BY <1>3, <1>4, <2>1, <2>2, <2>3, RestKept, ZenonT(30) DEF ServerInv
<1>5. CASE l \in quit_
  <2>1. server \notin {"new", "started"} /\ l # baseLoop_
      BY <1>5 DEF ServerInv, Phases, Serving, ServerTypes, baseLoop_
  <2>2. /\ conn \in [Conns -> States] /\ ioLoop \in [Conns -> Loops] /\ Placed(Waiting, ioLoop)
        /\ Agreed(Waiting, conn, ioLoop, connections_, server) /\ l \in Loops
        /\ ioLoop' = ioLoop /\ connections_' = connections_ /\ server' = server
      BY Zenon DEF ServerInv, ServerTypes
  <2>3. Waiting \in Waits /\ \A m \in Loops : Waiting[m] = batch[m] \o queue[m]
      BY WaitingIs, ZenonT(30) DEF ServerInv
  <2>4. queue[l] \in Seq(Functors) /\ batch[l] = <<>>
      BY Zenon DEF ServerInv, ServerTypes
  <2>5. Waiting[l] = queue[l]
      BY <2>3, <2>4, ConcatEmptySeq, Zenon
  <2>6. Waiting' = Drop(Waiting, l)
    <3>1. \A m \in Loops : queue'[m] = (IF m = l THEN <<>> ELSE queue[m]) /\ batch'[m] = batch[m]
        BY <1>5, Zenon DEF ServerInv, ServerTypes
    <3>2. <<>> \o <<>> = <<>>
        OBVIOUS
    <3>3. \A m \in Loops : batch'[m] \o queue'[m] = IF m = l THEN <<>> ELSE batch[m] \o queue[m]
        BY <2>4, <3>1, <3>2, ZenonT(30)
    <3>4. QED
        BY <3>3, ZenonT(30) DEF Waiting, Pending, Drop
  <2>7. \A c \in Conns : c \in Dropped(l) <=>
            Has(Waiting[l], "connectEstablished", c) \/ Has(Waiting[l], "connectDestroyed", c)
    <3>1. DOMAIN queue[l] = 1 .. Len(queue[l])
        BY <2>4
    <3>2. \A i \in 1 .. Len(queue[l]) : queue[l][i] \in Functors
        BY <2>4, ElementOfSeq, Zenon
    <3>3. \A i \in 1 .. Len(queue[l]) : \A c \in Conns :
              queue[l][i][2] = c /\ queue[l][i][1] # "removeConnectionInLoop" <=>
              queue[l][i] = <<"connectEstablished", c>> \/ queue[l][i] = <<"connectDestroyed", c>>
        BY <3>2 DEF Functors, Steps
    <3>4. \A c \in Conns : c \in Dropped(l) <=>
              \E i \in 1 .. Len(queue[l]) : queue[l][i][2] = c /\ queue[l][i][1] # "removeConnectionInLoop"
        BY <3>1, Zenon DEF Dropped
    <3>5. QED
        BY <2>5, <3>3, <3>4, SMTT(30) DEF Has
  <2>8. \A c \in Conns : conn'[c] = IF c \in Dropped(l) THEN "lost" ELSE conn[c]
      BY <1>5, Zenon
  <2>9. /\ \A c \in Conns : c \in Dropped(l) => conn[c] # "none"
        /\ Placed(Waiting', ioLoop) /\ Agreed(Waiting', conn', ioLoop, connections_, server)
    <3>1. Waiting \in Waits
        BY <2>3, ZenonT(30)
    <3>2. QED
        BY ONLY <2>1, <2>2, <2>6, <2>7, <2>8, <3>1, Dropping, SMTT(30)
  <2>10. ServerTypes'
    <3>1. conn' \in [Conns -> States]
        BY <1>5, <2>2, Zenon DEF States
    <3>2. queue' \in [Loops -> Seq(Functors)]
      <4>1. <<>> \in Seq(Functors)
          OBVIOUS
      <4>2. QED
          BY <1>5, <4>1, ZenonT(30) DEF ServerInv, ServerTypes
    <3>3. at' \in [Loops -> {"starting", "poll", "handled", "functors", "ended"}]
        BY <1>5, Zenon DEF ServerInv, ServerTypes
    <3>4. QED
        BY <3>1, <3>2, <3>3, ZenonT(30) DEF ServerInv, ServerTypes
  <2>11. Phases'
      BY <1>1, <2>1, Zenon DEF ServerInv, Phases, Serving
  <2>12. Dealt'
    <3>1. \A c \in Conns : conn'[c] # "none" <=> conn[c] # "none"
        BY <2>8, <2>9, ZenonT(30)
    <3>2. QED
        BY <2>2, <3>1, DealtKept, ZenonT(30) DEF ServerInv
  <2>13. QED
      BY <1>3, <2>2, <2>9, <2>10, <2>11, <2>12, ZenonT(30) DEF ServerInv
<1>6. QED
    BY <1>4, <1>5, Zenon

LEMMA BeginLoopInv ==
    ASSUME ServerInv, NEW l \in Loops, beginLoop(l)
    PROVE  ServerInv'
<1> USE DEF beginLoop, acceptorVars, loopPoolVars
<1>1. ServerTypes'
  <2>1. quit_' \subseteq 1 .. MaxThreads
      BY Zenon DEF ServerInv, ServerTypes
  <2>2. QED
      BY <2>1, ZenonT(30) DEF ServerInv, ServerTypes
<1>2. Phases'
  <2>1. \A m \in Loops : at'[m] # "functors" => batch'[m] = <<>>
      BY Zenon DEF ServerInv, Phases, ServerTypes
  <2>2. accepting # "no" => l # baseLoop_
      BY Zenon DEF ServerInv, Phases
  <2>3. quit_' # {} => ~Serving
      BY Zenon DEF ServerInv, Phases
  <2>4. QED
      BY <2>1, <2>2, <2>3, BaseIsLoop, Zenon DEF ServerInv, Phases, ServerTypes, Serving
<1>3. Reserve'
    BY Zenon DEF ServerInv, Reserve
<1>4. Waiting' = Waiting
    BY Zenon DEF Waiting, Pending
<1>5. QED
    BY <1>1, <1>2, <1>3, <1>4, RestKept, Zenon DEF ServerInv

LEMMA HandlesReadInv ==
    ASSUME ServerInv, handlesRead
    PROVE  ServerInv'
<1> USE DEF handlesRead, handleRead, handleRead_emfile, handleRead_again, handleRead_drop,
            handleRead_reopen, loopPoolVars
<1>1. /\ idleFd_' \in BOOLEAN /\ stolen' = stolen /\ free' \in Nat
      /\ accepting # "no" /\ accepting' \in {"no", "accept", "again", "drop", "reopen"}
      /\ at' \in [Loops -> {"starting", "poll", "handled", "functors", "ended"}]
  <2>1. free \in Nat /\ at \in [Loops -> {"starting", "poll", "handled", "functors", "ended"}] /\ idleFd_ \in BOOLEAN
      BY Zenon DEF ServerInv, ServerTypes
  <2>2. at' \in [Loops -> {"starting", "poll", "handled", "functors", "ended"}]
      BY <2>1, ZenonT(30)
  <2>3. (free > 0) \in BOOLEAN
      OBVIOUS
  <2>4. CASE handleRead_emfile
    <3>1. free' \in Nat /\ stolen' = stolen /\ accepting # "no"
          /\ accepting' \in {"no", "accept", "again", "drop", "reopen"}
        BY <2>1, <2>4
    <3>2. idleFd_' \in BOOLEAN
        BY <2>1, <2>4, ZenonT(30)
    <3>3. QED
        BY <2>2, <3>1, <3>2, Zenon
  <2>5. CASE handleRead_again
    <3>1. free' \in Nat /\ stolen' = stolen /\ accepting # "no"
          /\ accepting' \in {"no", "accept", "again", "drop", "reopen"}
        BY <2>1, <2>5
    <3>2. idleFd_' \in BOOLEAN
        BY <2>1, <2>5, ZenonT(30)
    <3>3. QED
        BY <2>2, <3>1, <3>2, Zenon
  <2>6. CASE handleRead_drop
    <3>1. free' \in Nat /\ stolen' = stolen /\ accepting # "no"
          /\ accepting' \in {"no", "accept", "again", "drop", "reopen"}
        BY <2>1, <2>6
    <3>2. idleFd_' \in BOOLEAN
        BY <2>1, <2>6, Zenon
    <3>3. QED
        BY <2>2, <3>1, <3>2, Zenon
  <2>7. CASE handleRead_reopen
      BY <2>1, <2>2, <2>3, <2>7, SMTT(30)
  <2>8. QED
      BY <2>4, <2>5, <2>6, <2>7, Zenon
<1>2. ServerTypes'
    BY <1>1, Zenon DEF ServerInv, ServerTypes
<1>3. Phases'
  <2>1. server = "started" /\ at[baseLoop_] = "poll"
      BY <1>1, ZenonT(30) DEF ServerInv, Phases
  <2>2. \A m \in Loops : at'[m] # "functors" => batch'[m] = <<>>
      BY <2>1, ZenonT(30) DEF ServerInv, Phases, ServerTypes
  <2>3. accepting' # "no" => at' = at
      BY Zenon
  <2>4. QED
      BY <2>1, <2>2, <2>3, ZenonT(30) DEF ServerInv, Phases, Serving
<1>4. Reserve'
  <2>1. free \in Nat /\ (~stolen => /\ accepting \in {"no", "accept", "drop"} => idleFd_
                                    /\ accepting \in {"again", "reopen"} => free > 0)
      BY ZenonT(30) DEF ServerInv, Reserve, ServerTypes
  <2>2. CASE handleRead_emfile
      BY <2>1, <2>2 DEF Reserve
  <2>3. CASE handleRead_again
      BY <2>1, <2>3, ZenonT(30) DEF Reserve
  <2>4. CASE handleRead_drop
      BY <2>1, <2>4 DEF Reserve
  <2>5. CASE handleRead_reopen
      BY <2>1, <2>5, ZenonT(30) DEF Reserve
  <2>6. QED
      BY <2>2, <2>3, <2>4, <2>5, ZenonT(30)
<1>5. Waiting' = Waiting
    BY Zenon DEF Waiting, Pending
<1>6. QED
    BY <1>2, <1>3, <1>4, <1>5, RestKept, Zenon DEF ServerInv

LEMMA WorldInv ==
    ASSUME ServerInv, World
    PROVE  ServerInv'
<1> USE DEF World, connects, opens, loopPoolVars, loopVars
<1>1. ServerTypes'
  <2>1. free \in Nat /\ stolen \in BOOLEAN
      BY Zenon DEF ServerInv, ServerTypes
  <2>2. free' \in Nat /\ accepting' = accepting /\ idleFd_' = idleFd_
      BY <2>1
  <2>3. stolen' \in BOOLEAN
      BY <2>1, Zenon
  <2>4. QED
      BY <2>2, <2>3, Zenon DEF ServerInv, ServerTypes
<1>2. Phases'
    BY ZenonT(30) DEF ServerInv, Phases, Serving
<1>3. Reserve'
    BY ZenonT(30) DEF ServerInv, Reserve
<1>4. Waiting' = Waiting
    BY Zenon DEF Waiting, Pending
<1>5. QED
    BY <1>1, <1>2, <1>3, <1>4, RestKept, Zenon DEF ServerInv

\* ~TcpServer.
LEMMA DestroyServerInv ==
    ASSUME SetFacts, ServerInv, destroyServer
    PROVE  ServerInv'
<1> DEFINE own == {c \in connections_ : ioLoop[c] = baseLoop_}
           last(l) == {c \in connections_ \ own : ioLoop[c] = l}
<1>1. /\ conn \in [Conns -> States] /\ ioLoop \in [Conns -> Loops] /\ Placed(Waiting, ioLoop)
      /\ Agreed(Waiting, conn, ioLoop, connections_, server) /\ server \in {"new", "started"}
      /\ ioLoop' = ioLoop /\ server' = "joining" /\ connections_' = {} /\ connections_ \in SUBSET Conns
    BY Zenon DEF ServerInv, ServerTypes, destroyServer, Serving
<1>2. Waiting \in Waits /\ (\A l \in Loops : Waiting[l] = batch[l] \o queue[l])
      /\ batch \in Waits /\ queue \in Waits
    BY WaitingIs, Zenon DEF ServerInv
<1>3. /\ \A c \in Conns : conn'[c] = IF c \in connections_ /\ ioLoop[c] = baseLoop_ THEN "destroyed" ELSE conn[c]
      /\ conn' \in [Conns -> States]
    BY <1>1, Zenon DEF destroyServer, destroys, States
<1>4. /\ accepting = "no" /\ accepting' = "no" /\ batch' = batch /\ idleFd_' = idleFd_ /\ stolen' = stolen
      /\ loops_' = loops_ /\ next_' = next_ /\ numThreads_' = numThreads_ /\ at' = at /\ quit_' = quit_
      /\ free' = free + Cardinality(own)
    BY Zenon DEF destroyServer, destroys, loopPoolVars
<1>5. \A l \in Loops : last(l) = {c \in connections_ : ioLoop[c] # baseLoop_ /\ ioLoop[c] = l}
    BY Zenon
<1>6. \A l \in Loops : queue'[l] = queue[l] \o [i \in 1 .. Cardinality(last(l)) |-> <<"connectDestroyed", mapOrder(last(l))[i]>>]
    BY Zenon DEF destroyServer
<1>7. \A l \in Loops : queue'[l] = Pour(queue[l], last(l))
    BY <1>6, Zenon DEF Pour
<1>8. \A l \in Loops : IsFiniteSet(last(l)) /\ last(l) \in SUBSET Conns
  <2> TAKE l \in Loops
  <2>1. last(l) \subseteq Conns
      BY <1>1, Zenon
  <2>2. QED
      BY <2>1, ConnsFinite, Subsets, Zenon
<1>9. free' \in Nat
  <2>1. own \subseteq Conns
      BY <1>1, Zenon
  <2>2. Cardinality(own) \in Nat
      BY <2>1, ConnsFinite, Subsets, Zenon
  <2>3. QED
      BY <1>4, <2>2 DEF ServerInv, ServerTypes
<1> HIDE DEF own, last
<1>10. queue' \in Waits
  <2>1. \A l \in Loops : queue[l] \in Seq(Functors)
      BY <1>2, Zenon DEF Waits
  <2>2. \A l \in Loops : Pour(queue[l], last(l)) \in Seq(Functors)
      BY <1>8, <2>1, PourHas, Zenon
  <2>3. \A l \in Loops : queue'[l] \in Seq(Functors)
      BY <1>7, <2>2, Zenon
  <2>4. queue' = [l \in Loops |-> queue'[l]]
      BY Zenon DEF destroyServer
  <2>5. QED
      BY <2>3, <2>4, Zenon DEF Waits
<1>11. Pours(Waiting, Waiting', ioLoop, connections_)
  <2> SUFFICES ASSUME NEW l \in Loops PROVE Waiting'[l] = Pour(Waiting[l], last(l))
      BY <1>5, Zenon DEF Pours
  <2>1. Waiting'[l] = batch[l] \o Pour(queue[l], last(l))
      BY <1>4, <1>7, Zenon DEF Waiting, Pending
  <2>2. batch[l] \in Seq(Functors) /\ queue[l] \in Seq(Functors)
      BY <1>2, Zenon DEF Waits
  <2>3. batch[l] \o Pour(queue[l], last(l)) = Pour(batch[l] \o queue[l], last(l))
      BY <1>8, <2>2, PourBoth, Zenon
  <2>4. QED
      BY <1>2, <2>1, <2>3, ZenonT(30)
<1>12. /\ \A c \in connections_ : conn[c] # "none"
       /\ Placed(Waiting', ioLoop) /\ Agreed(Waiting', conn', ioLoop, {}, "joining")
  <2>1. Waiting \in Waits
      BY <1>2, Zenon
  <2>2. Ends(conn, conn', ioLoop, connections_)
      BY <1>3, Zenon DEF Ends
  <2>3. QED
      BY ONLY SetFacts, <1>1, <1>11, <2>1, <2>2, Ending, ZenonT(30)
<1>13. ServerTypes'
    BY <1>1, <1>3, <1>4, <1>9, <1>10, ZenonT(30) DEF ServerInv, ServerTypes, Waits
<1>14. Phases'
    BY <1>1, <1>4, ZenonT(30) DEF ServerInv, Phases, Serving
<1>15. Reserve'
    BY <1>4, Zenon DEF ServerInv, Reserve
<1>16. Dealt'
  <2>1. \A c \in Conns : conn'[c] # "none" <=> conn[c] # "none"
      BY <1>3, <1>12, ZenonT(30)
  <2>2. QED
      BY <1>1, <1>4, <2>1, DealtKept, Zenon DEF ServerInv
<1>17. QED
    BY <1>1, <1>12, <1>13, <1>14, <1>15, <1>16, ZenonT(30) DEF ServerInv

LEMMA QuitLoopInv ==
    ASSUME ServerInv, NEW l \in Loops, quitLoop(l)
    PROVE  ServerInv'
<1> USE DEF quitLoop, acceptorVars, loopPoolVars
<1>1. ServerTypes'
  <2>1. l \in 1 .. MaxThreads
    <3>1. Len(loops_) \in Nat /\ Len(loops_) <= MaxThreads
        BY LenProperties, ZenonT(30) DEF ServerInv, ServerTypes
    <3>2. QED
        BY <3>1, ServerAssumption
  <2>2. quit_' \subseteq 1 .. MaxThreads
      BY <2>1, Zenon DEF ServerInv, ServerTypes
  <2>3. QED
      BY <2>2, ZenonT(30) DEF ServerInv, ServerTypes
<1>2. Phases'
    BY ZenonT(30) DEF ServerInv, Phases, Serving
<1>3. Reserve'
    BY Zenon DEF ServerInv, Reserve
<1>4. Waiting' = Waiting
    BY Zenon DEF Waiting, Pending
<1>5. QED
    BY <1>1, <1>2, <1>3, <1>4, RestKept, ZenonT(30) DEF ServerInv

LEMMA DestroyAcceptorInv ==
    ASSUME ServerInv, destroyAcceptor
    PROVE  ServerInv'
<1> USE DEF destroyAcceptor, loopPoolVars, loopVars
<1>1. ServerTypes'
    BY Zenon DEF ServerInv, ServerTypes
<1>2. Phases'
    BY ZenonT(30) DEF ServerInv, Phases, Serving
<1>3. Reserve'
    BY Zenon DEF ServerInv, Reserve
<1>4. Waiting' = Waiting
    BY Zenon DEF Waiting, Pending
<1>5. Dealt'
    BY DealtKept, Zenon DEF ServerInv
<1>6. Agreed(Waiting', conn', ioLoop', connections_', server')
  <2>1. server = "joining" /\ server' = "gone"
      BY Zenon
  <2>2. QED
      BY <1>4, <2>1, Zenon DEF ServerInv, Agreed, Agrees
<1>7. QED
    BY <1>1, <1>2, <1>3, <1>4, <1>5, <1>6, ZenonT(30) DEF ServerInv

LEMMA NextServerInv ==
    ASSUME SetFacts, ServerInv, [ServerNext]_serverVars
    PROVE  ServerInv'
<1>1. CASE UNCHANGED serverVars
  <2> USE <1>1 DEF serverVars, acceptorVars, loopPoolVars, loopVars
  <2>1. ServerTypes'
      BY ZenonT(30) DEF ServerInv, ServerTypes
  <2>2. Phases'
      BY ZenonT(30) DEF ServerInv, Phases, Serving
  <2>3. Reserve'
      BY Zenon DEF ServerInv, Reserve
  <2>4. Waiting' = Waiting
      BY Zenon DEF Waiting, Pending
  <2>5. QED
      BY <2>1, <2>2, <2>3, <2>4, RestKept, Zenon DEF ServerInv
<1>2. CASE start
    BY <1>2, StartInv, Zenon
<1>3. CASE BaseStep
    BY <1>3, HandlesReadInv, DestroyAcceptorInv, NewConnectionInv, Zenon DEF BaseStep
<1>4. CASE destroyServer
    BY <1>4, DestroyServerInv, Zenon
<1>5. CASE World
    BY <1>5, WorldInv, Zenon
<1>6. ASSUME NEW l \in Loops, LoopStep(l) PROVE ServerInv'
    BY <1>6, FunctorInv, PollInv, DoPendingFunctorsInv, LoopTestInv, BeginLoopInv, Zenon DEF LoopStep
<1>7. ASSUME NEW l \in Loops, quitLoop(l) PROVE ServerInv'
    BY <1>7, QuitLoopInv, Zenon
<1>8. ASSUME NEW c \in Conns, handleClose(c) PROVE ServerInv'
    BY <1>8, HandleCloseInv, Zenon
<1>9. QED
    BY <1>1, <1>2, <1>3, <1>4, <1>5, <1>6, <1>7, <1>8, ZenonT(30) DEF ServerNext
-----------------------------------------------------------------------------
(***************************************************************************)
(* What follows from it.                                                   *)
(***************************************************************************)
Found(s, f, c) == {i \in DOMAIN s : s[i] = <<f, c>>}

LEMMA CountOnce ==
    ASSUME SetFacts, NEW s \in Seq(Functors), NEW f, NEW c, Once(s, f, c)
    PROVE  /\ Cardinality(Found(s, f, c)) = IF Has(s, f, c) THEN 1 ELSE 0
           /\ Found(s, f, c) # {} <=> Has(s, f, c)
<1> DEFINE S == {i \in DOMAIN s : s[i] = <<f, c>>}
<1> USE DEF Found
<1>1. DOMAIN s = 1 .. Len(s)
    OBVIOUS
<1>2. S # {} <=> Has(s, f, c)
    BY <1>1, Zenon DEF Has
<1>3. CASE Has(s, f, c)
  <2>1. PICK i \in 1 .. Len(s) : s[i] = <<f, c>>
      BY <1>3, Zenon DEF Has
  <2>2. S = {i}
      BY <1>1, <2>1, Zenon DEF Once
  <2>3. QED
      BY <1>2, <1>3, <2>2, OneElement, ZenonT(30)
<1>4. CASE ~Has(s, f, c)
    BY <1>2, <1>4, OneElement, Zenon
<1>5. QED
    BY <1>3, <1>4, Zenon

LEMMA InvBalances == ASSUME SetFacts, ServerInv PROVE LoadBalanced
<1>1. PICK r \in Nat : \A l \in 1 .. Len(loops_) : Load(l) = r + (IF l <= next_ THEN 1 ELSE 0)
    BY Zenon DEF ServerInv, Dealt
<1>2. loops_ \in Seq(Nat) /\ DOMAIN loops_ = 1 .. Len(loops_) /\ \A i \in 1 .. Len(loops_) : loops_[i] = i
    BY DEF ServerInv, ServerTypes
<1>3. CASE loops_ = <<>>
  <2>1. Range(getAllLoops) = {baseLoop_}
      BY <1>3 DEF getAllLoops, Range
  <2>2. Load(baseLoop_) \in Nat
      BY ConnsFinite, Subsets, Zenon DEF Load
  <2>3. QED
      BY <2>1, <2>2 DEF LoadBalanced, Load
<1>4. CASE loops_ # <<>>
  <2>1. Range(getAllLoops) = 1 .. Len(loops_)
    <3>1. getAllLoops = loops_
        BY <1>4, Zenon DEF getAllLoops
    <3>2. Range(loops_) = {loops_[i] : i \in 1 .. Len(loops_)}
        BY <1>2, Zenon DEF Range
    <3>3. QED
        BY <1>2, <3>1, <3>2, Zenon
  <2>2. \A k, l \in 1 .. Len(loops_) : Load(k) - Load(l) <= 1
      BY <1>1
  <2>3. QED
      BY <2>1, <2>2, Zenon DEF LoadBalanced, Load
<1>5. QED
    BY <1>3, <1>4, Zenon

LEMMA InvErases == ASSUME SetFacts, ServerInv PROVE EraseFindsOne
<1> SUFFICES ASSUME Serving, NEW c \in Conns
             PROVE  LET removals == Cardinality(Places(baseLoop_, "removeConnectionInLoop", c))
                    IN /\ c \in connections_ <=> conn[c] \in {"kConnecting", "kConnected"} \/ removals > 0
                       /\ removals = IF c \in connections_ /\ conn[c] = "kDisconnected" THEN 1 ELSE 0
    BY Zenon DEF EraseFindsOne
<1> DEFINE P == Waiting[baseLoop_]
           removals == Cardinality(Places(baseLoop_, "removeConnectionInLoop", c))
<1>1. P \in Seq(Functors) /\ P = Pending(baseLoop_)
    BY WaitingIs, BaseIsLoop, Zenon DEF ServerInv, Waits, Pending
<1>2. Once(P, "removeConnectionInLoop", c)
    BY BaseIsLoop, Zenon DEF ServerInv, Placed, Steps
<1>3. removals = IF Has(P, "removeConnectionInLoop", c) THEN 1 ELSE 0
  <2>1. Places(baseLoop_, "removeConnectionInLoop", c) = Found(P, "removeConnectionInLoop", c)
      BY <1>1, Zenon DEF Places, Found
  <2>2. QED
      BY <1>1, <1>2, <2>1, CountOnce, Zenon
<1>4. Agrees(c, conn[c], ioLoop[c], Waiting[ioLoop[c]], P, connections_, server)
    BY Zenon DEF ServerInv, Agreed
<1>5. server \in {"new", "started"}
    BY ZenonT(30) DEF Serving
<1> HIDE DEF P, removals
<1>6. /\ c \in connections_ <=> conn[c] \in {"kConnecting", "kConnected"} \/ removals > 0
      /\ removals = IF c \in connections_ /\ conn[c] = "kDisconnected" THEN 1 ELSE 0
    BY <1>3, <1>4, <1>5, SMTT(30) DEF Agrees, Open
<1>7. QED
    BY <1>6, Zenon DEF removals

LEMMA InvOrders == ASSUME SetFacts, ServerInv PROVE ConnectionOrder
<1> SUFFICES ASSUME NEW c \in Conns
             PROVE  LET established == Places(ioLoop[c], "connectEstablished", c)
                        destroyed == Places(ioLoop[c], "connectDestroyed", c)
                    IN /\ Cardinality(established) = IF conn[c] = "kConnecting" THEN 1 ELSE 0
                       /\ Cardinality(destroyed) <= 1
                       /\ destroyed # {} => conn[c] \in {"kConnecting", "kConnected", "kDisconnected"}
                       /\ \A i \in established, j \in destroyed : i < j
    BY Zenon DEF ConnectionOrder
<1> DEFINE P == Waiting[ioLoop[c]]
           established == Places(ioLoop[c], "connectEstablished", c)
           destroyed == Places(ioLoop[c], "connectDestroyed", c)
<1>1. ioLoop[c] \in Loops
    BY Zenon DEF ServerInv, ServerTypes
<1>2. P \in Seq(Functors) /\ P = Pending(ioLoop[c])
    BY <1>1, WaitingIs, Zenon DEF ServerInv, Waits, Pending
<1>3. Once(P, "connectEstablished", c) /\ Once(P, "connectDestroyed", c)
    BY <1>1, ZenonT(30) DEF ServerInv, Placed, Steps
<1>4. Agrees(c, conn[c], ioLoop[c], P, Waiting[baseLoop_], connections_, server)
    BY ZenonT(30) DEF ServerInv, Agreed
<1>5. established = Found(P, "connectEstablished", c) /\ destroyed = Found(P, "connectDestroyed", c)
    BY <1>2, Zenon DEF Places, Found
<1> HIDE DEF P, established, destroyed
<1>6. Cardinality(established) = IF Has(P, "connectEstablished", c) THEN 1 ELSE 0
    BY <1>2, <1>3, <1>5, CountOnce, Zenon
<1>7. Cardinality(destroyed) = (IF Has(P, "connectDestroyed", c) THEN 1 ELSE 0)
      /\ (destroyed # {} <=> Has(P, "connectDestroyed", c))
    BY <1>2, <1>3, <1>5, CountOnce, Zenon
<1>8. \A i \in established, j \in destroyed : i < j
  <2>1. DOMAIN P = 1 .. Len(P)
      BY <1>2, SMTT(30)
  <2>2. QED
      BY <1>4, <1>5, <2>1, Zenon DEF Agrees, Before, Found
<1>9. /\ Cardinality(established) = IF conn[c] = "kConnecting" THEN 1 ELSE 0
      /\ Cardinality(destroyed) <= 1
      /\ destroyed # {} => conn[c] \in {"kConnecting", "kConnected", "kDisconnected"}
    BY <1>4, <1>6, <1>7, SMTT(30) DEF Agrees, Alive
<1>10. QED
    BY <1>8, <1>9, ZenonT(30) DEF established, destroyed

-----------------------------------------------------------------------------
\* The facts about finite sets, from the theorems on them.
INSTANCE FiniteSetTheorems

LEMMA MapOrder ==
    ASSUME NEW S, IsFiniteSet(S)
    PROVE  Enumerates(mapOrder(S), S)
<1> DEFINE n == Cardinality(S)
           e == mapOrder(S)
<1>1. n \in Nat /\ ExistsBijection(1 .. n, S)
    BY FS_CardinalityType, Zenon
<1>2. PICK b : b \in Bijection(1 .. n, S)
    BY <1>1, Zenon DEF ExistsBijection
<1>3. b \in [1 .. n -> S] /\ IsInjective(b)
    BY <1>2, Zenon DEF Bijection, Injection, IsInjective
<1>4. e \in [1 .. n -> S] /\ IsInjective(e)
    BY <1>3, Zenon DEF mapOrder
<1>5. e \in Injection(1 .. n, S)
    BY <1>4, Zenon DEF IsInjective, Injection
<1>6. IsFiniteSet(1 .. n) /\ Cardinality(1 .. n) = n
    BY <1>1, FS_Interval, SMTT(30)
<1>7. e \in Surjection(1 .. n, S)
    BY <1>5, <1>6, FS_Injection, ZenonT(30)
<1>8. QED
    BY <1>1, <1>4, <1>7, ZenonT(30) DEF Surjection, IsInjective, Enumerates

LEMMA SetFactsHold == SetFacts
<1>1. IsFiniteSet(Conns)
  <2>1. 1 \in Int /\ MaxClients \in Int
      BY ServerAssumption, SMTT(30)
  <2>2. QED
      BY <2>1, FS_Interval, ZenonT(30) DEF Conns
<1>2. Cardinality({}) = 0 /\ \A x : Cardinality({x}) = 1
    BY FS_EmptySet, FS_Singleton, Zenon
<1>3. ASSUME NEW n \in Nat
      PROVE  IsFiniteSet(1 .. n) /\ Cardinality(1 .. n) = n
  <2>1. IsFiniteSet(1 .. n) /\ Cardinality(1 .. n) = IF 1 > n THEN 0 ELSE n - 1 + 1
      BY FS_Interval
  <2>2. QED
      BY <2>1
<1>4. ASSUME NEW S, IsFiniteSet(S)
      PROVE  /\ Cardinality(S) \in Nat
             /\ \A T \in SUBSET S : IsFiniteSet(T) /\ Cardinality(T) <= Cardinality(S)
             /\ \A x : x \notin S => Cardinality(S \cup {x}) = Cardinality(S) + 1
             /\ Enumerates(mapOrder(S), S)
  <2>1. Cardinality(S) \in Nat
      BY <1>4, FS_CardinalityType, Zenon
  <2>2. \A T \in SUBSET S : IsFiniteSet(T) /\ Cardinality(T) <= Cardinality(S)
      BY <1>4, FS_Subset, Zenon
  <2>3. \A x : x \notin S => Cardinality(S \cup {x}) = Cardinality(S) + 1
      BY <1>4, FS_AddElement, Zenon
  <2>4. QED
      BY <1>4, <2>1, <2>2, <2>3, MapOrder, ZenonT(30)
<1>5. QED
    BY <1>1, <1>2, <1>3, <1>4, ZenonT(30) DEF SetFacts

LEMMA ServerInvariant == ServerSpec => []ServerInv
<1>1. ServerInit => ServerInv
    BY InitServerInv, Zenon
<1>2. ServerInv /\ [ServerNext]_serverVars => ServerInv'
    BY SetFactsHold, NextServerInv, Zenon
<1>3. QED
    BY <1>1, <1>2, PTL DEF ServerSpec

\* TcpServer: every connection is dealt to a loop, each loop in turn; its
\* connectEstablished, removeConnectionInLoop and connectDestroyed run once
\* each and in this order although they cross the queues of two loops; and
\* the erase in removeConnectionInLoop finds it, as its assert claims.  For
\* any number of clients, free descriptors and threads.
THEOREM EachRemovedOnceTheorem == ServerSpec => []EachRemovedOnce
<1>1. ServerInv => EachRemovedOnce
    BY SetFactsHold, InvBalances, InvErases, InvOrders, ZenonT(30) DEF EachRemovedOnce
<1>2. QED
    BY <1>1, ServerInvariant, PTL

\* Acceptor::handleRead takes its reserve descriptor back, unless another
\* thread took it in between.
THEOREM ReserveKeptTheorem == ServerSpec => []ReserveKept
<1>1. ServerInv => ReserveKept
    BY Zenon DEF ServerInv, Reserve, ReserveKept
<1>2. QED
    BY <1>1, ServerInvariant, PTL
=============================================================================
