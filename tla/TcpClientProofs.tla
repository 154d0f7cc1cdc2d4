-------------------------- MODULE TcpClientProofs ---------------------------
(***************************************************************************)
(* OneAttemptOwned, proved for any number of calls of the other thread.    *)
(***************************************************************************)
EXTENDS TcpClient, TLAPS

Functors == {"startInLoop", "stopInLoop", "resetChannel", "setCloseCallback", "forceClose",
             "connectDestroyed"}

ClientTypes ==
    /\ state_ \in {"kDisconnected", "kConnecting", "kConnected"}
    /\ channel_ \in {"none", "active", "removed"} /\ timers \in Nat /\ tasks \in Seq(Functors)
    /\ fds \in Int /\ conn \in {"none", "up", "down", "destroyed"} /\ closeCb \in {"client", "detail"}
    /\ ready \subseteq {"write", "error", "close", "timer"} /\ batch \in Int
    /\ loopAt \in {"idle", "newConnection", "removeConnection"}
    /\ user \in {"idle", "stop", "closing", "stopping", "gone"} /\ lapses \subseteq Lapses

\* The functors of the destructor: forceClose comes right after
\* setCloseCallback and is not separated from it by the end of a batch.
CloseOrder(q, b, cb) == \A i \in DOMAIN q : q[i] = "forceClose" =>
    /\ b # i - 1
    /\ IF i = 1 THEN cb = "detail" /\ b > 0 ELSE q[i - 1] = "setCloseCallback"

\* A functor is among the first b.
Within(q, f, b) == \E i \in DOMAIN q : q[i] = f /\ i <= b
Soon(f) == Within(tasks, f, batch)

\* The loop handles events first, and then a batch of the functors.
Phased ==
    /\ batch \in {Polled} \cup 0 .. Len(tasks)
    /\ loopAt # "idle" => batch = Polled
    /\ batch # Polled => ready = {}
    /\ "timer" \in ready => timers > 0
    /\ user # "gone" => /\ ~hold /\ closeCb = "client"
                        /\ Count("setCloseCallback") = 0 /\ Count("forceClose") = 0
    /\ hold => stopped
    /\ CloseOrder(tasks, batch, closeCb)

\* Channel, state and functors of the connector agree, and so do those of
\* the connection.
Matched ==
    /\ state_ = "kConnecting" <=> channel_ = "active"
    /\ Count("resetChannel") = One(channel_ = "removed")
    /\ Count("connectDestroyed") = One(conn = "down")
    /\ "close" \in ready => conn = "up" /\ "write" \notin ready
    /\ loopAt = "removeConnection" => channel_ = "none"

\* Once stop() was called, connect_ is not set until connect().
Halted ==
    /\ Count("stopInLoop") > 0 => stopped \/ Count("startInLoop") > 0
    /\ stopped => ~connect_
    /\ ~connect_ /\ Count("stopInLoop") = 0 => channel_ # "active"

\* What ended is cleared away before poll can report anything about its
\* successor.
Cleared ==
    /\ channel_ = "removed" /\ Attempts > 0 /\ Count("startInLoop") = 0 =>
          Soon("resetChannel") \/ (batch = Polled /\ ready \cap {"timer", "close"} = {})
    /\ conn = "down" => \/ Soon("connectDestroyed")
                        \/ batch = Polled /\ "write" \notin ready /\ loopAt # "newConnection"
                        \/ user = "gone" /\ Attempts = 0

\* A client that is gone and whose timer has let the connector go.
Released == user = "gone" /\ ~hold =>
    channel_ = "none" /\ Owed = 0 /\ loopAt = "idle" /\ (timers > 0 => ~connect_)

Core == Attempts <= 1 /\ Matched /\ Halted /\ Cleared

\* A connect() that comes while the functors of what it follows are still
\* queued starts after them.
Before(q, f) == \A i, j \in DOMAIN q : q[i] = f /\ q[j] = "startInLoop" => i < j
Ordered == /\ channel_ = "removed" => Before(tasks, "resetChannel")
           /\ ~stopped => Before(tasks, "stopInLoop")

BaseInv == /\ ClientTypes /\ Phased
           /\ Orderly => Core
           /\ lapses = {} => Released
           /\ KeepsTrying /\ SocketsOwned

ClientInv == BaseInv /\ (Orderly => Ordered)
-----------------------------------------------------------------------------
\* What the queue operations return; SequenceTheorems has these facts and many
\* more, which would be in the context of every step below.
LEMMA EmptySeq ==
    ASSUME NEW S
    PROVE  <<>> \in Seq(S) /\ Len(<<>>) = 0 /\ \A q \in Seq(S) : q # <<>> => Len(q) \in Nat \ {0}
OBVIOUS

LEMMA LenProperties ==
    ASSUME NEW S, NEW q \in Seq(S)
    PROVE  Len(q) \in Nat /\ DOMAIN q = 1 .. Len(q) /\ q \in [1 .. Len(q) -> S]
OBVIOUS

LEMMA HeadTailProperties ==
    ASSUME NEW S, NEW q \in Seq(S), q # <<>>
    PROVE  /\ Head(q) \in S /\ Tail(q) \in Seq(S) /\ Len(Tail(q)) = Len(q) - 1
           /\ \A i \in 1 .. Len(Tail(q)) : Tail(q)[i] = q[i + 1]
OBVIOUS

LEMMA AppendProperties ==
    ASSUME NEW S, NEW q \in Seq(S), NEW x \in S
    PROVE  /\ Append(q, x) \in Seq(S) /\ Append(q, x) # <<>> /\ Len(Append(q, x)) = Len(q) + 1
           /\ Append(q, x)[Len(q) + 1] = x /\ \A i \in 1 .. Len(q) : Append(q, x)[i] = q[i]
OBVIOUS

LEMMA AppendIsConcat ==
    ASSUME NEW S, NEW q \in Seq(S), NEW x \in S
    PROVE  Append(q, x) = q \o <<x>>
OBVIOUS
-----------------------------------------------------------------------------
Number(q, f) == Cardinality({i \in DOMAIN q : q[i] = f})

\* What the proof needs of these numbers.  It is a hypothesis of the lemmas up
\* to the last section, which proves it from the theorems on finite sets.
NumberFacts == \A q \in Seq(Functors) : \A f :
    /\ Number(q, f) \in Nat
    /\ Number(q, f) > 0 <=> \E i \in DOMAIN q : q[i] = f
    /\ \A x \in Functors : Number(Append(q, x), f) = IF x = f THEN Number(q, f) + 1 ELSE Number(q, f)
    /\ q # <<>> => Number(q, f) = IF Head(q) = f THEN Number(Tail(q), f) + 1 ELSE Number(Tail(q), f)

\* A functor that is in the queue has a place there.
LEMMA NumberIs ==
    ASSUME NumberFacts, NEW q \in Seq(Functors), NEW f
    PROVE  /\ Number(q, f) \in Nat
           /\ Number(q, f) > 0 <=> \E i \in DOMAIN q : q[i] = f
BY Zenon DEF NumberFacts

LEMMA NumberAppend ==
    ASSUME NumberFacts, NEW q \in Seq(Functors), NEW x \in Functors, NEW f
    PROVE  Number(Append(q, x), f) = IF x = f THEN Number(q, f) + 1 ELSE Number(q, f)
BY Zenon DEF NumberFacts

LEMMA NumberTail ==
    ASSUME NumberFacts, NEW q \in Seq(Functors), q # <<>>, NEW f
    PROVE  Number(q, f) = IF Head(q) = f THEN Number(Tail(q), f) + 1 ELSE Number(Tail(q), f)
BY Zenon DEF NumberFacts

LEMMA Queueing ==
    ASSUME NEW q \in Seq(Functors), NEW x \in Functors, NEW b \in Int, NEW cb
    PROVE  /\ Append(q, x) \in Seq(Functors) /\ Len(Append(q, x)) = Len(q) + 1 /\ Append(q, x) # <<>>
           /\ CloseOrder(q, b, cb) /\ x # "forceClose" => CloseOrder(Append(q, x), b, cb)
           /\ \A f : Within(q, f, b) => Within(Append(q, x), f, b)
<1>1. /\ Len(q) \in Nat /\ DOMAIN q = 1 .. Len(q) /\ DOMAIN Append(q, x) = 1 .. Len(q) + 1
      /\ Append(q, x)[Len(q) + 1] = x /\ \A i \in 1 .. Len(q) : Append(q, x)[i] = q[i]
      /\ Append(q, x) \in Seq(Functors) /\ Len(Append(q, x)) = Len(q) + 1
  BY LenProperties, AppendProperties
<1>2. Append(q, x) # <<>>
  BY <1>1
<1>3. CloseOrder(q, b, cb) /\ x # "forceClose" => CloseOrder(Append(q, x), b, cb)
  BY <1>1 DEF CloseOrder
<1>4. \A f : Within(q, f, b) => Within(Append(q, x), f, b)
  BY <1>1 DEF Within
<1>5. QED
  BY <1>1, <1>2, <1>3, <1>4, Zenon

LEMMA Dequeueing ==
    ASSUME NEW q \in Seq(Functors), NEW b \in Int, b > 0, b <= Len(q), NEW cb, NEW c
    PROVE  /\ q # <<>> /\ Head(q) \in Functors
           /\ Tail(q) \in Seq(Functors) /\ Len(Tail(q)) = Len(q) - 1
           /\ CloseOrder(q, b, cb) => /\ Head(q) = "forceClose" => cb = "detail"
                                      /\ c = (IF Head(q) = "setCloseCallback" THEN "detail" ELSE cb)
                                            => CloseOrder(Tail(q), b - 1, c)
           /\ \A f : Within(q, f, b) /\ Head(q) # f => Within(Tail(q), f, b - 1)
<1>1. /\ q # <<>> /\ Len(q) \in Nat /\ DOMAIN q = 1 .. Len(q) /\ DOMAIN Tail(q) = 1 .. Len(q) - 1
      /\ Head(q) = q[1] /\ Head(q) \in Functors /\ \A i \in 1 .. Len(q) - 1 : Tail(q)[i] = q[i + 1]
      /\ Tail(q) \in Seq(Functors) /\ Len(Tail(q)) = Len(q) - 1
  BY LenProperties, HeadTailProperties, EmptySeq
<1>2. ASSUME CloseOrder(q, b, cb)
      PROVE  /\ Head(q) = "forceClose" => cb = "detail"
             /\ c = (IF Head(q) = "setCloseCallback" THEN "detail" ELSE cb)
                   => CloseOrder(Tail(q), b - 1, c)
  <2>1. Head(q) = "forceClose" => cb = "detail"
    <3>1. 1 \in DOMAIN q
      BY <1>1
    <3>2. q[1] = "forceClose" => cb = "detail"
      BY <1>2, <3>1, Zenon DEF CloseOrder
    <3>3. QED
      BY <1>1, <3>2, Zenon
  <2>2. ASSUME c = (IF Head(q) = "setCloseCallback" THEN "detail" ELSE cb),
               NEW i \in DOMAIN Tail(q), Tail(q)[i] = "forceClose"
        PROVE  /\ b - 1 # i - 1
               /\ IF i = 1 THEN c = "detail" /\ b - 1 > 0 ELSE Tail(q)[i - 1] = "setCloseCallback"
    <3>1. i \in Nat /\ i + 1 \in DOMAIN q /\ q[i + 1] = "forceClose" /\ i + 1 # 1
      BY <1>1, <2>2
    <3>2. b # i /\ q[i] = "setCloseCallback"
      BY <1>2, <3>1, SMTT(30) DEF CloseOrder
    <3>3. CASE i = 1
      BY <1>1, <2>2, <3>2, <3>3
    <3>4. CASE i # 1
      BY <1>1, <2>2, <3>1, <3>2, <3>4
    <3>5. QED
      BY <3>3, <3>4, Zenon
  <2>3. QED
    BY <2>1, <2>2, Zenon DEF CloseOrder
<1>3. ASSUME NEW f, Within(q, f, b), Head(q) # f PROVE Within(Tail(q), f, b - 1)
  <2>1. PICK i \in DOMAIN q : q[i] = f /\ i <= b
    BY <1>3, Zenon DEF Within
  <2>2. i # 1 /\ i - 1 \in DOMAIN Tail(q) /\ Tail(q)[i - 1] = f /\ i - 1 <= b - 1
    BY <1>1, <1>3, <2>1
  <2>3. QED
    BY <2>2, Zenon DEF Within
<1>4. QED
  BY <1>1, <1>2, <1>3, Zenon

LEMMA BeforeQueue ==
    ASSUME NumberFacts, NEW q \in Seq(Functors), NEW f
    PROVE  /\ Number(q, "startInLoop") = 0 => Before(q, f)
           /\ \A x \in Functors : Before(q, f) /\ x # f => Before(Append(q, x), f)
           /\ q # <<>> /\ Before(q, f) => Before(Tail(q), f)
<1>1. Len(q) \in Nat /\ DOMAIN q = 1 .. Len(q)
  BY LenProperties, Zenon
<1>2. Number(q, "startInLoop") = 0 => Before(q, f)
  <2>1. Number(q, "startInLoop") = 0 => ~(Number(q, "startInLoop") > 0)
    OBVIOUS
  <2>2. QED
    BY <2>1, NumberIs, Zenon DEF Before
<1>3. ASSUME NEW x \in Functors, Before(q, f), x # f PROVE Before(Append(q, x), f)
  <2>1. /\ DOMAIN Append(q, x) = 1 .. Len(q) + 1 /\ Append(q, x)[Len(q) + 1] = x
        /\ \A i \in 1 .. Len(q) : Append(q, x)[i] = q[i]
    BY AppendProperties, LenProperties
  <2>2. QED
    BY <1>1, <1>3, <2>1 DEF Before
<1>4. ASSUME q # <<>>, Before(q, f) PROVE Before(Tail(q), f)
  <2>1. DOMAIN Tail(q) = 1 .. Len(q) - 1 /\ \A i \in 1 .. Len(q) - 1 : Tail(q)[i] = q[i + 1]
    BY <1>4, HeadTailProperties, LenProperties
  <2>2. SUFFICES ASSUME NEW i \in DOMAIN Tail(q), NEW j \in DOMAIN Tail(q),
                        Tail(q)[i] = f, Tail(q)[j] = "startInLoop"
                 PROVE  i < j
    BY Zenon DEF Before
  <2>3. i + 1 \in DOMAIN q /\ j + 1 \in DOMAIN q /\ q[i + 1] = f /\ q[j + 1] = "startInLoop"
    BY <1>1, <2>1, <2>2
  <2>4. i + 1 < j + 1
    BY <1>4, <2>3, Zenon DEF Before
  <2>5. QED
    BY <1>1, <2>1, <2>4
<1>5. QED
  BY <1>2, <1>3, <1>4, Zenon

LEMMA BeforeHead ==
    ASSUME NumberFacts, NEW q \in Seq(Functors), NEW f, f # "startInLoop", q # <<>>,
           Head(q) = "startInLoop", Before(q, f)
    PROVE  Number(q, f) = 0
<1>1. Len(q) \in Nat /\ DOMAIN q = 1 .. Len(q) /\ q[1] = "startInLoop" /\ 1 \in DOMAIN q
  BY LenProperties, HeadTailProperties, EmptySeq
<1>2. ~ \E i \in DOMAIN q : q[i] = f
  BY <1>1 DEF Before
<1>3. QED
  BY <1>2, NumberIs

\* Nothing of the destructor's functors is due when a batch ends, and a new
\* batch takes all functors.
LEMMA Batches ==
    ASSUME NumberFacts, NEW q \in Seq(Functors), NEW cb
    PROVE  /\ CloseOrder(q, 0, cb) => CloseOrder(q, Polled, cb)
           /\ CloseOrder(q, Polled, cb) => CloseOrder(q, Len(q), cb)
           /\ CloseOrder(q, Polled, cb) => CloseOrder(q, Polled, "client")
           /\ \A f : ~Within(q, f, 0) /\ ~Within(q, f, Polled)
           /\ \A f : Number(q, f) > 0 => Within(q, f, Len(q))
<1>1. Len(q) \in Nat /\ DOMAIN q = 1 .. Len(q)
  BY LenProperties, Zenon
<1>2. \A f : Number(q, f) > 0 => \E i \in DOMAIN q : q[i] = f
  BY NumberIs, Zenon
<1>3. CloseOrder(q, 0, cb) => CloseOrder(q, Polled, cb)
  BY <1>1 DEF CloseOrder, Polled
<1>4. CloseOrder(q, Polled, cb) => CloseOrder(q, Len(q), cb)
  BY <1>1 DEF CloseOrder, Polled
<1>5. CloseOrder(q, Polled, cb) => CloseOrder(q, Polled, "client")
  BY <1>1 DEF CloseOrder, Polled
<1>6. \A f : ~Within(q, f, 0) /\ ~Within(q, f, Polled)
  BY <1>1 DEF Within, Polled
<1>7. \A f : Number(q, f) > 0 => Within(q, f, Len(q))
  BY <1>1, <1>2 DEF Within
<1>8. QED
  BY <1>3, <1>4, <1>5, <1>6, <1>7, Zenon
-----------------------------------------------------------------------------
LapseStep == lapses' = lapses \cup {l \in Lapses : Lapse(l)}

LEMMA LapseFacts ==
    ASSUME ClientTypes, LapseStep
    PROVE  /\ lapses' \subseteq Lapses
           /\ Orderly' => Orderly /\ ~Lapse("hasty") /\ ~Lapse("overridden")
           /\ lapses' = {} => lapses = {} /\ Orderly' /\ ~Lapse("early") /\ ~Lapse("dangling")
<1>1. lapses \subseteq Lapses
  BY Zenon DEF ClientTypes
<1>2. lapses' \subseteq Lapses
  BY <1>1, Zenon DEF LapseStep
<1>3. Orderly' => Orderly /\ ~Lapse("hasty") /\ ~Lapse("overridden")
  BY Zenon DEF LapseStep, Lapses, Orderly
<1>4. lapses' = {} => lapses = {} /\ Orderly' /\ ~Lapse("early") /\ ~Lapse("dangling")
  BY Zenon DEF LapseStep, Lapses, Orderly
<1>5. QED
  BY <1>2, <1>3, <1>4, Zenon

\* The functors in the queue, counted.
LEMMA CountIs ==
    ASSUME NumberFacts, tasks \in Seq(Functors)
    PROVE  /\ \A f : Count(f) = Number(tasks, f) /\ Count(f)' = Number(tasks', f) /\ Count(f) \in Nat
           /\ tasks = <<>> => \A f : Count(f) = 0
           /\ tasks # <<>> => Count(Head(tasks)) > 0
<1>1. \A f : Count(f) = Number(tasks, f) /\ Count(f)' = Number(tasks', f)
  BY Zenon DEF Count, Number
<1>2. \A f : Count(f) \in Nat
  BY <1>1, NumberIs, Zenon
<1>3. tasks = <<>> => \A f : Count(f) = 0
  <2>1. SUFFICES ASSUME tasks = <<>>, NEW f PROVE Count(f) = 0
    BY Zenon
  <2>2. ~ \E i \in DOMAIN tasks : tasks[i] = f
    BY <2>1
  <2>3. QED
    BY <1>1, <1>2, <2>2, NumberIs
<1>4. tasks # <<>> => Count(Head(tasks)) > 0
  <2>1. SUFFICES ASSUME tasks # <<>> PROVE Count(Head(tasks)) > 0
    BY Zenon
  <2>2. 1 \in DOMAIN tasks /\ tasks[1] = Head(tasks)
    BY <2>1, LenProperties, EmptySeq, HeadTailProperties
  <2>3. QED
    BY <1>1, <2>2, NumberIs, Zenon
<1>5. QED
  BY <1>1, <1>2, <1>3, <1>4, Zenon

LEMMA TasksKept ==
    ASSUME tasks' = tasks
    PROVE  \A f : Count(f)' = Count(f)
BY Zenon DEF Count

LEMMA TasksPut ==
    ASSUME NumberFacts, tasks \in Seq(Functors), NEW x \in Functors, tasks' = Append(tasks, x)
    PROVE  \A f : Count(f)' = IF x = f THEN Count(f) + 1 ELSE Count(f)
BY CountIs, NumberAppend

LEMMA TasksTaken ==
    ASSUME NumberFacts, tasks \in Seq(Functors), tasks # <<>>, tasks' = Tail(tasks)
    PROVE  \A f : Count(f)' = IF Head(tasks) = f THEN Count(f) - 1 ELSE Count(f)
<1>1. \A f : Number(tasks, f) = IF Head(tasks) = f THEN Number(Tail(tasks), f) + 1 ELSE Number(Tail(tasks), f)
  BY NumberTail, Zenon
<1>2. Tail(tasks) \in Seq(Functors)
  BY HeadTailProperties, Zenon
<1>3. \A f : Number(Tail(tasks), f) \in Nat
  BY <1>2, NumberIs, Zenon
<1>4. \A f : Count(f) = Number(tasks, f) /\ Count(f)' = Number(Tail(tasks), f)
  BY CountIs, Zenon
<1>5. QED
  BY <1>1, <1>3, <1>4

LEMMA TasksTakenPut ==
    ASSUME NumberFacts, tasks \in Seq(Functors), tasks # <<>>, NEW x \in Functors, x # Head(tasks),
           tasks' = Append(Tail(tasks), x)
    PROVE  \A f : Count(f)' = IF Head(tasks) = f THEN Count(f) - 1
                              ELSE IF x = f THEN Count(f) + 1 ELSE Count(f)
<1>1. \A f : Number(tasks, f) = IF Head(tasks) = f THEN Number(Tail(tasks), f) + 1 ELSE Number(Tail(tasks), f)
  BY NumberTail, Zenon
<1>2. Tail(tasks) \in Seq(Functors)
  BY HeadTailProperties, Zenon
<1>3. \A f : Number(Tail(tasks), f) \in Nat
  BY <1>2, NumberIs, Zenon
<1>4. \A f : /\ Count(f) = Number(tasks, f) /\ Count(f)' = Number(tasks', f)
             /\ Number(tasks', f) = IF x = f THEN Number(Tail(tasks), f) + 1 ELSE Number(Tail(tasks), f)
  BY CountIs, <1>2, NumberAppend, ZenonT(30)
<1>5. QED
  BY <1>1, <1>3, <1>4
-----------------------------------------------------------------------------
LEMMA ConnectClientInv == ASSUME NumberFacts, ClientInv, connectClient, LapseStep PROVE BaseInv'
<1>1. /\ user = "idle" /\ tasks' = Append(tasks, "startInLoop")
      /\ UNCHANGED <<state_, channel_, timers, fds, gaveUp, conn, ready, batch, loopAt, retry_, closeCb, user, hold>>
  BY Zenon DEF connectClient, Called, start, NotTheLoop
<1>2. ~stopped' /\ connect_' /\ clientConnect_'
  BY Zenon DEF connectClient, start
<1>3. ClientTypes /\ Phased
  BY Zenon DEF ClientInv, BaseInv
<1>4. /\ tasks' \in Seq(Functors) /\ Len(tasks') = Len(tasks) + 1 /\ Len(tasks) \in Nat
      /\ CloseOrder(tasks, batch, closeCb) => CloseOrder(tasks', batch, closeCb)
      /\ \A f : Within(tasks, f, batch) => Within(tasks', f, batch)
  BY <1>1, <1>3, Queueing, LenProperties, Zenon DEF ClientTypes, Functors
<1>5. /\ Count("startInLoop")' = Count("startInLoop") + 1 /\ Count("stopInLoop")' = Count("stopInLoop")
      /\ Count("resetChannel")' = Count("resetChannel") /\ Count("setCloseCallback")' = Count("setCloseCallback")
      /\ Count("forceClose")' = Count("forceClose") /\ Count("connectDestroyed")' = Count("connectDestroyed")
  BY <1>1, <1>3, TasksPut, Zenon DEF ClientTypes, Functors
<1>6. \A f : Count(f) \in Nat
  BY <1>3, CountIs, Zenon DEF ClientTypes
<1>7. ClientTypes'
  BY <1>1, <1>3, <1>4, LapseFacts, ZenonT(30) DEF ClientTypes
<1>8. Phased'
  BY <1>1, <1>3, <1>4, <1>5 DEF Phased, ClientTypes
<1>9. ASSUME Orderly' PROVE Core'
  <2>1. Orderly /\ Quiet /\ Core
    BY <1>3, <1>5, <1>6, <1>9, LapseFacts DEF Lapse, ClientInv, BaseInv
  <2>2. state_ = "kDisconnected" /\ Attempts = 0
    BY <2>1, Zenon DEF Quiet
  <2>3. Attempts' = 1
    BY <1>1, <1>3, <1>5, <1>6, <2>2 DEF Attempts, One, ClientTypes
  <2>4. Matched'
    BY <1>1, <1>3, <1>5, <1>6, <2>1, <2>2 DEF Core, Matched, One, ClientTypes
  <2>5. Halted'
    BY <1>1, <1>2, <1>5, <1>6 DEF Halted
  <2>6. Count("startInLoop")' # 0
    BY <1>5, <1>6
  <2>7. Cleared'
    BY <1>1, <1>4, <2>1, <2>6, Zenon DEF Core, Cleared, Soon
  <2>8. QED
    BY <2>3, <2>4, <2>5, <2>7 DEF Core
<1>10. (lapses = {} => Released)' 
  BY <1>1, Zenon DEF Released
<1>11. KeepsTrying'
  <2>1. Orderly' => Attempts' = 1
    <3>1. ASSUME Orderly' PROVE Attempts = 0
      BY <1>3, <1>5, <1>6, <3>1, LapseFacts DEF Lapse, Quiet
    <3>2. QED
      BY <3>1, <1>1, <1>3, <1>5, <1>6, SMTT(30) DEF Attempts, One, ClientTypes
  <2>2. QED
    BY <2>1, Zenon DEF KeepsTrying
<1>12. SocketsOwned'
  <2>1. Orderly' => Orderly
    BY <1>3, LapseFacts, Zenon
  <2>2. QED
    BY <1>1, <2>1, Zenon DEF SocketsOwned, One, ClientInv, BaseInv
<1>13. QED
  BY <1>7, <1>8, <1>9, <1>10, <1>11, <1>12, Zenon DEF BaseInv

\* disconnect(), and the first steps of stop() and of the destructor.
LEMMA FlagsInv ==
    ASSUME ClientInv, LapseStep, user = "idle", user' \in {"idle", "stop", "closing", "stopping"},
           ~clientConnect_' \/ user' # "idle",
           UNCHANGED <<connectorVars, conn, closeCb, ready, batch, loopAt, retry_, hold, stopped>>
    PROVE  BaseInv'
<1>1. UNCHANGED <<connect_, state_, channel_, timers, tasks, fds, gaveUp, conn, ready, batch, loopAt, retry_,
                  closeCb, hold, stopped>>
  BY Zenon DEF connectorVars
<1>2. ClientTypes /\ Phased
  BY Zenon DEF ClientInv, BaseInv
<1>3. \A f : Count(f)' = Count(f)
  BY <1>1, TasksKept, Zenon
<1>4. ClientTypes'
  BY <1>1, <1>2, LapseFacts, ZenonT(30) DEF ClientTypes
<1>5. Phased'
  BY <1>1, <1>2, <1>3 DEF Phased
<1>6. ASSUME Orderly' PROVE Core'
  <2>1. Core
    BY <1>2, <1>6, LapseFacts, Zenon DEF ClientInv, BaseInv
  <2>2. Attempts' = Attempts
    BY <1>1, <1>3, Zenon DEF Attempts
  <2>3. Matched' /\ Halted'
    BY <1>1, <1>3, <2>1 DEF Core, Matched, Halted
  <2>4. Cleared'
    BY <1>1, <1>3, <2>1, <2>2, Zenon DEF Core, Cleared, Soon
  <2>5. QED
    BY <2>1, <2>2, <2>3, <2>4, Zenon DEF Core
<1>7. (lapses = {} => Released)'
  BY Zenon DEF Released
<1>8. KeepsTrying'
  BY Zenon DEF KeepsTrying
<1>9. SocketsOwned'
  <2>1. Orderly' => Orderly
    BY <1>2, LapseFacts, Zenon
  <2>2. QED
    BY <1>1, <2>1, Zenon DEF SocketsOwned, ClientInv, BaseInv
<1>10. QED
  BY <1>4, <1>5, <1>6, <1>7, <1>8, <1>9, Zenon DEF BaseInv

\* Connector::stop(), called by stop() and by the destructor.
LEMMA StopInv ==
    ASSUME NumberFacts, ClientInv, LapseStep, stop, NotTheLoop, UNCHANGED closeCb, stopped',
           \/ user = "stop" /\ user' = "idle" /\ UNCHANGED hold
           \/ user = "stopping" /\ user' = "gone" /\ hold'
    PROVE  BaseInv'
<1>1. /\ tasks' = Append(tasks, "stopInLoop")
      /\ UNCHANGED <<state_, channel_, timers, fds, gaveUp, conn, ready, batch, loopAt, retry_, closeCb>>
  BY Zenon DEF stop, NotTheLoop
<1>2. ~connect_'
  BY Zenon DEF stop
<1>3. ClientTypes /\ Phased
  BY Zenon DEF ClientInv, BaseInv
<1>4. /\ tasks' \in Seq(Functors) /\ Len(tasks') = Len(tasks) + 1 /\ Len(tasks) \in Nat
      /\ CloseOrder(tasks, batch, closeCb) => CloseOrder(tasks', batch, closeCb)
      /\ \A f : Within(tasks, f, batch) => Within(tasks', f, batch)
  BY <1>1, <1>3, Queueing, LenProperties, Zenon DEF ClientTypes, Functors
<1>5. /\ Count("stopInLoop")' = Count("stopInLoop") + 1 /\ Count("startInLoop")' = Count("startInLoop")
      /\ Count("resetChannel")' = Count("resetChannel") /\ Count("setCloseCallback")' = Count("setCloseCallback")
      /\ Count("forceClose")' = Count("forceClose") /\ Count("connectDestroyed")' = Count("connectDestroyed")
  BY <1>1, <1>3, TasksPut, Zenon DEF ClientTypes, Functors
<1>6. \A f : Count(f) \in Nat
  BY <1>3, CountIs, Zenon DEF ClientTypes
<1>7. ClientTypes'
  BY <1>1, <1>3, <1>4, LapseFacts, ZenonT(30) DEF ClientTypes
<1>8. Phased'
  BY <1>1, <1>3, <1>4, <1>5 DEF Phased, ClientTypes
<1>9. ASSUME Orderly' PROVE Core'
  <2>1. Core
    BY <1>3, <1>9, LapseFacts, Zenon DEF ClientInv, BaseInv
  <2>2. Attempts' = Attempts
    BY <1>1, <1>5, Zenon DEF Attempts
  <2>3. Matched'
    BY <1>1, <1>5, <2>1, Zenon DEF Core, Matched
  <2>4. Halted'
    BY <1>2, <1>5, <1>6 DEF Halted
  <2>5. Cleared'
    BY <1>1, <1>4, <1>5, <2>1, <2>2, Zenon DEF Core, Cleared, Soon
  <2>6. QED
    BY <2>1, <2>2, <2>3, <2>4, <2>5, Zenon DEF Core
<1>10. (lapses = {} => Released)'
  BY Zenon DEF Released
<1>11. KeepsTrying'
  BY <1>2, Zenon DEF KeepsTrying
<1>12. SocketsOwned'
  <2>1. Orderly' => Orderly
    BY <1>3, LapseFacts, Zenon
  <2>2. QED
    BY <1>1, <2>1, Zenon DEF SocketsOwned, ClientInv, BaseInv
<1>13. QED
  BY <1>7, <1>8, <1>9, <1>10, <1>11, <1>12, Zenon DEF BaseInv

\* The destructor with a connection: its functors are queued.
LEMMA DestroyCloseInv == ASSUME NumberFacts, ClientInv, destroyClient_close, LapseStep PROVE BaseInv'
<1> DEFINE q == Append(tasks, "setCloseCallback")
<1>1. /\ user = "closing" /\ user' = "gone"
      /\ UNCHANGED <<connect_, state_, channel_, timers, fds, gaveUp, conn, ready, batch, loopAt, retry_,
                     closeCb, hold, stopped>>
  BY Zenon DEF destroyClient_close, NotTheLoop
<1>2. ClientTypes /\ Phased
  BY Zenon DEF ClientInv, BaseInv
<1>3. tasks' = q \/ tasks' = Append(q, "forceClose")
  <2>1. tasks' = tasks \o <<"setCloseCallback">> \/ tasks' = tasks \o <<"setCloseCallback", "forceClose">>
    BY Zenon DEF destroyClient_close
  <2>2. tasks \in Seq(Functors)
    BY <1>2, Zenon DEF ClientTypes
  <2>3. tasks \o <<"setCloseCallback">> = q
    BY <2>2, AppendIsConcat, Zenon DEF Functors
  <2>4. tasks \o <<"setCloseCallback", "forceClose">> = Append(q, "forceClose")
    BY <2>2 DEF Functors
  <2>5. QED
    BY <2>1, <2>3, <2>4, Zenon
<1>4. /\ q \in Seq(Functors) /\ Len(q) = Len(tasks) + 1 /\ Len(tasks) \in Nat /\ batch \in Int
      /\ CloseOrder(q, batch, closeCb)
      /\ \A f : Within(tasks, f, batch) => Within(q, f, batch)
      /\ \A f : Number(q, f) = IF f = "setCloseCallback" THEN Count(f) + 1 ELSE Count(f)
  <2>1. tasks \in Seq(Functors) /\ batch \in Int /\ CloseOrder(tasks, batch, closeCb)
    BY <1>2, Zenon DEF ClientTypes, Phased
  <2>2. \A f : Count(f) = Number(tasks, f)
    BY <2>1, CountIs, Zenon
  <2>3. QED
    BY <2>1, <2>2, Queueing, NumberAppend, LenProperties DEF Functors
<1> HIDE DEF q
<1>5. /\ tasks' \in Seq(Functors) /\ Len(tasks') >= Len(tasks) /\ Len(tasks') \in Nat
      /\ \A f : Within(tasks, f, batch) => Within(tasks', f, batch)
      /\ \A f : f # "forceClose" => Number(tasks', f) = Number(q, f)
  <2>1. "forceClose" \in Functors
    BY Zenon DEF Functors
  <2>2. /\ Append(q, "forceClose") \in Seq(Functors) /\ Len(Append(q, "forceClose")) = Len(q) + 1
        /\ \A f : Within(q, f, batch) => Within(Append(q, "forceClose"), f, batch)
    BY <1>4, <2>1, Queueing, Zenon
  <2>3. \A f : Number(Append(q, "forceClose"), f) = IF "forceClose" = f THEN Number(q, f) + 1 ELSE Number(q, f)
    BY <1>4, <2>1, NumberAppend, Zenon
  <2>4. CASE tasks' = q
    BY <1>4, <2>4
  <2>5. CASE tasks' = Append(q, "forceClose")
    <3>1. \A f : Within(tasks, f, batch) => Within(tasks', f, batch)
      BY <1>4, <2>2, <2>5, Zenon
    <3>2. \A f : f # "forceClose" => Number(tasks', f) = Number(q, f)
      BY <2>3, <2>5, Zenon
    <3>3. QED
      BY <1>4, <2>2, <2>5, <3>1, <3>2
  <2>6. QED
    BY <1>3, <2>4, <2>5, Zenon
<1>6. CloseOrder(tasks', batch, closeCb)
  <2>1. CASE tasks' = q
    BY <1>4, <2>1, Zenon
  <2>2. CASE tasks' = Append(q, "forceClose")
    <3>1. /\ DOMAIN tasks' = 1 .. Len(q) + 1 /\ tasks'[Len(q) + 1] = "forceClose"
          /\ \A i \in 1 .. Len(q) : tasks'[i] = q[i]
      BY <1>4, <2>2, AppendProperties DEF Functors
    <3>2. q[Len(q)] = "setCloseCallback"
      BY <1>2, <1>4, AppendProperties DEF q, ClientTypes, Functors
    <3>3. batch # Len(q)
      BY <1>2, <1>4 DEF Phased, ClientTypes, Polled
    <3>4. ASSUME NEW i \in DOMAIN tasks', tasks'[i] = "forceClose"
          PROVE  /\ batch # i - 1
                 /\ IF i = 1 THEN closeCb = "detail" /\ batch > 0 ELSE tasks'[i - 1] = "setCloseCallback"
      <4>1. CASE i = Len(q) + 1
        BY <1>4, <3>1, <3>2, <3>3, <4>1
      <4>2. CASE i \in 1 .. Len(q)
        <5>1. q[i] = "forceClose" /\ i \in DOMAIN q
          BY <1>4, <3>1, <3>4, <4>2, LenProperties, Zenon
        <5>2. batch # i - 1 /\ IF i = 1 THEN closeCb = "detail" /\ batch > 0 ELSE q[i - 1] = "setCloseCallback"
          BY <1>4, <5>1, Zenon DEF CloseOrder
        <5>3. i # 1 => i - 1 \in 1 .. Len(q)
          BY <1>4, <4>2
        <5>4. QED
          BY <3>1, <5>2, <5>3, Zenon
      <4>3. QED
        BY <1>4, <3>1, <4>1, <4>2
    <3>5. QED
      BY <3>4, Zenon DEF CloseOrder
  <2>3. QED
    BY <1>3, <2>1, <2>2, Zenon
<1>7. /\ Count("startInLoop")' = Count("startInLoop") /\ Count("stopInLoop")' = Count("stopInLoop")
      /\ Count("resetChannel")' = Count("resetChannel")
      /\ Count("connectDestroyed")' = Count("connectDestroyed")
  <2>1. \A f : Count(f)' = Number(tasks', f)
    BY Zenon DEF Count, Number
  <2>2. QED
    BY <1>4, <1>5, <2>1, Zenon
<1>8. ClientTypes'
  BY <1>1, <1>2, <1>5, LapseFacts, Zenon DEF ClientTypes
<1>9. Phased'
  BY <1>1, <1>2, <1>5, <1>6, <1>8 DEF Phased, ClientTypes
<1>10. ASSUME Orderly' PROVE Core'
  <2>1. Core
    BY <1>2, <1>10, LapseFacts, Zenon DEF ClientInv, BaseInv
  <2>2. Attempts' = Attempts
    BY <1>1, <1>7, Zenon DEF Attempts
  <2>3. Matched' /\ Halted'
    BY <1>1, <1>7, <2>1, Zenon DEF Core, Matched, Halted
  <2>4. Cleared'
    BY <1>1, <1>5, <1>7, <2>1, <2>2, Zenon DEF Core, Cleared, Soon
  <2>5. QED
    BY <2>1, <2>2, <2>3, <2>4, Zenon DEF Core
<1>11. ASSUME lapses' = {} PROVE Released'
  <2>1. channel_ = "none" /\ ~(timers + Owed > 0) /\ loopAt = "idle"
    BY <1>1, <1>2, <1>11, LapseFacts, Zenon DEF Lapse
  <2>2. Owed' = Owed /\ Owed \in Nat /\ timers \in Nat
    BY <1>2, <1>7, CountIs DEF Owed, ClientTypes
  <2>3. QED
    BY <1>1, <2>1, <2>2 DEF Released
<1>12. KeepsTrying'
  BY <1>1, Zenon DEF KeepsTrying
<1>13. SocketsOwned'
  <2>1. Orderly' => Orderly
    BY <1>2, LapseFacts, Zenon
  <2>2. QED
    BY <1>1, <2>1, Zenon DEF SocketsOwned, ClientInv, BaseInv
<1>14. QED
  BY <1>8, <1>9, <1>10, <1>11, <1>12, <1>13, Zenon DEF BaseInv
-----------------------------------------------------------------------------
\* An event is handled that changes nothing.
LEMMA IgnoredInv ==
    ASSUME ClientInv, LapseStep, ready' \subseteq ready,
           UNCHANGED <<connectorVars, conn, closeCb, batch, loopAt, retry_, clientConnect_, hold, stopped, user>>
    PROVE  BaseInv'
<1>1. UNCHANGED <<connect_, state_, channel_, timers, tasks, fds, gaveUp, conn, batch, loopAt, retry_,
                  clientConnect_, closeCb, hold, stopped, user>>
  BY Zenon DEF connectorVars
<1>2. ClientTypes /\ Phased
  BY Zenon DEF ClientInv, BaseInv
<1>3. \A f : Count(f)' = Count(f)
  BY <1>1, TasksKept, Zenon
<1>4. Attempts' = Attempts /\ Owed' = Owed
  BY <1>1, <1>3, Zenon DEF Attempts, Owed
<1>5. ClientTypes'
  BY <1>1, <1>2, LapseFacts DEF ClientTypes
<1>6. Phased'
  BY <1>1, <1>2, <1>3 DEF Phased
<1>7. ASSUME Orderly' PROVE Core'
  <2>1. Core
    BY <1>2, <1>7, LapseFacts, Zenon DEF ClientInv, BaseInv
  <2>2. Matched' /\ Halted'
    BY <1>1, <1>3, <2>1 DEF Core, Matched, Halted
  <2>3. Cleared'
    BY <1>1, <1>3, <1>4, <2>1, Zenon DEF Core, Cleared, Soon
  <2>4. QED
    BY <1>4, <2>1, <2>2, <2>3, Zenon DEF Core
<1>8. (lapses = {} => Released)'
  <2>1. lapses' = {} => lapses = {}
    BY <1>2, LapseFacts, Zenon
  <2>2. QED
    BY <1>1, <1>4, <2>1 DEF Released, ClientInv, BaseInv
<1>9. KeepsTrying'
  <2>1. Orderly' => Orderly
    BY <1>2, LapseFacts, Zenon
  <2>2. QED
    BY <1>1, <1>4, <2>1 DEF KeepsTrying, ClientInv, BaseInv
<1>10. SocketsOwned'
  <2>1. Orderly' => Orderly
    BY <1>2, LapseFacts, Zenon
  <2>2. QED
    BY <1>1, <2>1, Zenon DEF SocketsOwned, ClientInv, BaseInv
<1>11. QED
  BY <1>5, <1>6, <1>7, <1>8, <1>9, <1>10, Zenon DEF BaseInv

LEMMA PollInv == ASSUME NumberFacts, ClientInv, poll, LapseStep PROVE BaseInv'
<1>1. /\ UNCHANGED <<connect_, state_, channel_, timers, tasks, fds, gaveUp, conn, loopAt, retry_,
                     clientConnect_, closeCb, hold, stopped, user>>
      /\ batch = 0 /\ batch' = Polled
  BY Zenon DEF poll, NotTheUser, connectorVars
<1>2. /\ ready' \subseteq {"write", "error", "close", "timer"}
      /\ "write" \in ready' => channel_ = "active"
      /\ "close" \in ready' => conn = "up"
      /\ "timer" \in ready' => timers > 0
  BY Zenon DEF poll
<1>3. ClientTypes /\ Phased
  BY Zenon DEF ClientInv, BaseInv
<1>4. \A f : Count(f)' = Count(f)
  BY <1>1, TasksKept, Zenon
<1>5. Attempts' = Attempts /\ Owed' = Owed
  BY <1>1, <1>4, Zenon DEF Attempts, Owed
<1>6. loopAt = "idle"
  BY <1>1, <1>3 DEF Phased, Polled
<1>7. /\ CloseOrder(tasks, 0, closeCb) => CloseOrder(tasks, Polled, closeCb)
      /\ \A f : ~Within(tasks, f, 0)
  BY <1>3, Batches, Zenon DEF ClientTypes
<1>8. ClientTypes'
  BY <1>1, <1>2, <1>3, LapseFacts DEF ClientTypes, Polled
<1>9. Phased'
  BY <1>1, <1>2, <1>3, <1>4, <1>6, <1>7, Zenon DEF Phased
<1>10. ASSUME Orderly' PROVE Core'
  <2>1. Core
    BY <1>3, <1>10, LapseFacts, Zenon DEF ClientInv, BaseInv
  <2>2. ~("write" \in ready' /\ "close" \in ready')
    <3>1. ~(channel_ = "active" /\ conn = "up")
      BY <1>3, <2>1, CountIs DEF Core, Attempts, One, ClientTypes
    <3>2. QED
      BY <1>2, <3>1, Zenon
  <2>3. Matched' /\ Halted'
    BY <1>1, <1>2, <1>4, <2>1, <2>2, Zenon DEF Core, Matched, Halted
  <2>4. Cleared'
    BY <1>1, <1>4, <1>5, <1>7, <2>1 DEF Core, Cleared, Soon, Polled
  <2>5. QED
    BY <1>5, <2>1, <2>3, <2>4, Zenon DEF Core
<1>11. (lapses = {} => Released)'
  <2>1. lapses' = {} => lapses = {}
    BY <1>3, LapseFacts, Zenon
  <2>2. QED
    BY <1>1, <1>5, <2>1, Zenon DEF Released, ClientInv, BaseInv
<1>12. KeepsTrying'
  <2>1. Orderly' => Orderly
    BY <1>3, LapseFacts, Zenon
  <2>2. QED
    BY <1>1, <1>5, <2>1, Zenon DEF KeepsTrying, ClientInv, BaseInv
<1>13. SocketsOwned'
  <2>1. Orderly' => Orderly
    BY <1>3, LapseFacts, Zenon
  <2>2. QED
    BY <1>1, <2>1, Zenon DEF SocketsOwned, ClientInv, BaseInv
<1>14. QED
  BY <1>8, <1>9, <1>10, <1>11, <1>12, <1>13, Zenon DEF BaseInv

LEMMA DoPendingFunctorsInv == ASSUME NumberFacts, ClientInv, doPendingFunctors, LapseStep PROVE BaseInv'
<1>1. /\ UNCHANGED <<connect_, state_, channel_, timers, tasks, fds, gaveUp, conn, loopAt, retry_,
                     clientConnect_, closeCb, hold, stopped, user, ready>>
      /\ batch = Polled /\ batch' = Len(tasks) /\ ready = {} /\ loopAt = "idle"
  BY Zenon DEF doPendingFunctors, NotTheUser, connectorVars
<1>2. ClientTypes /\ Phased
  BY Zenon DEF ClientInv, BaseInv
<1>3. \A f : Count(f)' = Count(f) /\ Count(f) = Number(tasks, f)
  BY <1>1, <1>2, TasksKept, CountIs, Zenon DEF ClientTypes
<1>4. Attempts' = Attempts /\ Owed' = Owed
  BY <1>1, <1>3, Zenon DEF Attempts, Owed
<1>5. /\ CloseOrder(tasks, Polled, closeCb) => CloseOrder(tasks, Len(tasks), closeCb)
      /\ \A f : Count(f) > 0 => Within(tasks, f, Len(tasks))
      /\ Len(tasks) \in Nat
  BY <1>2, <1>3, Batches, LenProperties, Zenon DEF ClientTypes
<1>6. ClientTypes'
  BY <1>1, <1>2, <1>5, LapseFacts DEF ClientTypes
<1>7. Phased'
  BY <1>1, <1>2, <1>3, <1>5 DEF Phased
<1>8. ASSUME Orderly' PROVE Core'
  <2>1. Core
    BY <1>2, <1>8, LapseFacts, Zenon DEF ClientInv, BaseInv
  <2>2. Matched' /\ Halted'
    BY <1>1, <1>3, <2>1, Zenon DEF Core, Matched, Halted
  <2>3. /\ channel_ = "removed" => Count("resetChannel") > 0
        /\ conn = "down" => Count("connectDestroyed") > 0
    BY <2>1 DEF Core, Matched, One
  <2>4. Cleared'
    BY <1>1, <1>5, <2>3, Zenon DEF Cleared, Soon
  <2>5. QED
    BY <1>4, <2>1, <2>2, <2>4, Zenon DEF Core
<1>9. (lapses = {} => Released)'
  <2>1. lapses' = {} => lapses = {}
    BY <1>2, LapseFacts, Zenon
  <2>2. QED
    BY <1>1, <1>4, <2>1, Zenon DEF Released, ClientInv, BaseInv
<1>10. KeepsTrying'
  <2>1. Orderly' => Orderly
    BY <1>2, LapseFacts, Zenon
  <2>2. QED
    BY <1>1, <1>4, <2>1, Zenon DEF KeepsTrying, ClientInv, BaseInv
<1>11. SocketsOwned'
  <2>1. Orderly' => Orderly
    BY <1>2, LapseFacts, Zenon
  <2>2. QED
    BY <1>1, <2>1, Zenon DEF SocketsOwned, ClientInv, BaseInv
<1>12. QED
  BY <1>6, <1>7, <1>8, <1>9, <1>10, <1>11, Zenon DEF BaseInv

LEMMA RemoveConnectorInv == ASSUME NumberFacts, ClientInv, removeConnector, LapseStep PROVE BaseInv'
<1>1. /\ UNCHANGED <<connect_, state_, channel_, timers, tasks, fds, gaveUp, conn, loopAt, retry_,
                     clientConnect_, closeCb, stopped, user, ready, batch>>
      /\ tasks = <<>> /\ loopAt = "idle"
  BY Zenon DEF removeConnector, NotTheUser, connectorVars
<1>2. hold /\ ~hold'
  BY Zenon DEF removeConnector
<1>3. ClientTypes /\ Phased
  BY Zenon DEF ClientInv, BaseInv
<1>4. \A f : Count(f)' = Count(f) /\ Count(f) = 0
  BY <1>1, <1>3, TasksKept, CountIs, Zenon DEF ClientTypes
<1>5. Attempts' = Attempts /\ Owed' = 0
  BY <1>1, <1>4 DEF Attempts, Owed
<1>6. ClientTypes'
  BY <1>1, <1>3, LapseFacts, ZenonT(30) DEF ClientTypes
<1>7. Phased'
  BY <1>1, <1>2, <1>3, <1>4, Zenon DEF Phased
<1>8. Orderly' => Orderly /\ Core
  BY <1>3, LapseFacts, Zenon DEF ClientInv, BaseInv
<1>9. ASSUME Orderly' PROVE Core'
  <2>1. Matched' /\ Halted'
    BY <1>1, <1>4, <1>8, <1>9, Zenon DEF Core, Matched, Halted
  <2>2. Cleared'
    BY <1>1, <1>4, <1>5, <1>8, <1>9, Zenon DEF Core, Cleared, Soon
  <2>3. QED
    BY <1>5, <1>8, <1>9, <2>1, <2>2, Zenon DEF Core
<1>10. ASSUME lapses' = {} PROVE Released'
  <2>1. Core
    BY <1>3, <1>8, <1>10, LapseFacts, Zenon
  <2>2. ~connect_
    BY <1>2, <1>3, <2>1, Zenon DEF Core, Halted, Phased
  <2>3. channel_ = "none"
    BY <1>3, <1>4, <2>1, <2>2 DEF Core, Matched, Halted, One, ClientTypes
  <2>4. QED
    BY <1>1, <1>5, <2>2, <2>3, Zenon DEF Released
<1>11. KeepsTrying'
  <2>1. Orderly' => Orderly
    BY <1>3, LapseFacts, Zenon
  <2>2. QED
    BY <1>1, <1>5, <2>1, Zenon DEF KeepsTrying, ClientInv, BaseInv
<1>12. SocketsOwned'
  BY <1>1, <1>8, Zenon DEF SocketsOwned, ClientInv, BaseInv
<1>13. QED
  BY <1>6, <1>7, <1>9, <1>10, <1>11, <1>12, Zenon DEF BaseInv

LEMMA NewConnectionInv == ASSUME NumberFacts, ClientInv, newConnection, LapseStep PROVE BaseInv'
<1>1. /\ UNCHANGED <<connect_, state_, channel_, timers, tasks, fds, gaveUp, retry_,
                     clientConnect_, hold, stopped, user, ready, batch>>
      /\ loopAt = "newConnection" /\ loopAt' = "idle" /\ conn' = "up" /\ closeCb' = "client"
  BY Zenon DEF newConnection, NotTheUser, connectorVars
<1>2. ClientTypes /\ Phased
  BY Zenon DEF ClientInv, BaseInv
<1>3. \A f : Count(f)' = Count(f) /\ Count(f) \in Nat
  BY <1>1, <1>2, TasksKept, CountIs, Zenon DEF ClientTypes
<1>4. batch = Polled
  BY <1>1, <1>2, Zenon DEF Phased
<1>5. /\ CloseOrder(tasks, Polled, closeCb) => CloseOrder(tasks, Polled, "client")
      /\ \A f : ~Within(tasks, f, Polled)
  BY <1>2, Batches, Zenon DEF ClientTypes
<1>6. ClientTypes'
  BY <1>1, <1>2, LapseFacts, Zenon DEF ClientTypes
<1>7. Phased'
  BY <1>1, <1>2, <1>3, <1>4, <1>5, Zenon DEF Phased
<1>8. Orderly' => Orderly /\ Core
  BY <1>2, LapseFacts, Zenon DEF ClientInv, BaseInv
<1>9. ASSUME Orderly' PROVE Attempts' = Attempts /\ conn \notin {"up", "down"}
  <2>1. Attempts \in Nat /\ Attempts <= 1 /\ conn # "up" /\ Attempts > 0
    BY <1>1, <1>2, <1>3, <1>8, <1>9 DEF Core, Attempts, One, ClientTypes
  <2>2. conn # "down"
    BY <1>1, <1>4, <1>5, <1>8, <1>9, <2>1 DEF Core, Cleared, Soon
  <2>3. QED
    BY <1>1, <1>2, <1>3, <2>1, <2>2 DEF Attempts, One, ClientTypes
<1>10. ASSUME Orderly' PROVE Core'
  <2>1. Matched' /\ Halted'
    BY <1>1, <1>3, <1>8, <1>9, <1>10, Zenon DEF Core, Matched, Halted, One
  <2>2. Cleared'
    BY <1>1, <1>3, <1>8, <1>9, <1>10, Zenon DEF Core, Cleared, Soon
  <2>3. QED
    BY <1>8, <1>9, <1>10, <2>1, <2>2, Zenon DEF Core
<1>11. ASSUME lapses' = {} PROVE Released'
  <2>1. user # "gone"
    BY <1>1, <1>2, <1>11, LapseFacts, Zenon DEF Lapse
  <2>2. QED
    BY <1>1, <2>1, ZenonT(30) DEF Released
<1>12. KeepsTrying'
  <2>1. Orderly' => Orderly
    BY <1>2, LapseFacts, Zenon
  <2>2. QED
    BY <1>1, <1>9, <2>1, Zenon DEF KeepsTrying, ClientInv, BaseInv
<1>13. SocketsOwned'
  BY <1>1, <1>8, <1>9 DEF SocketsOwned, ClientInv, BaseInv, One
<1>14. QED
  BY <1>6, <1>7, <1>10, <1>11, <1>12, <1>13, Zenon DEF BaseInv

\* An attempt under way ends in an event: with a connection, or without one
\* and, if connect_ is still set, a timer for the next.
LEMMA AttemptEndsInv ==
    ASSUME NumberFacts, ClientInv, LapseStep, batch = Polled, loopAt = "idle", state_ = "kConnecting",
           channel_' = "removed", tasks' = Append(tasks, "resetChannel"),
           state_' \in {"kDisconnected", "kConnected"}, ready' \subseteq ready,
           \/ loopAt' = "idle" /\ timers' = (IF connect_ THEN timers + 1 ELSE timers) /\ fds' = fds - 1
           \/ loopAt' = "newConnection" /\ timers' = timers /\ fds' = fds /\ "write" \in ready,
           UNCHANGED <<connect_, gaveUp, conn, closeCb, batch, retry_, clientConnect_, hold, stopped, user>>
    PROVE  BaseInv'
<1>1. ClientTypes /\ Phased
  BY Zenon DEF ClientInv, BaseInv
<1>2. /\ tasks' \in Seq(Functors) /\ Len(tasks') = Len(tasks) + 1 /\ Len(tasks) \in Nat
      /\ CloseOrder(tasks, batch, closeCb) => CloseOrder(tasks', batch, closeCb)
  BY <1>1, Queueing, LenProperties, Zenon DEF ClientTypes, Functors
<1>3. /\ Count("stopInLoop")' = Count("stopInLoop") /\ Count("startInLoop")' = Count("startInLoop")
      /\ Count("resetChannel")' = Count("resetChannel") + 1 /\ Count("setCloseCallback")' = Count("setCloseCallback")
      /\ Count("forceClose")' = Count("forceClose") /\ Count("connectDestroyed")' = Count("connectDestroyed")
  BY <1>1, TasksPut, Zenon DEF ClientTypes, Functors
<1>4. \A f : Count(f) \in Nat
  BY <1>1, CountIs, ZenonT(30) DEF ClientTypes
<1>5. ClientTypes'
  BY <1>1, <1>2, LapseFacts DEF ClientTypes
<1>6. Phased'
  BY <1>1, <1>2, <1>3 DEF Phased, ClientTypes
<1>7. Orderly' => Orderly /\ Core
  BY <1>1, LapseFacts, ZenonT(30) DEF ClientInv, BaseInv
<1>8. ASSUME Orderly' PROVE /\ Attempts' \in {0, 1} /\ (connect_ /\ loopAt' = "idle" => Attempts' = 1)
                            /\ (loopAt' # "idle" => Attempts' = 1)
                            /\ Attempts = 1 /\ channel_ = "active" /\ timers = 0 /\ conn # "up"
                            /\ Count("startInLoop") = 0
  <2>1. channel_ = "active" /\ Attempts <= 1
    BY <1>7, <1>8, Zenon DEF Core, Matched
  <2>2. Attempts = 1 /\ timers = 0 /\ conn # "up" /\ Count("startInLoop") = 0
    BY <1>1, <1>4, <2>1 DEF Attempts, One, ClientTypes
  <2>3. QED
    BY <1>3, <2>1, <2>2 DEF Attempts, One
<1>9. ASSUME Orderly' PROVE Core'
  <2>1. ready \cap {"timer", "close"} = {}
    BY <1>1, <1>7, <1>8, <1>9 DEF Core, Matched, Phased
  <2>2. Matched' /\ Halted'
    BY <1>3, <1>4, <1>7, <1>8, <1>9, <2>1 DEF Core, Matched, Halted, One
  <2>3. \A f : ~Within(tasks, f, Polled)
    BY <1>1, Batches, Zenon DEF ClientTypes
  <2>4. conn = "down" => "write" \notin ready
    BY <1>7, <1>8, <1>9, <2>3 DEF Core, Cleared, Soon
  <2>5. Cleared'
    BY <2>1, <2>4, Zenon DEF Cleared
  <2>6. QED
    BY <1>8, <1>9, <2>2, <2>5 DEF Core
<1>10. ASSUME lapses' = {} PROVE Released'
  <2>1. Released /\ channel_ = "active"
    BY <1>1, <1>8, <1>10, LapseFacts, Zenon DEF ClientInv, BaseInv
  <2>2. QED
    BY <2>1, Zenon DEF Released
<1>11. KeepsTrying'
  BY <1>8, Zenon DEF KeepsTrying
<1>12. SocketsOwned'
  <2>1. ASSUME Orderly' PROVE /\ fds = 1 + One(conn \in {"up", "down"}) /\ channel_ = "active"
    BY <1>7, <1>8, <2>1 DEF SocketsOwned, ClientInv, BaseInv, One
  <2>2. QED
    BY <2>1 DEF SocketsOwned, One
<1>13. QED
  BY <1>5, <1>6, <1>9, <1>10, <1>11, <1>12, Zenon DEF BaseInv

LEMMA HandleErrorInv == ASSUME NumberFacts, ClientInv, handleError, LapseStep PROVE BaseInv'
<1>1. /\ batch = Polled /\ loopAt = "idle" /\ ready' \subseteq ready /\ connectorError
      /\ UNCHANGED <<connect_, gaveUp, conn, closeCb, batch, loopAt, retry_, clientConnect_, hold, stopped, user>>
  BY Zenon DEF handleError, Handles, NotTheUser
<1>2. CASE state_ = "kConnecting"
  BY <1>1, <1>2, AttemptEndsInv, Zenon DEF connectorError, removeAndResetChannel, retry
<1>3. CASE state_ # "kConnecting"
  <2>1. UNCHANGED connectorVars
    BY <1>1, <1>3, Zenon DEF connectorError, connectorVars
  <2>2. QED
    BY <1>1, <2>1, IgnoredInv, Zenon
<1>4. QED
  BY <1>2, <1>3, Zenon

LEMMA HandleWriteInv == ASSUME NumberFacts, ClientInv, handleWrite, LapseStep PROVE BaseInv'
<1>1. /\ batch = Polled /\ loopAt = "idle" /\ "write" \in ready /\ ready' \subseteq ready
      /\ UNCHANGED <<connect_, gaveUp, conn, closeCb, batch, retry_, clientConnect_, hold, stopped, user>>
  BY Zenon DEF handleWrite, Handles, NotTheUser
<1>2. PICK new \in BOOLEAN : connectorWrite(new) /\ loopAt' = IF new THEN "newConnection" ELSE "idle"
  BY Zenon DEF handleWrite
<1>3. CASE state_ = "kConnecting"
  <2>1. /\ channel_' = "removed" /\ tasks' = Append(tasks, "resetChannel")
        /\ state_' \in {"kDisconnected", "kConnected"}
    BY <1>2, <1>3, Zenon DEF connectorWrite, writable, removeAndResetChannel, retry
  <2>2. \/ new = FALSE /\ timers' = (IF connect_ THEN timers + 1 ELSE timers) /\ fds' = fds - 1
        \/ new = connect_ /\ timers' = timers /\ fds' = IF connect_ THEN fds ELSE fds - 1
    BY <1>2, <1>3, Zenon DEF connectorWrite, writable, retry
  <2>3. \/ loopAt' = "idle" /\ timers' = (IF connect_ THEN timers + 1 ELSE timers) /\ fds' = fds - 1
        \/ loopAt' = "newConnection" /\ timers' = timers /\ fds' = fds
    <3>1. CASE new = FALSE /\ timers' = (IF connect_ THEN timers + 1 ELSE timers) /\ fds' = fds - 1
      BY <1>2, <3>1, Zenon
    <3>2. CASE new = connect_ /\ timers' = timers /\ fds' = IF connect_ THEN fds ELSE fds - 1
      BY <1>2, <3>2, Zenon
    <3>3. QED
      BY <2>2, <3>1, <3>2, Zenon
  <2>4. QED
    BY <1>1, <1>3, <2>1, <2>3, AttemptEndsInv, Zenon
<1>4. CASE state_ # "kConnecting"
  <2>1. UNCHANGED <<connectorVars, loopAt>>
    BY <1>1, <1>2, <1>4, Zenon DEF connectorWrite, writable, connectorVars
  <2>2. QED
    BY <1>1, <2>1, IgnoredInv, Zenon
<1>5. QED
  BY <1>3, <1>4, Zenon

\* What startInLoop does: an attempt is under way, waits for its timer, or
\* is given up or not wanted.
Started(on, ts, s) ==
    \/ on /\ state_' = "kConnecting" /\ channel_' = "active" /\ fds' = fds + 1 /\ timers' = ts
    \/ on /\ state_' = "kDisconnected" /\ channel_' = channel_ /\ fds' = fds /\ timers' = ts + 1
    \/ (gaveUp' \/ ~on) /\ state_' = s /\ channel_' = channel_ /\ fds' = fds /\ timers' = ts

LEMMA StartedIs == ASSUME NEW on, NEW ts, NEW s, startInLoop(on, ts, s) PROVE Started(on, ts, s)
BY Zenon DEF startInLoop, connect, connecting, retry, Started

LEMMA AttemptStartsInv ==
    ASSUME NumberFacts, ClientInv, LapseStep, NEW ts, NEW s, Started(connect_', ts, s), batch = Polled, loopAt' = "idle",
           tasks' = tasks,
           \/ /\ "timer" \in ready /\ ready' = ready \ {"timer"} /\ ts = timers - 1 /\ s = state_
              /\ loopAt = "idle" /\ connect_' = connect_
           \/ ready' = ready /\ loopAt = "removeConnection" /\ ts = timers /\ s = "kDisconnected" /\ connect_',
           UNCHANGED <<conn, closeCb, batch, retry_, clientConnect_, hold, stopped, user>>
    PROVE  BaseInv'
<1>1. ClientTypes /\ Phased
  BY Zenon DEF ClientInv, BaseInv
<1>2. \A f : Count(f)' = Count(f) /\ Count(f) \in Nat
  BY <1>1, TasksKept, CountIs, Zenon DEF ClientTypes
<1>3. ts \in Nat /\ ready' \subseteq ready /\ ("timer" \in ready' => ts > 0)
      /\ s \in {"kDisconnected", "kConnecting", "kConnected"}
  BY <1>1 DEF Phased, ClientTypes
<1>4. ClientTypes'
  BY <1>1, <1>3, LapseFacts DEF ClientTypes, Started
<1>5. Phased'
  BY <1>1, <1>2, <1>3 DEF Phased, Started
<1>6. Orderly' => Orderly /\ Core
  BY <1>1, LapseFacts, ZenonT(30) DEF ClientInv, BaseInv
<1>7. \A f : ~Within(tasks, f, Polled)
  BY <1>1, Batches, Zenon DEF ClientTypes
<1>8. ASSUME Orderly' PROVE /\ ts = 0 /\ Count("startInLoop") = 0 /\ conn # "up" /\ Attempts = 1
                            /\ channel_ = "none" /\ s # "kConnecting" /\ ("timer" \notin ready')
  <2>1. /\ Attempts <= 1 /\ Matched /\ Cleared
    BY <1>6, <1>8, Zenon DEF Core
  <2>2. ts = 0 /\ Count("startInLoop") = 0 /\ conn # "up" /\ Attempts = 1 /\ channel_ # "active"
    BY <1>1, <1>2, <2>1 DEF Attempts, One, ClientTypes, Phased
  <2>3. channel_ # "removed"
    BY <1>7, <2>1, <2>2 DEF Cleared, Soon, Matched
  <2>4. QED
    BY <1>1, <1>3, <2>1, <2>2, <2>3 DEF Matched, ClientTypes
<1>9. ASSUME Orderly' PROVE /\ Attempts' \in {0, 1} /\ (connect_' => gaveUp' \/ Attempts' = 1)
                            /\ Attempts' = timers' + One(channel_' = "active")
  BY <1>2, <1>8, <1>9 DEF Attempts, One, Started
<1>10. ASSUME Orderly' PROVE Core'
  <2>1. Matched'
    BY <1>1, <1>2, <1>3, <1>6, <1>8, <1>10, Zenon DEF Core, Matched, One, Started, Phased
  <2>2. stopped' => ~connect_'
    BY <1>1, <1>6, <1>10, LapseFacts, Zenon DEF Core, Halted, Lapse
  <2>3. Halted'
    BY <1>2, <1>6, <1>8, <1>10, <2>2, Zenon DEF Core, Halted, Started
  <2>4. Cleared'
    BY <1>6, <1>7, <1>3, <1>8, <1>10 DEF Core, Cleared, Soon, Started
  <2>5. QED
    BY <1>9, <1>10, <2>1, <2>3, <2>4 DEF Core
<1>11. ASSUME lapses' = {}, user' = "gone", ~hold'
       PROVE  channel_' = "none" /\ Owed' = 0 /\ loopAt' = "idle" /\ (timers' > 0 => ~connect_')
  <2>1. Released /\ Orderly'
    BY <1>1, <1>11, LapseFacts, Zenon DEF ClientInv, BaseInv
  <2>2. ~connect_' /\ Owed = 0
    BY <1>1, <1>11, <2>1 DEF Released, Phased
  <2>3. Owed' = Owed
    BY <1>2, Zenon DEF Owed
  <2>4. channel_' = channel_
    BY <2>2, Zenon DEF Started
  <2>5. QED
    BY <1>8, <2>1, <2>2, <2>3, <2>4, Zenon
<1>12. KeepsTrying'
  BY <1>9, Zenon DEF KeepsTrying
<1>13. SocketsOwned'
  <2>1. Orderly' => fds = One(conn \in {"up", "down"}) /\ channel_ = "none" /\ fds \in Int
    BY <1>1, <1>6, <1>8 DEF SocketsOwned, ClientInv, BaseInv, One, ClientTypes
  <2>2. QED
    BY <2>1 DEF SocketsOwned, One, Started
<1>14. QED
  BY <1>4, <1>5, <1>10, <1>11, <1>12, <1>13, Zenon DEF BaseInv, Released

LEMMA RetryTimerInv == ASSUME NumberFacts, ClientInv, retryTimer, LapseStep PROVE BaseInv'
<1>1. /\ batch = Polled /\ loopAt = "idle" /\ "timer" \in ready /\ ready' = ready \ {"timer"}
      /\ startInLoop(connect_, timers - 1, state_) /\ tasks' = tasks
      /\ UNCHANGED <<connect_, conn, closeCb, batch, loopAt, retry_, clientConnect_, hold, stopped, user>>
  BY Zenon DEF retryTimer, Handles, NotTheUser
<1>2. Started(connect_', timers - 1, state_)
  <2>1. Started(connect_, timers - 1, state_)
    BY <1>1, StartedIs, Zenon
  <2>2. QED
    BY <1>1, <2>1, Zenon DEF Started
<1>3. QED
  BY <1>1, <1>2, AttemptStartsInv, Zenon

LEMMA RemoveConnectionInv == ASSUME NumberFacts, ClientInv, removeConnection, LapseStep PROVE BaseInv'
<1>1. /\ loopAt = "removeConnection" /\ loopAt' = "idle" /\ startInLoop(TRUE, timers, "kDisconnected")
      /\ UNCHANGED <<tasks, conn, closeCb, ready, batch, retry_, clientConnect_, hold, stopped, user>>
  BY Zenon DEF removeConnection, NotTheUser, restart
<1>2. connect_'
  BY Zenon DEF removeConnection, restart
<1>3. Started(connect_', timers, "kDisconnected")
  <2>1. Started(TRUE, timers, "kDisconnected")
    BY <1>1, StartedIs, Zenon
  <2>2. QED
    BY <1>2, <2>1, Zenon DEF Started
<1>4. batch = Polled
  BY <1>1, Zenon DEF ClientInv, BaseInv, Phased
<1>5. QED
  BY <1>1, <1>2, <1>3, <1>4, AttemptStartsInv, Zenon

LEMMA CloseEventInv == ASSUME NumberFacts, ClientInv, closeEvent, LapseStep PROVE BaseInv'
<1>1. /\ batch = Polled /\ loopAt = "idle" /\ "close" \in ready /\ ready' = ready \ {"close"}
      /\ conn' = "down" /\ tasks' = Append(tasks, "connectDestroyed")
      /\ UNCHANGED <<connect_, state_, channel_, timers, fds, gaveUp, closeCb, batch, retry_, clientConnect_,
                     hold, stopped, user>>
  BY Zenon DEF closeEvent, Handles, NotTheUser, handleClose, closes
<1>2. loopAt' = IF closeCb # "detail" /\ retry_ /\ clientConnect_ THEN "removeConnection" ELSE "idle"
  BY <1>1, Zenon DEF closeEvent, handleClose, closes
<1>3. ClientTypes /\ Phased
  BY Zenon DEF ClientInv, BaseInv
<1>4. /\ tasks' \in Seq(Functors) /\ Len(tasks') = Len(tasks) + 1 /\ Len(tasks) \in Nat
      /\ CloseOrder(tasks, batch, closeCb) => CloseOrder(tasks', batch, closeCb)
  BY <1>1, <1>3, Queueing, LenProperties, Zenon DEF ClientTypes, Functors
<1>5. /\ Count("stopInLoop")' = Count("stopInLoop") /\ Count("startInLoop")' = Count("startInLoop")
      /\ Count("resetChannel")' = Count("resetChannel") /\ Count("setCloseCallback")' = Count("setCloseCallback")
      /\ Count("forceClose")' = Count("forceClose") /\ Count("connectDestroyed")' = Count("connectDestroyed") + 1
  BY <1>1, <1>3, TasksPut, ZenonT(30) DEF ClientTypes, Functors
<1>6. \A f : Count(f) \in Nat
  BY <1>3, CountIs, Zenon DEF ClientTypes
<1>7. ClientTypes'
  BY <1>1, <1>2, <1>3, <1>4, LapseFacts, ZenonT(30) DEF ClientTypes
<1>8. Phased'
  BY <1>1, <1>2, <1>3, <1>4, <1>5, ZenonT(30) DEF Phased, ClientTypes
<1>9. Orderly' => Orderly /\ Core
  BY <1>3, LapseFacts, Zenon DEF ClientInv, BaseInv
<1>10. ASSUME Orderly' PROVE /\ conn = "up" /\ Attempts = 1 /\ channel_ = "none" /\ "write" \notin ready
                             /\ Attempts' = One(loopAt' # "idle")
  <2>1. conn = "up" /\ "write" \notin ready /\ Attempts <= 1
    BY <1>1, <1>9, <1>10, Zenon DEF Core, Matched
  <2>2. Attempts = 1 /\ channel_ # "active" /\ timers = 0 /\ Count("startInLoop") = 0
    BY <1>1, <1>3, <1>6, <2>1 DEF Attempts, One, ClientTypes
  <2>3. channel_ # "removed"
    <3>1. \A f : ~Within(tasks, f, Polled)
      BY <1>3, Batches, Zenon DEF ClientTypes
    <3>2. QED
      BY <1>1, <1>9, <1>10, <2>2, <3>1 DEF Core, Cleared, Soon
  <2>4. QED
    BY <1>1, <1>3, <1>5, <2>1, <2>2, <2>3 DEF Attempts, One, ClientTypes
<1>11. ASSUME Orderly' PROVE Core'
  <2>1. Matched' /\ Halted'
    BY <1>1, <1>2, <1>5, <1>6, <1>9, <1>10, <1>11 DEF Core, Matched, Halted, One
  <2>2. Cleared'
    BY <1>1, <1>2, <1>10, <1>11, Zenon DEF Cleared
  <2>3. QED
    BY <1>10, <1>11, <2>1, <2>2 DEF Core, One
<1>12. ASSUME lapses' = {}, user' = "gone", ~hold'
       PROVE  channel_' = "none" /\ Owed' = 0 /\ loopAt' = "idle" /\ (timers' > 0 => ~connect_')
  <2>1. Released /\ Orderly' /\ ~Lapse("dangling")
    BY <1>3, <1>12, LapseFacts, ZenonT(30) DEF ClientInv, BaseInv
  <2>2. closeCb = "detail"
    BY <1>1, <1>3, <1>10, <1>12, <2>1, Zenon DEF Lapse, ClientTypes
  <2>3. Owed' = Owed
    BY <1>5, Zenon DEF Owed
  <2>4. Owed = 0 /\ channel_ = "none" /\ (timers > 0 => ~connect_)
    BY <1>1, <1>12, <2>1, Zenon DEF Released
  <2>5. QED
    BY <1>1, <1>2, <2>2, <2>3, <2>4, Zenon
<1>13. KeepsTrying'
  <2>2. user = "idle" => closeCb # "detail"
    BY <1>3, ZenonT(30) DEF Phased
  <2>3. QED
    BY <1>1, <1>2, <1>10, <2>2, Zenon DEF KeepsTrying, One
<1>14. SocketsOwned'
  BY <1>1, <1>2, <1>9, <1>10, Zenon DEF SocketsOwned, ClientInv, BaseInv, One
<1>15. QED
  BY <1>7, <1>8, <1>11, <1>12, <1>13, <1>14, Zenon DEF BaseInv, Released

\* The functors of Connector::start, stop and removeAndResetChannel.
LEMMA RunStartInv ==
    ASSUME NumberFacts, ClientInv, LapseStep, Runs("startInLoop"), startInLoop(connect_, timers, state_),
           tasks' = Tail(tasks), UNCHANGED <<conn, closeCb, loopAt>>
    PROVE  BaseInv'
<1>1. /\ batch > 0 /\ loopAt = "idle" /\ Head(tasks) = "startInLoop" /\ batch' = batch - 1
      /\ UNCHANGED <<connect_, conn, closeCb, loopAt, ready, retry_, clientConnect_, hold, stopped, user>>
  BY Zenon DEF Runs, NotTheUser
<1>2. Started(connect_, timers, state_)
  BY StartedIs, Zenon
<1>3. ClientTypes /\ Phased
  BY Zenon DEF ClientInv, BaseInv
<1>4. batch \in Int /\ batch <= Len(tasks) /\ tasks \in Seq(Functors) /\ Len(tasks) \in Nat
  BY <1>1, <1>3, LenProperties DEF ClientTypes, Phased, Polled
<1>5. /\ tasks # <<>> /\ tasks' \in Seq(Functors) /\ Len(tasks') = Len(tasks) - 1
      /\ CloseOrder(tasks, batch, closeCb) => CloseOrder(tasks', batch', closeCb)
      /\ \A f : Within(tasks, f, batch) /\ f # "startInLoop" => Within(tasks', f, batch')
  BY <1>1, <1>4, Dequeueing, ZenonT(30)
<1>6. /\ Count("startInLoop")' = Count("startInLoop") - 1 /\ Count("stopInLoop")' = Count("stopInLoop")
      /\ Count("resetChannel")' = Count("resetChannel") /\ Count("setCloseCallback")' = Count("setCloseCallback")
      /\ Count("forceClose")' = Count("forceClose") /\ Count("connectDestroyed")' = Count("connectDestroyed")
      /\ Count("startInLoop") > 0
  BY <1>1, <1>4, <1>5, TasksTaken, CountIs, Zenon
<1>7. \A f : Count(f) \in Nat
  BY <1>4, CountIs, ZenonT(30)
<1>8. ClientTypes'
  BY <1>1, <1>2, <1>3, <1>5, LapseFacts DEF ClientTypes, Started
<1>9. Phased'
  BY <1>1, <1>2, <1>3, <1>4, <1>5, <1>6 DEF Phased, Started, ClientTypes, Polled
<1>10. Orderly' => Orderly /\ Core
  BY <1>3, LapseFacts, ZenonT(30) DEF ClientInv, BaseInv
<1>10a. ASSUME Orderly' PROVE Count("resetChannel") = 0 \/ channel_ # "removed"
  BY <1>1, <1>4, <1>5, <1>10a, <1>10, BeforeHead, CountIs, Zenon DEF ClientInv, Ordered
<1>10b. ASSUME Orderly' PROVE Count("stopInLoop") = 0 \/ stopped
  BY <1>1, <1>4, <1>5, <1>10b, <1>10, BeforeHead, CountIs, Zenon DEF ClientInv, Ordered
<1>11. ASSUME Orderly' PROVE /\ timers = 0 /\ Count("startInLoop") = 1 /\ conn # "up" /\ Attempts = 1
                             /\ channel_ = "none" /\ state_ # "kConnecting"
  <2>1. /\ Attempts <= 1 /\ Matched
    BY <1>10, <1>11, Zenon DEF Core
  <2>2. timers = 0 /\ Count("startInLoop") = 1 /\ conn # "up" /\ Attempts = 1 /\ channel_ # "active"
    BY <1>3, <1>6, <1>7, <2>1, SMTT(30) DEF Attempts, One, ClientTypes
  <2>3. channel_ # "removed"
    BY <1>11, <1>10a, <2>1 DEF Matched, One
  <2>4. QED
    BY <1>3, <2>1, <2>2, <2>3, Zenon DEF Matched, ClientTypes
<1>12. ASSUME Orderly' PROVE Attempts' \in {0, 1} /\ (connect_' => gaveUp' \/ Attempts' = 1)
  BY <1>1, <1>2, <1>6, <1>11, <1>12 DEF Attempts, One, Started
<1>13. ASSUME Orderly' PROVE Core'
  <2>1. Matched'
    BY <1>1, <1>2, <1>6, <1>10, <1>11, <1>13, ZenonT(30) DEF Core, Matched, One, Started
  <2>2. Halted'
    <3>1. ~(Count("stopInLoop")' > 0) \/ stopped'
      BY <1>1, <1>6, <1>13, <1>10b
    <3>2. QED
      BY <1>1, <1>2, <1>6, <1>10, <1>11, <1>13, <3>1, Zenon DEF Core, Halted, Started
  <2>3. Soon("connectDestroyed") => Soon("connectDestroyed")'
    BY <1>5, Zenon DEF Soon
  <2>4. Cleared'
    BY <1>1, <1>2, <1>10, <1>11, <1>13, <2>3 DEF Core, Cleared, Started, Polled
  <2>5. QED
    BY <1>12, <1>13, <2>1, <2>2, <2>4 DEF Core
<1>14. ASSUME lapses' = {} PROVE Released'
  <2>1. Released
    BY <1>3, <1>14, LapseFacts, Zenon DEF ClientInv, BaseInv
  <2>2. Owed # 0
    BY <1>6, <1>7 DEF Owed
  <2>3. QED
    BY <1>1, <2>1, <2>2, Zenon DEF Released
<1>15. KeepsTrying'
  BY <1>12, Zenon DEF KeepsTrying
<1>16. SocketsOwned'
  <2>1. Orderly' => fds = One(conn \in {"up", "down"}) /\ channel_ = "none" /\ fds \in Int
    BY <1>1, <1>3, <1>10, <1>11 DEF SocketsOwned, ClientInv, BaseInv, One, ClientTypes
  <2>2. QED
    BY <1>1, <1>2, <2>1 DEF SocketsOwned, One, Started
<1>17. QED
  BY <1>8, <1>9, <1>13, <1>14, <1>15, <1>16, Zenon DEF BaseInv

\* A functor is taken from the queue, and x is the queue then.
LEMMA Taken ==
    ASSUME NumberFacts, ClientTypes, Phased, NEW g, Runs(g)
    PROVE  /\ g \in Functors /\ Count(g) > 0
           /\ tasks # <<>> /\ Head(tasks) = g /\ tasks \in Seq(Functors)
           /\ Tail(tasks) \in Seq(Functors) /\ Len(Tail(tasks)) = Len(tasks) - 1 /\ Len(tasks) \in Nat
           /\ batch \in 1 .. Len(tasks) /\ batch' = batch - 1 /\ loopAt = "idle" /\ ready = {}
           /\ g = "forceClose" => closeCb = "detail"
           /\ g \notin {"setCloseCallback"} => CloseOrder(Tail(tasks), batch', closeCb)
           /\ g = "setCloseCallback" => CloseOrder(Tail(tasks), batch', "detail")
           /\ \A f : Within(tasks, f, batch) /\ f # g => Within(Tail(tasks), f, batch')
           /\ UNCHANGED <<connect_, ready, hold, retry_, clientConnect_, stopped, user>>
<1>1. /\ batch > 0 /\ loopAt = "idle" /\ Head(tasks) = g /\ batch' = batch - 1
      /\ UNCHANGED <<connect_, ready, hold, retry_, clientConnect_, stopped, user>>
  BY Zenon DEF Runs, NotTheUser
<1>2. batch \in Int /\ batch <= Len(tasks) /\ tasks \in Seq(Functors) /\ Len(tasks) \in Nat /\ ready = {}
      /\ CloseOrder(tasks, batch, closeCb)
  BY <1>1, LenProperties DEF ClientTypes, Phased, Polled
<1>3. /\ tasks # <<>> /\ g \in Functors /\ Tail(tasks) \in Seq(Functors) /\ Len(Tail(tasks)) = Len(tasks) - 1
      /\ \A f : Within(tasks, f, batch) /\ f # g => Within(Tail(tasks), f, batch')
      /\ g = "forceClose" => closeCb = "detail"
  BY <1>1, <1>2, Dequeueing, Zenon
<1>4. g \notin {"setCloseCallback"} => CloseOrder(Tail(tasks), batch', closeCb)
  BY <1>1, <1>2, Dequeueing, Zenon
<1>5. g = "setCloseCallback" => CloseOrder(Tail(tasks), batch', "detail")
  BY <1>1, <1>2, Dequeueing, Zenon
<1>6. Count(g) > 0
  BY <1>1, <1>2, <1>3, CountIs, Zenon
<1>7. QED
  BY <1>1, <1>2, <1>3, <1>4, <1>5, <1>6

LEMMA RunStopInv ==
    ASSUME NumberFacts, ClientInv, LapseStep, Runs("stopInLoop"), stopInLoop(Tail(tasks)),
           UNCHANGED <<gaveUp, conn, closeCb, loopAt>>
    PROVE  BaseInv'
<1>1. ClientTypes /\ Phased
  BY Zenon DEF ClientInv, BaseInv
<1>2. /\ Count("stopInLoop") > 0 /\ tasks # <<>> /\ Head(tasks) = "stopInLoop" /\ tasks \in Seq(Functors)
      /\ Tail(tasks) \in Seq(Functors) /\ Len(Tail(tasks)) = Len(tasks) - 1 /\ Len(tasks) \in Nat
      /\ batch \in 1 .. Len(tasks) /\ batch' = batch - 1 /\ loopAt = "idle" /\ ready = {}
      /\ CloseOrder(Tail(tasks), batch', closeCb)
      /\ \A f : Within(tasks, f, batch) /\ f # "stopInLoop" => Within(Tail(tasks), f, batch')
      /\ UNCHANGED <<connect_, ready, hold, retry_, clientConnect_, stopped, user>>
  BY <1>1, Taken, Zenon
<1>3. \A f : Count(f) \in Nat
  BY <1>2, CountIs, ZenonT(30)
<1>4. Orderly' => Orderly /\ Core
  BY <1>1, LapseFacts, Zenon DEF ClientInv, BaseInv
<1>5. lapses' = {} => Orderly' /\ Released
  BY <1>1, LapseFacts, Zenon DEF ClientInv, BaseInv
<1>6. ASSUME lapses' = {} PROVE Released'
  <2>1. Owed # 0
    BY <1>2, <1>3 DEF Owed
  <2>2. QED
    BY <1>2, <1>5, <1>6, <2>1, Zenon DEF Released
<1>8. CASE state_ = "kConnecting"
  <2>1. /\ channel_' = "removed" /\ tasks' = Append(Tail(tasks), "resetChannel") /\ state_' = "kDisconnected"
        /\ timers' = (IF connect_ THEN timers + 1 ELSE timers) /\ fds' = fds - 1
    BY <1>8, Zenon DEF stopInLoop, removeAndResetChannel, retry
  <2>2. /\ tasks' \in Seq(Functors) /\ Len(tasks') = Len(tasks)
        /\ CloseOrder(tasks', batch', closeCb)
        /\ \A f : Within(tasks, f, batch) /\ f # "stopInLoop" => Within(tasks', f, batch')
    <3>1. "resetChannel" \in Functors /\ batch' \in Int /\ "resetChannel" # "forceClose"
      BY <1>2 DEF Functors
    <3>2. /\ tasks' \in Seq(Functors) /\ Len(tasks') = Len(Tail(tasks)) + 1
          /\ CloseOrder(Tail(tasks), batch', closeCb) => CloseOrder(tasks', batch', closeCb)
          /\ \A f : Within(Tail(tasks), f, batch') => Within(tasks', f, batch')
      BY <1>2, <2>1, <3>1, Queueing, ZenonT(30)
    <3>3. QED
      BY <1>2, <3>2
  <2>3. /\ Count("stopInLoop")' = Count("stopInLoop") - 1 /\ Count("startInLoop")' = Count("startInLoop")
        /\ Count("resetChannel")' = Count("resetChannel") + 1 /\ Count("setCloseCallback")' = Count("setCloseCallback")
        /\ Count("forceClose")' = Count("forceClose") /\ Count("connectDestroyed")' = Count("connectDestroyed")
    BY <1>2, <2>1, TasksTakenPut, ZenonT(30) DEF Functors
  <2>4. ClientTypes'
    BY <1>1, <1>2, <2>1, <2>2, LapseFacts, SMTT(30) DEF ClientTypes
  <2>5. Phased'
    BY <1>1, <1>2, <2>1, <2>2, <2>3, SMTT(30) DEF Phased, Polled
  <2>6. ASSUME Orderly' PROVE /\ channel_ = "active" /\ Attempts = 1 /\ Attempts' = 0 /\ ~connect_
                              /\ Count("startInLoop") = 0 /\ stopped
    <3>1. channel_ = "active" /\ Attempts <= 1
      BY <1>4, <1>8, <2>6, Zenon DEF Core, Matched
    <3>2. Attempts = 1 /\ timers = 0 /\ conn # "up" /\ Count("startInLoop") = 0
      BY <1>1, <1>3, <3>1 DEF Attempts, One, ClientTypes
    <3>3. ~connect_ /\ stopped
      BY <1>2, <1>4, <2>6, <3>2 DEF Core, Halted
    <3>4. QED
      BY <1>2, <2>1, <2>3, <3>1, <3>2, <3>3 DEF Attempts, One
  <2>7. ASSUME Orderly' PROVE Core'
    <3>1. Matched' /\ Halted'
      BY <1>2, <1>4, <2>1, <2>3, <2>6, <2>7, SMTT(30) DEF Core, Matched, Halted, One
    <3>2. Cleared'
      BY <1>2, <1>4, <2>2, <2>6, <2>7 DEF Core, Cleared, Soon, Polled
    <3>3. QED
      BY <2>6, <2>7, <3>1, <3>2, SMTT(30) DEF Core
  <2>8. SocketsOwned'
    <3>1. Orderly' => fds = 1 + One(conn \in {"up", "down"})
      BY <1>2, <1>4, <2>6, SMTT(30) DEF SocketsOwned, ClientInv, BaseInv, One
    <3>2. QED
      BY <1>2, <2>1, <3>1 DEF SocketsOwned, One
  <2>9. KeepsTrying'
    BY <1>2, <2>6, Zenon DEF KeepsTrying
  <2>10. QED
    BY <1>6, <2>4, <2>5, <2>7, <2>8, <2>9, Zenon DEF BaseInv
<1>9. CASE state_ # "kConnecting"
  <2>1. tasks' = Tail(tasks) /\ UNCHANGED <<state_, channel_, timers, fds>>
    BY <1>9, Zenon DEF stopInLoop
  <2>2. /\ Count("stopInLoop")' = Count("stopInLoop") - 1 /\ Count("startInLoop")' = Count("startInLoop")
        /\ Count("resetChannel")' = Count("resetChannel") /\ Count("setCloseCallback")' = Count("setCloseCallback")
        /\ Count("forceClose")' = Count("forceClose") /\ Count("connectDestroyed")' = Count("connectDestroyed")
    BY <1>2, <2>1, TasksTaken, Zenon
  <2>3. Attempts' = Attempts
    BY <2>1, <2>2, Zenon DEF Attempts
  <2>4. ClientTypes'
    BY <1>1, <1>2, <2>1, LapseFacts, SMTT(30) DEF ClientTypes
  <2>5. Phased'
    BY <1>1, <1>2, <2>1, <2>2 DEF Phased, Polled
  <2>6. ASSUME Orderly' PROVE Core'
    <3>1. Matched' /\ Halted'
      BY <1>2, <1>4, <1>9, <2>1, <2>2, <2>6, ZenonT(30) DEF Core, Matched, Halted
    <3>2. Cleared'
      BY <1>2, <1>4, <2>1, <2>2, <2>3, <2>6 DEF Core, Cleared, Soon, Polled
    <3>3. QED
      BY <1>4, <2>3, <2>6, <3>1, <3>2, Zenon DEF Core
  <2>7. SocketsOwned'
    BY <1>4, <2>1, Zenon DEF SocketsOwned, ClientInv, BaseInv
  <2>8. KeepsTrying'
    BY <1>2, <1>4, <2>3, Zenon DEF KeepsTrying, ClientInv, BaseInv
  <2>9. QED
    BY <1>6, <2>4, <2>5, <2>6, <2>7, <2>8, Zenon DEF BaseInv
<1>10. QED
  BY <1>8, <1>9, Zenon

LEMMA RunResetInv ==
    ASSUME NumberFacts, ClientInv, LapseStep, Runs("resetChannel"), resetChannel(Tail(tasks)),
           UNCHANGED <<state_, timers, fds, gaveUp, conn, closeCb, loopAt>>
    PROVE  BaseInv'
<1>1. ClientTypes /\ Phased /\ channel_' = "none" /\ tasks' = Tail(tasks)
  BY Zenon DEF ClientInv, BaseInv, resetChannel
<1>2. /\ Count("resetChannel") > 0 /\ tasks # <<>> /\ Head(tasks) = "resetChannel" /\ tasks \in Seq(Functors)
      /\ Tail(tasks) \in Seq(Functors) /\ Len(Tail(tasks)) = Len(tasks) - 1 /\ Len(tasks) \in Nat
      /\ batch \in 1 .. Len(tasks) /\ batch' = batch - 1 /\ loopAt = "idle" /\ ready = {}
      /\ CloseOrder(Tail(tasks), batch', closeCb)
      /\ \A f : Within(tasks, f, batch) /\ f # "resetChannel" => Within(Tail(tasks), f, batch')
      /\ UNCHANGED <<connect_, ready, hold, retry_, clientConnect_, stopped, user>>
  BY <1>1, Taken, Zenon
<1>3. \A f : Count(f) \in Nat
  BY <1>2, CountIs, Zenon
<1>4. /\ Count("stopInLoop")' = Count("stopInLoop") /\ Count("startInLoop")' = Count("startInLoop")
      /\ Count("resetChannel")' = Count("resetChannel") - 1 /\ Count("setCloseCallback")' = Count("setCloseCallback")
      /\ Count("forceClose")' = Count("forceClose") /\ Count("connectDestroyed")' = Count("connectDestroyed")
  BY <1>1, <1>2, TasksTaken, Zenon
<1>5. Orderly' => Orderly /\ Core /\ channel_ = "removed"
  <2>1. Orderly' => Orderly /\ Core
    BY <1>1, LapseFacts, Zenon DEF ClientInv, BaseInv
  <2>2. Core => Count("resetChannel") = One(channel_ = "removed")
    BY Zenon DEF Core, Matched
  <2>3. Count("resetChannel") > 0
    BY <1>2, Zenon
  <2>4. Core => channel_ = "removed"
    BY ONLY <2>2, <2>3 DEF One
  <2>5. QED
    BY <2>1, <2>4, Zenon
<1>6. Orderly' => Attempts' = Attempts
  BY <1>1, <1>4, <1>5, Zenon DEF Attempts, One
<1>7. lapses' = {} => Orderly' /\ Released /\ lapses = {}
  BY <1>1, LapseFacts, ZenonT(30) DEF ClientInv, BaseInv
<1>8. ClientTypes'
  BY <1>1, <1>2, LapseFacts, SMTT(30) DEF ClientTypes
<1>9. Phased'
  BY <1>1, <1>2, <1>4 DEF Phased, Polled
<1>10. ASSUME Orderly' PROVE Core'
  <2>1. Matched' /\ Halted'
    BY <1>1, <1>2, <1>4, <1>5, <1>10, SMTT(30) DEF Core, Matched, Halted, One
  <2>2. Cleared'
    BY <1>1, <1>2, <1>5, <1>6, <1>10 DEF Core, Cleared, Soon, Polled
  <2>3. QED
    BY <1>5, <1>6, <1>10, <2>1, <2>2, ZenonT(30) DEF Core
<1>11. ASSUME lapses' = {} PROVE Released'
  <2>1. Owed # 0
    BY <1>2, <1>3 DEF Owed
  <2>2. QED
    BY <1>2, <1>7, <1>11, <2>1, Zenon DEF Released
<1>12. KeepsTrying'
  BY <1>2, <1>5, <1>6, Zenon DEF KeepsTrying, ClientInv, BaseInv
<1>13. SocketsOwned'
  BY <1>1, <1>5, Zenon DEF SocketsOwned, ClientInv, BaseInv, One
<1>14. QED
  BY <1>8, <1>9, <1>10, <1>11, <1>12, <1>13, Zenon DEF BaseInv

\* The functors of the destructor and of the connection.
LEMMA RunSetCloseInv ==
    ASSUME NumberFacts, ClientInv, LapseStep, Runs("setCloseCallback"), closeCb' = "detail", tasks' = Tail(tasks),
           UNCHANGED <<state_, channel_, timers, fds, gaveUp, conn, loopAt>>
    PROVE  BaseInv'
<1>1. ClientTypes /\ Phased
  BY Zenon DEF ClientInv, BaseInv
<1>2. /\ Count("setCloseCallback") > 0 /\ tasks # <<>> /\ Head(tasks) = "setCloseCallback" /\ tasks \in Seq(Functors)
      /\ Tail(tasks) \in Seq(Functors) /\ Len(Tail(tasks)) = Len(tasks) - 1 /\ Len(tasks) \in Nat
      /\ batch \in 1 .. Len(tasks) /\ batch' = batch - 1 /\ loopAt = "idle" /\ ready = {}
      /\ CloseOrder(Tail(tasks), batch', "detail")
      /\ \A f : Within(tasks, f, batch) /\ f # "setCloseCallback" => Within(Tail(tasks), f, batch')
      /\ UNCHANGED <<connect_, ready, hold, retry_, clientConnect_, stopped, user>>
  BY <1>1, Taken, Zenon
<1>3. /\ Count("stopInLoop")' = Count("stopInLoop") /\ Count("startInLoop")' = Count("startInLoop")
      /\ Count("resetChannel")' = Count("resetChannel")
      /\ Count("connectDestroyed")' = Count("connectDestroyed")
  BY <1>2, TasksTaken, ZenonT(30)
<1>4. Attempts' = Attempts /\ Owed' = Owed /\ user = "gone"
  BY <1>1, <1>2, <1>3, SMTT(30) DEF Attempts, Owed, Phased
<1>5. ClientTypes'
  BY <1>1, <1>2, LapseFacts, SMTT(30) DEF ClientTypes
<1>6. Phased'
  BY <1>1, <1>2, <1>4 DEF Phased, Polled
<1>7. Orderly' => Orderly /\ Core
  BY <1>1, LapseFacts, Zenon DEF ClientInv, BaseInv
<1>8. ASSUME Orderly' PROVE Core'
  <2>1. Matched' /\ Halted'
    BY <1>2, <1>3, <1>7, <1>8, ZenonT(30) DEF Core, Matched, Halted
  <2>2. Cleared'
    BY <1>2, <1>3, <1>4, <1>7, <1>8 DEF Core, Cleared, Soon, Polled
  <2>3. QED
    BY <1>4, <1>7, <1>8, <2>1, <2>2, ZenonT(30) DEF Core
<1>9. (lapses = {} => Released)'
  <2>1. lapses' = {} => lapses = {}
    BY <1>1, LapseFacts, Zenon
  <2>2. QED
    BY <1>2, <1>4, <2>1, Zenon DEF Released, ClientInv, BaseInv
<1>10. KeepsTrying'
  BY <1>2, <1>4, ZenonT(30) DEF KeepsTrying
<1>11. SocketsOwned'
  BY <1>7, Zenon DEF SocketsOwned, ClientInv, BaseInv
<1>12. QED
  BY <1>5, <1>6, <1>8, <1>9, <1>10, <1>11, Zenon DEF BaseInv

LEMMA RunForceCloseInv ==
    ASSUME NumberFacts, ClientInv, LapseStep, Runs("forceClose"),
           IF conn = "up" THEN handleClose(Tail(tasks)) ELSE tasks' = Tail(tasks) /\ UNCHANGED <<conn, loopAt>>,
           UNCHANGED <<state_, channel_, timers, fds, gaveUp, closeCb>>
    PROVE  BaseInv'
<1>1. ClientTypes /\ Phased
  BY ZenonT(30) DEF ClientInv, BaseInv
<1>2. /\ Count("forceClose") > 0 /\ tasks # <<>> /\ Head(tasks) = "forceClose" /\ tasks \in Seq(Functors)
      /\ Tail(tasks) \in Seq(Functors) /\ Len(Tail(tasks)) = Len(tasks) - 1 /\ Len(tasks) \in Nat
      /\ batch \in 1 .. Len(tasks) /\ batch' = batch - 1 /\ loopAt = "idle" /\ ready = {}
      /\ closeCb = "detail" /\ CloseOrder(Tail(tasks), batch', closeCb)
      /\ \A f : Within(tasks, f, batch) /\ f # "forceClose" => Within(Tail(tasks), f, batch')
      /\ UNCHANGED <<connect_, ready, hold, retry_, clientConnect_, stopped, user>>
  BY <1>1, Taken, ZenonT(30)
<1>3. \A f : Count(f) \in Nat
  BY <1>2, CountIs, ZenonT(30)
<1>4. user = "gone"
  BY <1>1, <1>2, Zenon DEF Phased
<1>5. loopAt' = "idle"
  BY <1>2, Zenon DEF handleClose, closes
<1>6. Orderly' => Orderly /\ Core
  BY <1>1, LapseFacts, Zenon DEF ClientInv, BaseInv
<1>7. lapses' = {} => lapses = {}
  BY <1>1, LapseFacts, ZenonT(30)
<1>8. KeepsTrying'
  BY <1>2, <1>4, Zenon DEF KeepsTrying
<1>9. CASE conn = "up"
  <2>1. conn' = "down" /\ tasks' = Append(Tail(tasks), "connectDestroyed")
    BY <1>9, Zenon DEF handleClose, closes
  <2>2. /\ tasks' \in Seq(Functors) /\ Len(tasks') = Len(tasks)
        /\ CloseOrder(tasks', batch', closeCb)
    <3>1. "connectDestroyed" \in Functors /\ batch' \in Int /\ "connectDestroyed" # "forceClose"
      BY <1>2 DEF Functors
    <3>2. /\ tasks' \in Seq(Functors) /\ Len(tasks') = Len(Tail(tasks)) + 1
          /\ CloseOrder(Tail(tasks), batch', closeCb) => CloseOrder(tasks', batch', closeCb)
      BY <1>2, <2>1, <3>1, Queueing, ZenonT(30)
    <3>3. QED
      BY ONLY <1>2, <3>2
  <2>3. /\ Count("stopInLoop")' = Count("stopInLoop") /\ Count("startInLoop")' = Count("startInLoop")
        /\ Count("resetChannel")' = Count("resetChannel")
        /\ Count("connectDestroyed")' = Count("connectDestroyed") + 1
    BY <1>2, <2>1, TasksTakenPut, Zenon DEF Functors
  <2>4. ClientTypes'
    <3>1. UNCHANGED <<state_, channel_, timers, fds, closeCb>> /\ lapses' \subseteq Lapses
      BY <1>1, LapseFacts, ZenonT(30)
    <3>2. QED
      BY ONLY <1>1, <1>2, <1>5, <2>1, <2>2, <3>1 DEF ClientTypes
  <2>5. Phased'
    BY <1>1, <1>2, <1>4, <1>5, <2>2, SMTT(30) DEF Phased, Polled
  <2>6. ASSUME Orderly' PROVE Attempts' = 0
    <3>1. Attempts <= 1
      BY <1>6, <2>6, Zenon DEF Core
    <3>2. channel_ # "active" /\ timers = 0 /\ Count("startInLoop") = 0
      BY <1>1, <1>3, <1>9, <3>1 DEF Attempts, One, ClientTypes
    <3>3. QED
      BY <1>5, <2>1, <2>3, <3>2 DEF Attempts, One
  <2>7. ASSUME Orderly' PROVE Core'
    <3>1. Matched' /\ Halted'
      <4>1. Count("connectDestroyed") = 0
        BY <1>6, <1>9, <2>7, ZenonT(30) DEF Core, Matched, One
      <4>2. Count("connectDestroyed")' = 1
        BY ONLY <2>3, <4>1
      <4>3. Matched'
        BY <1>2, <1>5, <1>6, <1>9, <2>1, <2>3, <2>7, <4>2, ZenonT(30) DEF Core, Matched, One
      <4>4. Halted'
        BY <1>2, <1>5, <1>6, <2>1, <2>3, <2>7, ZenonT(30) DEF Core, Halted
      <4>5. QED
        BY <4>3, <4>4, Zenon
    <3>2. Cleared'
      BY <1>2, <1>4, <2>6, <2>7 DEF Cleared
    <3>3. QED
      BY <2>6, <2>7, <3>1, <3>2 DEF Core
  <2>8. (lapses = {} => Released)'
    <3>1. Owed' = Owed
      BY <2>3, ZenonT(30) DEF Owed
    <3>2. QED
      BY <1>2, <1>5, <1>7, <3>1, Zenon DEF Released, ClientInv, BaseInv
  <2>9. SocketsOwned'
    BY <1>2, <1>5, <1>6, <1>9, <2>1, Zenon DEF SocketsOwned, ClientInv, BaseInv, One
  <2>10. QED
    BY <1>8, <2>4, <2>5, <2>7, <2>8, <2>9, Zenon DEF BaseInv
<1>10. CASE conn # "up"
  <2>1. conn' = conn /\ tasks' = Tail(tasks)
    BY <1>10, Zenon
  <2>2. /\ Count("stopInLoop")' = Count("stopInLoop") /\ Count("startInLoop")' = Count("startInLoop")
        /\ Count("resetChannel")' = Count("resetChannel")
        /\ Count("connectDestroyed")' = Count("connectDestroyed")
    BY <1>2, <2>1, TasksTaken, ZenonT(30)
  <2>3. Attempts' = Attempts /\ Owed' = Owed
    BY <1>2, <1>5, <2>1, <2>2, ZenonT(30) DEF Attempts, Owed
  <2>4. ClientTypes'
    <3>1. lapses' \subseteq Lapses
      BY <1>1, LapseFacts, Zenon
    <3>2. batch' \in Int
      BY <1>2, SMTT(30)
    <3>3. QED
      BY <1>1, <1>2, <1>5, <2>1, <3>1, <3>2, ZenonT(30) DEF ClientTypes
  <2>5. Phased'
    BY <1>1, <1>2, <1>4, <1>5, <2>1 DEF Phased, Polled
  <2>6. ASSUME Orderly' PROVE Core'
    <3>1. Matched' /\ Halted'
      BY <1>2, <1>5, <1>6, <2>1, <2>2, <2>6, ZenonT(30) DEF Core, Matched, Halted
    <3>2. Cleared'
      BY <1>2, <1>6, <2>1, <2>2, <2>3, <2>6 DEF Core, Cleared, Soon, Polled
    <3>3. QED
      BY <1>6, <2>3, <2>6, <3>1, <3>2, Zenon DEF Core
  <2>7. (lapses = {} => Released)'
    BY <1>2, <1>5, <1>7, <2>3, ZenonT(30) DEF Released, ClientInv, BaseInv
  <2>8. SocketsOwned'
    BY <1>2, <1>5, <1>6, <2>1, Zenon DEF SocketsOwned, ClientInv, BaseInv
  <2>9. QED
    BY <1>8, <2>4, <2>5, <2>6, <2>7, <2>8, Zenon DEF BaseInv
<1>11. QED
  BY <1>9, <1>10, Zenon

LEMMA RunDestroyedInv ==
    ASSUME NumberFacts, ClientInv, LapseStep, Runs("connectDestroyed"), conn' = "destroyed", fds' = fds - 1,
           tasks' = Tail(tasks), UNCHANGED <<state_, channel_, timers, gaveUp, closeCb, loopAt>>
    PROVE  BaseInv'
<1>1. ClientTypes /\ Phased
  BY ZenonT(30) DEF ClientInv, BaseInv
<1>2. /\ Count("connectDestroyed") > 0 /\ tasks # <<>> /\ Head(tasks) = "connectDestroyed" /\ tasks \in Seq(Functors)
      /\ Tail(tasks) \in Seq(Functors) /\ Len(Tail(tasks)) = Len(tasks) - 1 /\ Len(tasks) \in Nat
      /\ batch \in 1 .. Len(tasks) /\ batch' = batch - 1 /\ loopAt = "idle" /\ ready = {}
      /\ CloseOrder(Tail(tasks), batch', closeCb)
      /\ \A f : Within(tasks, f, batch) /\ f # "connectDestroyed" => Within(Tail(tasks), f, batch')
      /\ UNCHANGED <<connect_, ready, hold, retry_, clientConnect_, stopped, user>>
  BY <1>1, Taken, Zenon
<1>3. /\ Count("stopInLoop")' = Count("stopInLoop") /\ Count("startInLoop")' = Count("startInLoop")
      /\ Count("resetChannel")' = Count("resetChannel") /\ Count("setCloseCallback")' = Count("setCloseCallback")
      /\ Count("forceClose")' = Count("forceClose") /\ Count("connectDestroyed")' = Count("connectDestroyed") - 1
  BY <1>2, TasksTaken, ZenonT(30)
<1>4. Orderly' => Orderly /\ Core /\ conn = "down"
  BY <1>1, <1>2, LapseFacts DEF ClientInv, BaseInv, Core, Matched, One
<1>5. (Orderly' => Attempts' = Attempts) /\ Owed' = Owed
  BY <1>3, <1>4, Zenon DEF Attempts, One, Owed
<1>6. lapses' = {} => lapses = {} /\ Orderly'
  BY <1>1, LapseFacts, ZenonT(30)
<1>7. ClientTypes'
  <2>1. lapses' \subseteq Lapses
    BY <1>1, LapseFacts, Zenon
  <2>2. batch' \in Int /\ (fds \in Int => fds - 1 \in Int)
    BY ONLY <1>2, SMTT(30)
  <2>3. QED
    BY <1>1, <1>2, <2>1, <2>2, ZenonT(30) DEF ClientTypes
<1>8. Phased'
  BY <1>1, <1>2, <1>3 DEF Phased, Polled
<1>9. ASSUME Orderly' PROVE Core'
  <2>1. Matched' /\ Halted'
    <3>1. Count("connectDestroyed") = 1
      BY <1>4, <1>9, ZenonT(30) DEF Core, Matched, One
    <3>2. Count("connectDestroyed")' = 0
      BY ONLY <1>3, <3>1
    <3>3. Matched'
      BY <1>2, <1>3, <1>4, <1>9, <3>2, ZenonT(30) DEF Core, Matched, One
    <3>4. Halted'
      BY <1>2, <1>3, <1>4, <1>9, ZenonT(30) DEF Core, Halted
    <3>5. QED
      BY <3>3, <3>4, Zenon
  <2>2. Cleared'
    BY <1>2, <1>3, <1>4, <1>5, <1>9 DEF Core, Cleared, Soon, Polled
  <2>3. QED
    BY <1>4, <1>5, <1>9, <2>1, <2>2, Zenon DEF Core
<1>10. (lapses = {} => Released)'
  BY <1>2, <1>5, <1>6, ZenonT(30) DEF Released, ClientInv, BaseInv
<1>11. KeepsTrying'
  BY <1>2, <1>4, <1>5, Zenon DEF KeepsTrying, ClientInv, BaseInv
<1>12. SocketsOwned'
  BY <1>4 DEF SocketsOwned, ClientInv, BaseInv, One
<1>13. QED
  BY <1>7, <1>8, <1>9, <1>10, <1>11, <1>12, Zenon DEF BaseInv
-----------------------------------------------------------------------------
\* The functors of what came before stay in front of startInLoop.
LEMMA OrderKept ==
    ASSUME NumberFacts, ClientInv, LapseStep, Orderly', channel_' = channel_ \/ channel_' # "removed",
           UNCHANGED stopped,
           \/ tasks' = tasks
           \/ \E x \in Functors \ {"resetChannel", "stopInLoop"} : tasks' = Append(tasks, x)
           \/ tasks # <<>> /\ tasks' = Tail(tasks)
           \/ tasks # <<>> /\ tasks' = Append(Tail(tasks), "connectDestroyed")
    PROVE  Ordered'
<1>1. ClientTypes /\ tasks \in Seq(Functors)
  BY Zenon DEF ClientInv, BaseInv, ClientTypes
<1>2. Ordered
  BY <1>1, LapseFacts, Zenon DEF ClientInv
<1>3. ASSUME NEW g \in {"resetChannel", "stopInLoop"}, Before(tasks, g) PROVE Before(tasks', g)
  <2>1. CASE tasks' = tasks
    BY <1>3, <2>1, Zenon
  <2>2. CASE \E x \in Functors \ {"resetChannel", "stopInLoop"} : tasks' = Append(tasks, x)
    <3>1. PICK x \in Functors \ {"resetChannel", "stopInLoop"} : tasks' = Append(tasks, x)
      BY <2>2, Zenon
    <3>2. x # g
      BY Zenon
    <3>3. QED
      BY <1>1, <1>3, <3>1, <3>2, BeforeQueue, Zenon
  <2>3. CASE tasks # <<>> /\ tasks' = Tail(tasks)
    BY <1>1, <1>3, <2>3, BeforeQueue, Zenon
  <2>4. CASE tasks # <<>> /\ tasks' = Append(Tail(tasks), "connectDestroyed")
    <3>1. Tail(tasks) \in Seq(Functors) /\ Before(Tail(tasks), g)
      BY <1>1, <1>3, <2>4, BeforeQueue, HeadTailProperties, Zenon
    <3>2. "connectDestroyed" \in Functors /\ "connectDestroyed" # g
      BY Zenon DEF Functors
    <3>3. QED
      BY <2>4, <3>1, <3>2, BeforeQueue, Zenon
  <2>5. QED
    BY <2>1, <2>2, <2>3, <2>4, Zenon
<1>4. QED
  BY <1>2, <1>3, Zenon DEF Ordered

\* An attempt ends and no other waits in the queue.
LEMMA OrderAnew ==
    ASSUME NumberFacts, ClientInv, LapseStep, Orderly', state_ = "kConnecting",
           \/ tasks' = Append(tasks, "resetChannel")
           \/ tasks # <<>> /\ tasks' = Append(Tail(tasks), "resetChannel")
    PROVE  Ordered'
<1>1. ClientTypes /\ tasks \in Seq(Functors)
  BY Zenon DEF ClientInv, BaseInv, ClientTypes
<1>2. Core
  BY <1>1, LapseFacts, Zenon DEF ClientInv, BaseInv
<1>3. \A f : Count(f) \in Nat
  BY <1>1, CountIs, Zenon
<1>4. Count("startInLoop") = 0
  BY <1>1, <1>2, <1>3 DEF Core, Matched, Attempts, One, ClientTypes
<1>5. Number(tasks', "startInLoop") = 0 /\ tasks' \in Seq(Functors)
  <2>1. Number(tasks, "startInLoop") = 0 /\ "resetChannel" \in Functors
    BY <1>1, <1>4, Zenon DEF Functors, Count, Number
  <2>2. CASE tasks' = Append(tasks, "resetChannel")
    <3>1. Number(tasks', "startInLoop") = Number(tasks, "startInLoop")
      BY <1>1, <2>1, <2>2, NumberAppend, ZenonT(30)
    <3>2. tasks' \in Seq(Functors)
      BY <1>1, <2>1, <2>2, AppendProperties, Zenon
    <3>3. QED
      BY <2>1, <3>1, <3>2, Zenon
  <2>3. CASE tasks # <<>> /\ tasks' = Append(Tail(tasks), "resetChannel")
    <3>1. Tail(tasks) \in Seq(Functors)
      BY <1>1, <2>3, HeadTailProperties, Zenon
    <3>2. Number(Tail(tasks), "startInLoop") \in Nat
      BY <3>1, NumberIs, Zenon
    <3>3. Number(tasks, "startInLoop") \in {Number(Tail(tasks), "startInLoop"), Number(Tail(tasks), "startInLoop") + 1}
      BY <1>1, <2>3, NumberTail, Zenon
    <3>4. Number(Tail(tasks), "startInLoop") = 0
      BY ONLY <2>1, <3>2, <3>3
    <3>5. Number(tasks', "startInLoop") = Number(Tail(tasks), "startInLoop")
      BY <2>1, <2>3, <3>1, NumberAppend, ZenonT(30)
    <3>6. tasks' \in Seq(Functors)
      BY <2>1, <2>3, <3>1, AppendProperties, Zenon
    <3>7. QED
      BY <3>4, <3>5, <3>6, Zenon
  <2>4. QED
    BY <2>2, <2>3, Zenon
<1>6. QED
  BY <1>5, BeforeQueue, Zenon DEF Ordered

\* The calls of the other thread.
LEMMA UserOrder == ASSUME NumberFacts, ClientInv, LapseStep, UserStep, Orderly' PROVE Ordered'
<1>1. ClientTypes /\ tasks \in Seq(Functors)
  BY Zenon DEF ClientInv, BaseInv, ClientTypes
<1>2. Orderly /\ Ordered /\ ~Lapse("hasty")
  BY <1>1, LapseFacts, Zenon DEF ClientInv
<1>3. CASE connectClient
  <2>1. tasks' = Append(tasks, "startInLoop")
    BY <1>3, Zenon DEF connectClient, start
  <2>2. Count("startInLoop")' = Count("startInLoop") + 1 /\ \A f : Count(f) \in Nat
    BY <1>1, <2>1, TasksPut, CountIs, Zenon DEF Functors
  <2>3. Quiet
    BY <1>2, <2>2 DEF Lapse
  <2>4. Count("startInLoop") = 0
    BY <1>1, <2>2, <2>3 DEF Quiet, Attempts, One, ClientTypes
  <2>5. \A g \in {"resetChannel", "stopInLoop"} : Before(tasks, g)
    BY <1>1, <2>4, BeforeQueue, CountIs, Zenon
  <2>6. \A g \in {"resetChannel", "stopInLoop"} : Before(tasks', g)
    BY <1>1, <2>1, <2>5, BeforeQueue, Zenon DEF Functors
  <2>7. QED
    BY <2>6, Zenon DEF Ordered
<1>4. CASE stopConnector \/ destroyClient_stop
  <2>1. tasks' = Append(tasks, "stopInLoop") /\ channel_' = channel_
    BY <1>4, Zenon DEF stopConnector, destroyClient_stop, stop
  <2>2. stopped'
    BY <1>4, Zenon DEF stopConnector, destroyClient_stop
  <2>3. Before(tasks, "resetChannel") => Before(tasks', "resetChannel")
    BY <1>1, <2>1, BeforeQueue, Zenon DEF Functors
  <2>4. QED
    BY <1>2, <2>1, <2>2, <2>3, Zenon DEF Ordered
<1>5. CASE destroyClient_close
  <2>1. channel_' = channel_ /\ stopped' = stopped
        /\ (\/ tasks' = tasks \o <<"setCloseCallback">>
            \/ tasks' = tasks \o <<"setCloseCallback", "forceClose">>)
    BY <1>5, Zenon DEF destroyClient_close
  <2> DEFINE q == Append(tasks, "setCloseCallback")
  <2>2. "setCloseCallback" \in Functors /\ "forceClose" \in Functors
    BY Zenon DEF Functors
  <2>3. tasks' = q \/ tasks' = Append(q, "forceClose")
    BY <1>1, <2>1, <2>2
  <2>4. q \in Seq(Functors)
    BY <1>1, <2>2, AppendProperties, Zenon
  <2>5. ASSUME NEW g \in {"resetChannel", "stopInLoop"}, Before(tasks, g) PROVE Before(tasks', g)
    <3>1. g # "setCloseCallback" /\ g # "forceClose"
      BY Zenon
    <3>2. Before(q, g)
      BY <1>1, <2>2, <2>5, <3>1, BeforeQueue, Zenon
    <3> HIDE DEF q
    <3>3. Before(Append(q, "forceClose"), g)
      BY <2>2, <2>4, <3>1, <3>2, BeforeQueue, Zenon
    <3>4. QED
      BY <2>3, <3>2, <3>3, Zenon
  <2>6. QED
    BY <1>2, <2>1, <2>5, Zenon DEF Ordered
<1>6. CASE disconnect \/ stopClient \/ destroyClient
  <2>1. UNCHANGED <<channel_, tasks, stopped>>
    BY <1>6, Zenon DEF disconnect, stopClient, destroyClient, connectorVars
  <2>2. QED
    BY <2>1, OrderKept, Zenon
<1>7. QED
  BY <1>3, <1>4, <1>5, <1>6, Zenon DEF UserStep

\* The steps of the loop.
LEMMA LoopOrder == ASSUME NumberFacts, ClientInv, LapseStep, LoopStep, Orderly' PROVE Ordered'
<1>1. ClientTypes /\ Phased
  BY Zenon DEF ClientInv, BaseInv
<1>2. UNCHANGED stopped
  BY ZenonT(30) DEF LoopStep, poll, handleError, handleWrite, retryTimer, newConnection, closeEvent,
     removeConnection, doPendingFunctors, runConnector, runConnection, removeConnector, Runs, NotTheUser
<1>3. CASE poll \/ newConnection \/ doPendingFunctors \/ removeConnector
  <2>1. UNCHANGED <<channel_, tasks>>
    BY <1>3, Zenon DEF poll, newConnection, doPendingFunctors, removeConnector, connectorVars
  <2>2. QED
    BY <1>2, <2>1, OrderKept, Zenon
<1>4. CASE handleError
  BY <1>2, <1>4, OrderKept, OrderAnew, Zenon DEF handleError, connectorError, removeAndResetChannel
<1>5. CASE handleWrite
  <2>1. PICK new \in BOOLEAN : connectorWrite(new)
    BY <1>5, Zenon DEF handleWrite
  <2>2. QED
    BY <1>2, <2>1, OrderKept, OrderAnew, Zenon DEF connectorWrite, writable, removeAndResetChannel
<1>6. CASE retryTimer \/ removeConnection
  <2>1. tasks' = tasks /\ \E on, ts, st : startInLoop(on, ts, st)
    BY <1>6, Zenon DEF retryTimer, removeConnection, restart
  <2>2. channel_' \in {channel_, "active"}
    BY <2>1, StartedIs, Zenon DEF Started
  <2>3. QED
    BY <1>2, <2>1, <2>2, OrderKept, Zenon
<1>7. CASE closeEvent
  <2>1. channel_' = channel_ /\ tasks' = Append(tasks, "connectDestroyed")
    BY <1>7, Zenon DEF closeEvent, handleClose, closes
  <2>2. "connectDestroyed" \in Functors \ {"resetChannel", "stopInLoop"}
    BY Zenon DEF Functors
  <2>3. QED
    BY <1>2, <2>1, <2>2, OrderKept, Zenon
<1>8. CASE runConnector
  <2>1. tasks # <<>>
    BY <1>1, <1>8, Taken, Zenon DEF runConnector
  <2>2. CASE startInLoop(connect_, timers, state_) /\ tasks' = Tail(tasks)
    <3>1. channel_' \in {channel_, "active"}
      BY <2>2, StartedIs, Zenon DEF Started
    <3>2. QED
      BY <1>2, <2>1, <2>2, <3>1, OrderKept, Zenon
  <2>3. CASE stopInLoop(Tail(tasks))
    BY <1>2, <2>1, <2>3, OrderKept, OrderAnew, Zenon DEF stopInLoop, removeAndResetChannel
  <2>4. CASE resetChannel(Tail(tasks))
    BY <1>2, <2>1, <2>4, OrderKept, Zenon DEF resetChannel
  <2>5. QED
    BY <1>8, <2>2, <2>3, <2>4, Zenon DEF runConnector
<1>9. CASE runConnection
  <2>1. tasks # <<>>
    BY <1>1, <1>9, Taken, Zenon DEF runConnection
  <2>2. channel_' = channel_ /\ tasks' \in {Tail(tasks), Append(Tail(tasks), "connectDestroyed")}
    BY <1>9, Zenon DEF runConnection, handleClose, closes
  <2>3. QED
    BY <1>2, <2>1, <2>2, OrderKept, Zenon
<1>10. QED
  BY <1>3, <1>4, <1>5, <1>6, <1>7, <1>8, <1>9, Zenon DEF LoopStep

LEMMA ClientInitially == ASSUME NumberFacts, ClientInit PROVE ClientInv
<1>1. /\ state_ = "kDisconnected" /\ channel_ = "none" /\ timers = 0 /\ tasks = <<>> /\ fds = 0
      /\ conn = "none" /\ closeCb = "client" /\ ready = {} /\ batch = 0 /\ loopAt = "idle"
      /\ user = "idle" /\ lapses = {}
  BY Zenon DEF ClientInit, ConnectorInit
<1>2. ~connect_ /\ ~hold /\ ~stopped
  BY Zenon DEF ClientInit, ConnectorInit
<1>3. ClientTypes
  BY <1>1 DEF ClientTypes
<1>4. \A f : Count(f) = 0
  BY <1>1, <1>3, CountIs, Zenon DEF ClientTypes
<1>5. Phased
  BY <1>1, <1>2, <1>4 DEF Phased, CloseOrder
<1>6. Attempts = 0
  BY <1>1, <1>4 DEF Attempts, One
<1>7. Core
  BY <1>1, <1>2, <1>4, <1>6 DEF Core, Matched, Halted, Cleared, One
<1>8. Released /\ KeepsTrying /\ SocketsOwned
  BY <1>1, <1>2 DEF Released, KeepsTrying, SocketsOwned, One
<1>9. Ordered
  BY <1>1 DEF Ordered, Before
<1>10. QED
  BY <1>3, <1>5, <1>7, <1>8, <1>9, Zenon DEF ClientInv, BaseInv

LEMMA ClientStep == ASSUME NumberFacts, ClientInv, [ClientNext]_clientVars PROVE ClientInv'
<1>1. CASE UNCHANGED clientVars
  <2>1. /\ UNCHANGED <<connectorVars, conn, closeCb, ready, batch, loopAt, retry_, clientConnect_, hold, stopped,
                       user, lapses, connect_, state_, channel_, timers, tasks, fds, gaveUp>>
    BY <1>1, ZenonT(30) DEF clientVars, connectorVars
  <2>2. (\A f : Count(f)' = Count(f)) /\ Attempts' = Attempts /\ Owed' = Owed
    BY <2>1, Zenon DEF Count, Attempts, Owed
  <2>3. ClientTypes' /\ Phased' /\ KeepsTrying' /\ SocketsOwned' /\ (lapses = {} => Released)'
    <3>1. ClientTypes'
      BY <2>1, ZenonT(30) DEF ClientInv, BaseInv, ClientTypes
    <3>2. Phased'
      BY <2>1, <2>2, ZenonT(30) DEF ClientInv, BaseInv, Phased
    <3>3. KeepsTrying' /\ SocketsOwned'
      BY <2>1, <2>2, ZenonT(30) DEF ClientInv, BaseInv, KeepsTrying, SocketsOwned, Orderly
    <3>4. (lapses = {} => Released)'
      BY <2>1, <2>2, ZenonT(30) DEF ClientInv, BaseInv, Released
    <3>5. QED
      BY <3>1, <3>2, <3>3, <3>4, Zenon
  <2>4. (Orderly => Core)'
    BY <2>1, <2>2, Zenon DEF ClientInv, BaseInv, Orderly, Core, Matched, Halted, Cleared, Soon
  <2>5. (Orderly => Ordered)'
    BY <2>1, Zenon DEF ClientInv, Orderly, Ordered
  <2>6. QED
    BY <2>3, <2>4, <2>5, ZenonT(30) DEF ClientInv, BaseInv
<1>2. ASSUME UserStep, LapseStep PROVE BaseInv'
  <2>1. CASE connectClient
    BY <2>1, <1>2, ConnectClientInv, Zenon
  <2>2. CASE disconnect
    <3>1. ~clientConnect_' /\ user = "idle" /\ user' = "idle"
      BY <2>2, Zenon DEF disconnect, Called
    <3>2. UNCHANGED <<connectorVars, conn, closeCb, ready, batch, loopAt, retry_, hold, stopped>>
      BY <2>2, Zenon DEF disconnect, NotTheLoop
    <3>3. QED
      BY <1>2, <3>1, <3>2, FlagsInv, Zenon
  <2>3. CASE stopClient
    <3>1. user = "idle" /\ user' = "stop"
          /\ UNCHANGED <<connectorVars, conn, closeCb, ready, batch, loopAt, retry_, hold, stopped>>
      BY <2>3, Zenon DEF stopClient, Called, NotTheLoop
    <3>2. QED
      BY <1>2, <3>1, FlagsInv, Zenon
  <2>4. CASE stopConnector
    <3>1. stopped'
      BY <2>4, Zenon DEF stopConnector
    <3>2. user = "stop" /\ user' = "idle" /\ UNCHANGED hold /\ stop /\ NotTheLoop /\ UNCHANGED closeCb
      BY <2>4, Zenon DEF stopConnector
    <3>3. QED
      BY <1>2, <3>1, <3>2, StopInv, Zenon
  <2>5. CASE destroyClient
    <3>1. user = "idle" /\ user' \in {"closing", "stopping"}
          /\ UNCHANGED <<connectorVars, conn, closeCb, ready, batch, loopAt, retry_, hold, stopped>>
      BY <2>5, Zenon DEF destroyClient, NotTheLoop
    <3>2. QED
      BY <1>2, <3>1, FlagsInv, Zenon
  <2>6. CASE destroyClient_close
    BY <2>6, <1>2, DestroyCloseInv, Zenon
  <2>7. CASE destroyClient_stop
    <3>1. stopped' /\ hold'
      BY <2>7, Zenon DEF destroyClient_stop
    <3>2. user = "stopping" /\ user' = "gone" /\ stop /\ NotTheLoop /\ UNCHANGED closeCb
      BY <2>7, Zenon DEF destroyClient_stop
    <3>3. QED
      BY <1>2, <3>1, <3>2, StopInv, Zenon
  <2>8. QED
    BY <1>2, <2>1, <2>2, <2>3, <2>4, <2>5, <2>6, <2>7, Zenon DEF UserStep
<1>3. ASSUME runConnector, LapseStep PROVE BaseInv'
  <2>1. CASE Runs("startInLoop") /\ startInLoop(connect_, timers, state_) /\ tasks' = Tail(tasks)
    BY <1>3, <2>1, RunStartInv, Zenon DEF runConnector
  <2>2. CASE Runs("stopInLoop") /\ stopInLoop(Tail(tasks)) /\ UNCHANGED gaveUp
    BY <1>3, <2>2, RunStopInv, Zenon DEF runConnector
  <2>3. CASE Runs("resetChannel") /\ resetChannel(Tail(tasks)) /\ UNCHANGED <<state_, timers, fds, gaveUp>>
    BY <1>3, <2>3, RunResetInv, ZenonT(30) DEF runConnector
  <2>4. QED
    BY <1>3, <2>1, <2>2, <2>3, Zenon DEF runConnector
<1>4. ASSUME runConnection, LapseStep PROVE BaseInv'
  <2>1. CASE Runs("setCloseCallback") /\ closeCb' = "detail" /\ tasks' = Tail(tasks)
             /\ UNCHANGED <<connection_, conn, loopAt, fds>>
    BY <1>4, <2>1, RunSetCloseInv, ZenonT(30) DEF runConnection
  <2>2. CASE /\ Runs("forceClose") /\ UNCHANGED <<closeCb, fds>>
             /\ IF conn = "up" THEN handleClose(Tail(tasks))
                ELSE tasks' = Tail(tasks) /\ UNCHANGED <<connection_, conn, loopAt>>
    BY <1>4, <2>2, RunForceCloseInv, ZenonT(30) DEF runConnection
  <2>3. CASE Runs("connectDestroyed") /\ conn' = "destroyed" /\ fds' = fds - 1 /\ tasks' = Tail(tasks)
             /\ UNCHANGED <<connection_, closeCb, loopAt>>
    BY <1>4, <2>3, RunDestroyedInv, Zenon DEF runConnection
  <2>4. QED
    BY <1>4, <2>1, <2>2, <2>3, ZenonT(30) DEF runConnection
<1>5. ASSUME LoopStep, LapseStep PROVE BaseInv'
  BY Zenon, <1>3, <1>4, <1>5, PollInv, HandleErrorInv, HandleWriteInv, RetryTimerInv, NewConnectionInv, CloseEventInv,
     RemoveConnectionInv, DoPendingFunctorsInv, RemoveConnectorInv DEF LoopStep
<1>6. CASE ClientNext
  <2>1. LapseStep /\ (UserStep \/ LoopStep)
    BY <1>6, Zenon DEF ClientNext, LapseStep
  <2>2. BaseInv'
    BY <1>2, <1>5, <2>1, Zenon
  <2>3. Orderly' => Ordered'
    BY <2>1, UserOrder, LoopOrder, Zenon
  <2>4. QED
    BY <2>2, <2>3, Zenon DEF ClientInv
<1>7. QED
  BY <1>1, <1>6, Zenon

LEMMA ClientInvImplies == ASSUME NumberFacts, ClientInv PROVE OneAttemptOwned
<1>1. ClientTypes /\ Phased /\ KeepsTrying /\ SocketsOwned /\ (lapses = {} => Released)
  BY Zenon DEF ClientInv, BaseInv
<1>2. /\ \A f : Count(f) \in Nat /\ Count(f) = Number(tasks, f)
      /\ tasks = <<>> => \A f : Count(f) = 0
      /\ tasks # <<>> => Count(Head(tasks)) > 0
  BY <1>1, CountIs, Zenon DEF ClientTypes
<1>3. ASSUME Orderly PROVE Core /\ Ordered /\ Attempts <= 1 /\ Matched
  BY <1>3, Zenon DEF ClientInv, BaseInv, Core
<1>4. ASSUME Orderly, batch > 0, Head(tasks) = "startInLoop" PROVE channel_ = "none"
  <2>1. tasks # <<>>
    BY <1>1, <1>4, EmptySeq, LenProperties DEF Phased, ClientTypes, Polled
  <2>2. Count("startInLoop") > 0
    BY <1>2, <1>4, <2>1, Zenon
  <2>3. channel_ = "removed" => Count("resetChannel") = 0
    BY <1>1, <1>2, <1>3, <1>4, <2>1, BeforeHead, Zenon DEF Ordered, ClientTypes
  <2>4. channel_ # "removed"
    BY <1>3, <1>4, <2>3 DEF Matched, One
  <2>5. channel_ # "active"
    BY <1>1, <1>2, <1>3, <1>4, <2>2 DEF Attempts, One, ClientTypes
  <2>6. QED
    BY <1>1, <2>4, <2>5, ZenonT(30) DEF ClientTypes
<1>5. ASSUME Orderly, "timer" \in ready PROVE channel_ = "none"
  <2>1. timers > 0 /\ batch = Polled
    BY <1>1, <1>5, Zenon DEF Phased
  <2>2. Attempts > 0 /\ Count("startInLoop") = 0 /\ channel_ # "active"
    BY <1>1, <1>2, <1>3, <1>5, <2>1 DEF Attempts, One, ClientTypes
  <2>3. ~Soon("resetChannel")
    BY <1>1, <2>1, Batches, Zenon DEF Soon, ClientTypes
  <2>4. channel_ # "removed"
    BY <1>3, <1>5, <2>2, <2>3, Zenon DEF Core, Cleared
  <2>5. QED
    BY <1>1, <2>2, <2>4, ZenonT(30) DEF ClientTypes
<1>6. ASSUME Orderly, loopAt = "removeConnection" PROVE channel_ = "none"
  BY <1>3, <1>6, Zenon DEF Matched
<1>7. ASSUME lapses = {}, ~ConnectorHeld PROVE channel_ = "none" /\ Owed = 0
  BY <1>1, <1>7, Zenon DEF Released, ConnectorHeld
<1>8. QED
  BY <1>1, <1>3, <1>4, <1>5, <1>6, <1>7, Zenon DEF OneAttemptOwned, OneAttempt, Starts
-----------------------------------------------------------------------------
\* The numbers of functors are numbers of elements of finite sets.
INSTANCE FiniteSetTheorems
INSTANCE FunctionTheorems

LEMMA NumberCounts ==
    ASSUME NEW q \in Seq(Functors), NEW f
    PROVE  /\ Number(q, f) \in Nat
           /\ Number(q, f) > 0 <=> \E i \in DOMAIN q : q[i] = f
<1> DEFINE P == {i \in DOMAIN q : q[i] = f}
<1>1. IsFiniteSet(DOMAIN q)
  BY LenProperties, FS_Interval, SMTT(30)
<1>2. IsFiniteSet(P)
  BY <1>1, FS_Subset, ZenonT(30)
<1>3. Cardinality(P) \in Nat /\ (Cardinality(P) = 0 <=> P = {})
  BY <1>2, FS_CardinalityType, FS_EmptySet, ZenonT(30)
<1>4. QED
  BY <1>3, SMTT(30) DEF Number

LEMMA NumberOneMore ==
    ASSUME NEW q \in Seq(Functors), NEW x \in Functors, NEW f
    PROVE  Number(Append(q, x), f) = IF x = f THEN Number(q, f) + 1 ELSE Number(q, f)
<1> DEFINE P == {i \in DOMAIN q : q[i] = f}
           Q == {i \in DOMAIN Append(q, x) : Append(q, x)[i] = f}
<1>1. /\ Len(q) \in Nat /\ DOMAIN q = 1 .. Len(q) /\ DOMAIN Append(q, x) = 1 .. Len(q) + 1
      /\ Append(q, x)[Len(q) + 1] = x /\ \A i \in 1 .. Len(q) : Append(q, x)[i] = q[i]
  BY LenProperties, AppendProperties, SMTT(30)
<1>2. Q = IF x = f THEN P \cup {Len(q) + 1} ELSE P
  BY <1>1, SMTT(30)
<1>3. IsFiniteSet(P) /\ Len(q) + 1 \notin P
  <2>1. IsFiniteSet(1 .. Len(q))
    BY <1>1, FS_Interval, SMTT(30)
  <2>2. P \in SUBSET (1 .. Len(q))
    BY <1>1, Zenon
  <2>3. QED
    BY <1>1, <2>1, <2>2, FS_Subset, SMTT(30)
<1>4. Cardinality(P \cup {Len(q) + 1}) = Cardinality(P) + 1
  BY <1>3, FS_AddElement, ZenonT(30)
<1>5. QED
  BY <1>2, <1>4, ZenonT(30) DEF Number

LEMMA NumberOneLess ==
    ASSUME NEW q \in Seq(Functors), q # <<>>, NEW f
    PROVE  Number(q, f) = IF Head(q) = f THEN Number(Tail(q), f) + 1 ELSE Number(Tail(q), f)
<1> DEFINE P == {i \in DOMAIN q : q[i] = f}
           Q == {i \in DOMAIN Tail(q) : Tail(q)[i] = f}
           R == P \ {1}
           shift == [i \in Q |-> i + 1]
<1>1. /\ Len(q) \in Nat /\ Len(q) > 0 /\ DOMAIN q = 1 .. Len(q) /\ DOMAIN Tail(q) = 1 .. Len(q) - 1
      /\ Head(q) = q[1] /\ \A i \in 1 .. Len(q) - 1 : Tail(q)[i] = q[i + 1]
  BY LenProperties, HeadTailProperties, EmptySeq, SMTT(30)
<1>2. /\ IsFiniteSet(P) /\ IsFiniteSet(Q) /\ IsFiniteSet(R)
  <2>1. IsFiniteSet(1 .. Len(q))
    BY <1>1, FS_Interval, SMTT(30)
  <2>2. P \in SUBSET (1 .. Len(q)) /\ Q \in SUBSET (1 .. Len(q)) /\ R \in SUBSET (1 .. Len(q))
    BY <1>1
  <2>3. QED
    BY <2>1, <2>2, FS_Subset, ZenonT(30)
<1>3. shift \in Bijection(Q, R)
  <2>1. \A i \in Q : i \in 1 .. Len(q) - 1 /\ i + 1 \in R
    BY <1>1, SMTT(30)
  <2>2. \A j \in R : j - 1 \in Q /\ j = (j - 1) + 1
    BY <1>1, SMTT(30)
  <2>3. shift \in [Q -> R] /\ \A a, b \in Q : shift[a] = shift[b] => a = b
    BY <2>1
  <2>4. \A j \in R : \E i \in Q : shift[i] = j
    BY <2>2, Zenon
  <2>5. QED
    BY <2>3, <2>4, Fun_IsBij, ZenonT(30)
<1>4. Cardinality(Q) = Cardinality(R)
  BY <1>2, <1>3, FS_Bijection, ZenonT(30) DEF ExistsBijection
<1>5. P = IF Head(q) = f THEN R \cup {1} ELSE R
  BY <1>1
<1>6. Cardinality(R \cup {1}) = Cardinality(R) + 1
  BY <1>2, FS_AddElement, Zenon
<1>7. QED
  BY <1>4, <1>5, <1>6, ZenonT(30) DEF Number

LEMMA NumberFactsHold == NumberFacts
BY NumberCounts, NumberOneMore, NumberOneLess, SMTT(30) DEF NumberFacts

\* However the calls of the other thread fall between the steps of the loop,
\* the client and its Connector have at most one attempt, waiting, under way
\* or connected, and one as long as one is wanted; every socket belongs to
\* the channel or to the connection; the asserts on channel_ hold.
THEOREM OneAttemptOwnedTheorem == ClientSpec => []OneAttemptOwned
<1>1. ClientInit => ClientInv
  BY NumberFactsHold, ClientInitially, ZenonT(30)
<1>2. ClientInv /\ [ClientNext]_clientVars => ClientInv'
  BY NumberFactsHold, ClientStep, ZenonT(30)
<1>3. ClientInv => OneAttemptOwned
  BY NumberFactsHold, ClientInvImplies, Zenon
<1>4. QED
  BY <1>1, <1>2, <1>3, PTL DEF ClientSpec
=============================================================================
