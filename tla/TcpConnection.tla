---------------------------- MODULE TcpConnection ----------------------------
(***************************************************************************)
(* muduo::net::TcpConnection with the parts of Channel, Buffer, Socket and *)
(* the epoll poller it drives.  The loop thread runs the functors of       *)
(* "tasks" in order (TaskQueue.tla) and the stages of Channel::handleEvent *)
(* for what the kernel reports; user code runs in its callbacks and in     *)
(* other threads and calls the public functions.  state_ is a plain        *)
(* variable: another thread's send() tests it and then queues a functor,   *)
(* its shutdown() and forceClose() test it and set it, in two steps.       *)
(***************************************************************************)
EXTENDS Integers, Sequences, FiniteSets

CONSTANTS
    Users,          \* threads other than the loop's that use the connection
    Loop,           \* the loop thread
    Size,           \* bytes of a message
    highWaterMark_,
    MaxCalls,       \* bound: calls of public functions
    MaxInput        \* bound: messages from the peer not yet read

ASSUME ConnAssumption == Loop \notin Users /\ Size \in Nat \ {0}

VARIABLES
    state_, reading_,
    events,         \* channel_: the interest set, a subset of {"in", "out"}
    registered,     \* channel_: the fd is in the kernel's interest list
    added,          \* channel_: addedToLoop_
    revents,        \* the stages of handleEventWithGuard still to run
    callback,       \* the user callback that is running, or "none"
    outputBuffer_,  \* bytes, each the message [by, n] it belongs to: the thread
                    \* that sent it and the number of the call
    tasks,          \* functors queued in the loop, [f, by, n]
    batch,          \* functors of this doPendingFunctors still to run;
                    \* Polled while the events of a poll are handled
    timers,         \* forceCloseWithDelay timers that have not fired
    wire,           \* bytes accepted by the kernel
    writeShut,      \* shutdown(SHUT_WR) was called
    peer,           \* "open", "fin", "reset", or "dead": reset and reported
    input,          \* messages from the peer not read yet
    userAt,         \* what each other thread is in the middle of
    userRef,        \* other threads that hold a TcpConnectionPtr
    owner           \* the TcpServer or TcpClient: "holds", "removing", "released"

VARIABLES
    calls,          \* history: number of calls of public functions that have
                    \* had their effect, or have queued it
    downs,          \* history: connectionCallback_ calls for a connection that ended
    lapses,         \* history: the ways below in which state_, the channel and
                    \* the owner have come apart
    bareThis        \* history: "orphaned" when a thread let go of its pointer
                    \* while a functor of its with a bare "this" was queued,
                    \* "dangling" when such a functor is run without an object

poller == <<events, registered, added>>
channelVars == <<poller, revents, callback>>
netVars == <<wire, writeShut, peer, input>>
userVars == <<userAt, userRef, owner, calls>>
connVars == <<state_, reading_, channelVars, outputBuffer_, tasks, batch, timers, netVars, userVars,
              downs, lapses, bareThis>>

Functor(f, t, n) == [f |-> f, by |-> t, n |-> n]
Message(t, n) == [by |-> t, n |-> n]
Polled == -1

\* The functors bound to shared_from_this(), or held by the owner's pointer;
\* the others are bound to "this".
Shared == {"established", "destroyed", "forceClose", "complete", "highWater"}

ConnInit ==
    /\ state_ = "kConnecting" /\ reading_ = TRUE
    /\ events = {} /\ registered = FALSE /\ added = FALSE /\ revents = {} /\ callback = "none"
    /\ outputBuffer_ = <<>> /\ timers = 0 /\ batch = 0
    /\ tasks = <<Functor("established", Loop, 0)>>
    /\ wire = <<>> /\ writeShut = FALSE /\ peer = "open" /\ input = 0
    /\ userAt = [u \in Users |-> "idle"] /\ userRef = Users /\ owner = "holds"
    /\ calls = 0 /\ downs = 0 /\ lapses = {} /\ bareThis = "safe"
-----------------------------------------------------------------------------
isWriting == "out" \in events
Open == state_ \in {"kConnected", "kDisconnecting"}

\* Channel::update through EPollPoller::updateChannel: a channel that is not
\* in the interest list is added, even with no events.
update(e) == /\ events' = e /\ added' = TRUE
             /\ registered' = (~registered \/ e # {})

\* The connection exists while something refers to it.
Alive == \/ owner \in {"holds", "removing"} \/ userRef # {} \/ callback # "none" \/ revents # {}
         \/ \E i \in DOMAIN tasks : tasks[i].f \in Shared
-----------------------------------------------------------------------------
\* sendInLoop of message m, functors q being left in the queue: write at
\* once if nothing waits, append the rest and ask for write events.
sends(m, q, direct) ==
    LET fault == direct /\ (writeShut \/ peer \in {"reset", "dead"})
        old == Len(outputBuffer_)
    IN IF state_ = "kDisconnected" \/ fault
       THEN tasks' = q /\ UNCHANGED <<outputBuffer_, wire, poller>>
       ELSE \E k \in IF direct THEN 0 .. Size ELSE {0} :
            /\ wire' = wire \o [i \in 1 .. k |-> m]
            /\ outputBuffer_' = outputBuffer_ \o [i \in 1 .. Size - k |-> m]
            /\ tasks' = q \o (IF k = Size THEN <<Functor("complete", Loop, 0)>>
                              ELSE IF old + Size - k >= highWaterMark_ /\ old < highWaterMark_
                              THEN <<Functor("highWater", Loop, old + Size - k)>> ELSE <<>>)
            /\ IF k < Size /\ ~isWriting THEN update(events \cup {"out"})
                                         ELSE UNCHANGED poller

sendInLoop_Overtakes(m, q) == sends(m, q, peer = "open")
sendInLoop(m, q) == sends(m, q, ~isWriting /\ outputBuffer_ = <<>>)

\* shutdownWrite is called whether or not output is waiting.
shutdownInLoop_Eager == writeShut' = TRUE

shutdownInLoop == writeShut' = (writeShut \/ ~isWriting)

\* disableAll, connectionCallback_ and, when that returns, closeCallback_;
\* reading_ is left as it is.
handleClose == /\ state_' = "kDisconnected"
               /\ update({})
               /\ downs' = downs + 1 /\ callback' = "closing"

startReadInLoop ==
    /\ IF reading_ /\ "in" \in events THEN UNCHANGED poller
                                      ELSE update(events \cup {"in"})
    /\ reading_' = TRUE

stopReadInLoop ==
    /\ IF reading_ \/ "in" \in events THEN update(events \ {"in"})
                                      ELSE UNCHANGED poller
    /\ reading_' = FALSE
-----------------------------------------------------------------------------
\* The public functions.  A call from a callback has its effect at once,
\* a call from another thread queues a functor.
CanCall(t) == /\ calls + Cardinality({u \in Users : userAt[u] # "idle"}) < MaxCalls
              /\ IF t = Loop THEN callback # "none" ELSE userAt[t] = "idle" /\ t \in userRef
Queued(t, f, n) == tasks' = Append(tasks, Functor(f, t, n))
Steady == UNCHANGED <<reading_, revents, callback, batch, timers, peer, input, userRef, owner, downs>>

\* send, shutdown, forceClose and forceCloseWithDelay test state_; another
\* thread may be overtaken between the test and what follows.
Allowed(f) == state_ = "kConnected" \/ (state_ = "kDisconnecting" /\ f \in {"forceClose", "withDelay"})
test(t, f) ==
    /\ t # Loop /\ CanCall(t) /\ Allowed(f)
    /\ userAt' = [userAt EXCEPT ![t] = f]
    /\ UNCHANGED <<calls, tasks, state_, outputBuffer_, poller, wire, writeShut>> /\ Steady

Tested(t, f) == IF t = Loop THEN CanCall(t) /\ Allowed(f) /\ UNCHANGED userAt
                            ELSE userAt[t] = f /\ userAt' = [userAt EXCEPT ![t] = "idle"]

send(t) ==
    /\ Tested(t, "send") /\ calls' = calls + 1
    /\ IF t = Loop THEN sendInLoop(Message(t, calls'), tasks)
       ELSE Queued(t, "send", calls') /\ UNCHANGED <<outputBuffer_, wire, poller>>
    /\ Steady /\ UNCHANGED <<state_, writeShut>>

startOrStopRead(t, f) ==
    /\ CanCall(t) /\ calls' = calls + 1
    /\ IF t # Loop THEN Queued(t, f, 0) /\ UNCHANGED <<reading_, poller>>
       ELSE /\ IF f = "startRead" THEN startReadInLoop ELSE stopReadInLoop
            /\ UNCHANGED tasks
    /\ UNCHANGED <<state_, revents, callback, outputBuffer_, batch, timers, netVars,
                   userAt, userRef, owner, downs>>

\* shutdown, forceClose and forceCloseWithDelay set state_, and the rest is
\* queued in the loop or left to a timer.
set(t, f) ==
    /\ Tested(t, f) /\ calls' = calls + 1
    /\ state_' = "kDisconnecting"
    /\ timers' = IF f = "withDelay" THEN timers + 1 ELSE timers
    /\ IF f = "forceClose" \/ (f = "shutdown" /\ t # Loop) THEN Queued(t, f, 0) ELSE UNCHANGED tasks
    /\ IF f = "shutdown" /\ t = Loop THEN shutdownInLoop ELSE UNCHANGED writeShut
    /\ UNCHANGED <<reading_, channelVars, outputBuffer_, batch, wire, peer, input, userRef, owner, downs>>

\* A user lets go of its pointer between two calls; what it has queued may
\* still wait.
dropRef(u) == /\ userAt[u] = "idle" /\ u \in userRef
              /\ userRef' = userRef \ {u}
              /\ bareThis' = IF \E i \in DOMAIN tasks : tasks[i].by = u /\ tasks[i].f \notin Shared
                             THEN "orphaned" ELSE bareThis
              /\ UNCHANGED <<state_, reading_, channelVars, outputBuffer_, tasks, batch, timers, netVars,
                             userAt, owner, calls, downs>>
-----------------------------------------------------------------------------
\* The loop thread: the next functor,
LoopIdle == callback = "none" /\ revents = {}
Next_(f) == LoopIdle /\ batch > 0 /\ Alive /\ Head(tasks).f = f /\ batch' = batch - 1
NotTheNet == UNCHANGED <<outputBuffer_, netVars>>
NotTheUsers == UNCHANGED <<timers, userVars, revents>>

connectEstablished ==
    /\ Next_("established") /\ tasks' = Tail(tasks)
    /\ state_' = "kConnected" /\ update({"in"})
    /\ callback' = "up"
    /\ NotTheNet /\ NotTheUsers /\ UNCHANGED <<reading_, downs>>

\* The channel is removed after connectionCallback_ has returned.
destroys(stays) ==
    /\ Next_("destroyed") /\ tasks' = Tail(tasks)
    /\ IF state_ = "kConnected"
       THEN /\ state_' = "kDisconnected" /\ update({})
            /\ downs' = downs + 1 /\ callback' = "destroying"
       ELSE /\ added' = (added /\ stays) /\ registered' = (registered /\ stays)
            /\ UNCHANGED <<state_, events, downs, callback>>
    /\ NotTheNet /\ NotTheUsers /\ UNCHANGED reading_

connectDestroyed_NoRemove == destroys(TRUE)
connectDestroyed == destroys(FALSE)

runSend == /\ Next_("send") /\ sendInLoop(Message(Head(tasks).by, Head(tasks).n), Tail(tasks))
           /\ UNCHANGED <<state_, reading_, callback, writeShut, peer, input, downs>>
           /\ NotTheUsers

runShutdown == /\ Next_("shutdown") /\ tasks' = Tail(tasks) /\ shutdownInLoop
               /\ UNCHANGED <<state_, reading_, poller, callback, outputBuffer_,
                              wire, peer, input, downs>>
               /\ NotTheUsers

closes(S) ==
    /\ Next_("forceClose") /\ tasks' = Tail(tasks)
    /\ IF state_ \in S THEN handleClose ELSE UNCHANGED <<state_, poller, downs, callback>>
    /\ NotTheNet /\ NotTheUsers /\ UNCHANGED reading_

forceCloseInLoop == closes({"kConnected", "kDisconnecting"})

runRead(f) == /\ Next_(f) /\ tasks' = Tail(tasks)
              /\ IF f = "startRead" THEN startReadInLoop ELSE stopReadInLoop
              /\ NotTheNet /\ NotTheUsers /\ UNCHANGED <<state_, callback, downs>>

\* a functor whose connection is gone, after which anything may happen,
dangles == /\ LoopIdle /\ batch > 0 /\ ~Alive /\ bareThis' = "dangling"
           /\ UNCHANGED <<state_, reading_, channelVars, outputBuffer_, tasks, batch, timers, netVars,
                          userVars, downs>>

\* writeCompleteCallback_ and highWaterMarkCallback_
runCallback(f) == /\ Next_(f) /\ tasks' = Tail(tasks) /\ callback' = f
                  /\ NotTheNet /\ NotTheUsers
                  /\ UNCHANGED <<state_, reading_, poller, downs>>

\* A user callback returns to handleClose, to connectDestroyed or to the loop.
callbackReturns ==
    /\ callback # "none" /\ callback' = "none"
    /\ owner' = IF callback = "closing" /\ owner = "holds" THEN "removing" ELSE owner
    /\ IF callback = "destroying" THEN added' = FALSE /\ registered' = FALSE
                                  ELSE UNCHANGED <<added, registered>>
    /\ NotTheNet
    /\ UNCHANGED <<state_, reading_, events, revents, tasks, batch, timers, userAt, userRef, calls, downs>>

\* the timer of forceCloseWithDelay, which holds a weak pointer,
timerFires ==
    /\ LoopIdle /\ batch = Polled /\ timers > 0 /\ timers' = timers - 1
    /\ IF Alive /\ Open THEN state_' = "kDisconnecting" /\ Queued(Loop, "forceClose", 0)
                        ELSE UNCHANGED <<state_, tasks>>
    /\ NotTheNet
    /\ UNCHANGED <<reading_, channelVars, batch, userVars, downs>>

\* and the events the kernel reports.  handleEventWithGuard runs the close
\* callback for a HUP without IN, then error, read and write.
stages == [close |-> 1, error |-> 2, read |-> 3, write |-> 4]

poll ==
    LET readable == "in" \in events /\ (input > 0 \/ peer # "open")
        hup == peer \in {"reset", "dead"} \/ (peer = "fin" /\ writeShut)
        reported(out) == {x \in DOMAIN stages : \/ x = "close" /\ hup /\ ~readable
                                                \/ x = "error" /\ peer = "reset"
                                                \/ x = "read" /\ readable
                                                \/ x = "write" /\ out}
    IN /\ LoopIdle /\ batch = 0 /\ batch' = Polled
       /\ \E out \in {isWriting, FALSE} : revents' = IF registered /\ Alive THEN reported(out) ELSE {}
       /\ revents' # {} \/ tasks # <<>> \/ timers > 0
       /\ NotTheNet
       /\ UNCHANGED <<state_, reading_, poller, callback, tasks, timers, userVars, downs>>

\* When the events are handled the functors queued so far are run.
doPendingFunctors == /\ LoopIdle /\ batch = Polled /\ batch' = Len(tasks)
                     /\ NotTheNet /\ NotTheUsers
                     /\ UNCHANGED <<state_, reading_, poller, callback, tasks, downs>>

Stage(x) == /\ callback = "none" /\ x \in revents /\ revents' = revents \ {x}
            /\ \A y \in revents : stages[x] <= stages[y]
            /\ UNCHANGED <<reading_, batch, timers, userVars>>

closeStage == Stage("close") /\ handleClose /\ UNCHANGED <<tasks, outputBuffer_, wire, writeShut, peer, input>>

\* handleError reads, and so clears, the pending error of the socket.
handleError == /\ Stage("error") /\ peer' = "dead"
               /\ UNCHANGED <<state_, poller, callback, tasks, outputBuffer_, wire, writeShut, input, downs>>

\* readv returns data, an error (reported once) or 0 for the end of input.
handleRead ==
    /\ Stage("read")
    /\ IF input > 0
       THEN input' = input - 1 /\ callback' = "message" /\ UNCHANGED <<state_, poller, downs, peer>>
       ELSE IF peer = "reset"
       THEN peer' = "dead" /\ UNCHANGED <<state_, poller, downs, callback, input>>
       ELSE handleClose /\ UNCHANGED <<peer, input>>
    /\ UNCHANGED <<tasks, outputBuffer_, wire, writeShut>>

\* write(2) takes some bytes, or fails and leaves everything as it was.
writes(finish, interest) ==
    /\ Stage("write")
    /\ \E k \in IF isWriting /\ peer \in {"open", "fin"} THEN 1 .. Len(outputBuffer_) ELSE {0} :
        LET drained == k > 0 /\ k = Len(outputBuffer_)
        IN /\ wire' = wire \o SubSeq(outputBuffer_, 1, k)
           /\ outputBuffer_' = SubSeq(outputBuffer_, k + 1, Len(outputBuffer_))
           /\ IF drained
              THEN /\ update(interest)
                   /\ Queued(Loop, "complete", 0)
                   /\ writeShut' = (writeShut \/ finish)
              ELSE UNCHANGED <<poller, tasks, writeShut>>
    /\ UNCHANGED <<state_, callback, peer, input, downs>>

handleWrite_NoShutdown == writes(FALSE, events \ {"out"})
handleWrite == writes(state_ = "kDisconnecting", events \ {"out"})
-----------------------------------------------------------------------------
\* closeCallback_ and the destructor of TcpServer: the owner lets go and
\* queues connectDestroyed, also while the connection is up.
ownerRemoves == /\ owner \in {"holds", "removing"} /\ owner' = "released"
                /\ Queued(Loop, "destroyed", 0)
                /\ UNCHANGED <<state_, reading_, channelVars, outputBuffer_, batch, timers, netVars,
                               userAt, userRef, calls, downs>>

\* The other end sends a message, ends its stream or resets the connection.
peerActs == /\ Alive
            /\ \/ peer = "open" /\ input < MaxInput /\ input' = input + 1 /\ UNCHANGED peer
               \/ peer = "open" /\ peer' = "fin" /\ UNCHANGED input
               \/ peer \in {"open", "fin"} /\ peer' = "reset" /\ UNCHANGED input
            /\ UNCHANGED <<state_, reading_, channelVars, outputBuffer_, tasks, batch, timers, wire, writeShut,
                           userVars, downs>>

\* Another thread's setState undoes a close; a closed connection's fd is in
\* the interest list again; connectDestroyed meets kDisconnecting, for which
\* it does not disable the channel.
Lapses == {"overwritten", "rearmed", "abandoned"}
Lapse(l) == \/ l = "overwritten" /\ state_ = "kDisconnected" /\ state_' = "kDisconnecting"
            \/ l = "rearmed" /\ state_' = "kDisconnected" /\ registered'
            \/ l = "abandoned" /\ added /\ ~added' /\ state_ = "kDisconnecting"

LoopStep == \/ connectEstablished \/ connectDestroyed \/ runSend \/ runShutdown \/ forceCloseInLoop
            \/ \E f \in {"startRead", "stopRead"} : runRead(f)
            \/ \E f \in {"complete", "highWater"} : runCallback(f)
            \/ callbackReturns \/ timerFires \/ doPendingFunctors
            \/ closeStage \/ handleError \/ handleRead \/ handleWrite

UserStep(t) == \/ send(t) \/ test(t, "send")
               \/ \E f \in {"startRead", "stopRead"} : startOrStopRead(t, f)
               \/ \E f \in {"shutdown", "forceClose", "withDelay"} : test(t, f) \/ set(t, f)

ConnNext == /\ bareThis # "dangling"
            /\ \/ /\ \/ LoopStep \/ poll \/ ownerRemoves \/ peerActs
                     \/ \E t \in Users \cup {Loop} : UserStep(t)
                  /\ UNCHANGED bareThis
               \/ dangles \/ \E u \in Users : dropRef(u)
            /\ lapses' = lapses \cup {l \in Lapses : Lapse(l)}

ConnSpec == ConnInit /\ [][ConnNext]_connVars

\* The loop runs; a socket that is asked for write events becomes writable
\* again and again, because the peer reads or the connection breaks.
ConnFairSpec == /\ ConnSpec
                /\ WF_connVars((LoopStep \/ poll) /\ ConnNext)
                /\ SF_connVars(poll /\ "write" \in revents' /\ ConnNext)
                /\ WF_connVars(owner = "removing" /\ ownerRemoves /\ ConnNext)
-----------------------------------------------------------------------------
Sent == wire \o outputBuffer_

\* What reaches the kernel and what waits in outputBuffer_ are whole
\* messages: each is Size bytes in a row and is there once, over partial
\* writes, refused writes and sends from several threads.
MessagesWhole == \A i \in 1 .. Len(Sent) : \E a \in 0 .. Len(Sent) - Size :
    \A j \in 1 .. Len(Sent) : Sent[j] = Sent[i] <=> j \in a + 1 .. a + Size

\* No message is overtaken by a later one of the same thread, nor one that
\* another thread queued by one that was queued after it.
NoneOvertaken == \A i, j \in 1 .. Len(Sent) :
    i < j /\ (Sent[i].by = Loop <=> Sent[j].by = Loop) => Sent[i].n <= Sent[j].n

\* While the connection is open the channel asks for write events exactly
\* when there is output to write: no stall, no busy loop.
WritesWhenNeeded == Open /\ lapses = {} => (isWriting <=> outputBuffer_ # <<>>)

\* A graceful close, by shutdown() or by the end of handleWrite, sends the
\* FIN only after everything in outputBuffer_.
FinAfterOutput == [][~writeShut /\ writeShut' /\ Open /\ lapses = {} => outputBuffer_' = <<>>]_connVars

\* connectionCallback_ reports the end of a connection at most once, and
\* handleClose's assert holds, as long as there was no lapse before.
DownOnce == [][lapses = {} => downs' <= 1]_connVars

\* When the last pointer goes, the asserts of ~TcpConnection and ~Channel
\* hold and the user has been told of the end once, if there was no lapse;
\* and a functor with a bare "this" is left only if the thread that queued it
\* let go of its pointer before the functor was run (the FIXMEs at
\* TcpConnection.cc:105, 127 and 201).
DestroyedClean ==
    ~Alive => /\ lapses = {} => state_ = "kDisconnected" /\ downs = 1 /\ ~added
              /\ tasks # <<>> => bareThis # "safe"

\* assert(isNoneEvent()) in Channel::remove: a connection is idle when it is
\* taken out of its loop.
RemovedIdle == [][added /\ ~added' => events = {}]_connVars

\* A connection that is being shut down gets its FIN out or is closed,
\* however shutdown(), the write events and other calls interleave.
ShutdownCompletes ==
    state_ = "kDisconnecting" /\ timers = 0 ~> writeShut \/ state_ = "kDisconnected" \/ lapses # {}

\* forceClose() closes an open connection and so lets its owner drop it.
ForceCloseCloses ==
    (\E i \in DOMAIN tasks : tasks[i].f = "forceClose") ~> state_ = "kDisconnected" \/ lapses # {}

\* The output is what was sent, and it moves: whole messages, each once and
\* in order, and write events asked for exactly while something waits.
OutputIntact == MessagesWhole /\ NoneOvertaken /\ WritesWhenNeeded

\* FIN comes last and the end is reported once (as long as there was no lapse).
ClosesInOrder == FinAfterOutput /\ DownOnce

\* A connection that is told to close, gracefully or by force, does.
ClosesInTheEnd == ShutdownCompletes /\ ForceCloseCloses
=============================================================================
