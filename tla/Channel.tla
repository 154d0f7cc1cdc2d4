------------------------------- MODULE Channel -------------------------------
(***************************************************************************)
(* muduo::net::Channel and the part of EventLoop that calls channels: what *)
(* a poller is used for.  PollPoller and EPollPoller extend this module.   *)
(*                                                                         *)
(* A Channel object is created for a descriptor ("fresh"), is known to the *)
(* poller from its first update() on ("added"), until remove()             *)
(* ("removed"), and is destroyed.  A descriptor can have a new Channel     *)
(* while a removed one still exists: Connector hands its socket to a       *)
(* TcpConnection before resetChannel() runs.                               *)
(***************************************************************************)
EXTENDS Integers, FiniteSets

CONSTANTS
    Channels,       \* addresses of Channel objects
    Fds,            \* file descriptors, which are natural numbers
    NoChannel       \* the null pointer

ASSUME ChannelAssumption == NoChannel \notin Channels /\ Fds \subseteq Nat

VARIABLES
    stage,              \* per Channel: "none", "fresh", "added", "removed"
    fd,                 \* per Channel: fd_, NoFd without an object
    events_,            \* per Channel: subset of Events
    index_,             \* per Channel: for the poller
    activeChannels_,    \* EventLoop: what poll() returned
    toHandle,           \* EventLoop: the part not handled yet
    currentActiveChannel_

channelVars == <<stage, fd, events_, index_>>
loopVars == <<activeChannels_, toHandle, currentActiveChannel_>>

Events == {"read", "write"}
NoFd == -1
Handling == currentActiveChannel_ # NoChannel

InitChannel ==
    /\ stage = [c \in Channels |-> "none"]
    /\ fd = [c \in Channels |-> NoFd]
    /\ events_ = [c \in Channels |-> {}]
    /\ index_ = [c \in Channels |-> -1]
    /\ activeChannels_ = {} /\ toHandle = {} /\ currentActiveChannel_ = NoChannel

\* User code runs: a handler, or a functor between two iterations.
InUserCode == toHandle # {} => Handling

\* Channel(loop, f)
construct(c, f) ==
    /\ InUserCode /\ stage[c] = "none"
    /\ \A d \in Channels : fd[d] = f => stage[d] = "removed"
    /\ stage' = [stage EXCEPT ![c] = "fresh"]
    /\ fd' = [fd EXCEPT ![c] = f]
    /\ events_' = [events_ EXCEPT ![c] = {}]
    /\ index_' = [index_ EXCEPT ![c] = -1]
    /\ UNCHANGED loopVars

\* ~Channel, which asserts that the channel is not being handled.
destruct(c) ==
    /\ InUserCode /\ stage[c] \in {"fresh", "removed"}
    /\ c # currentActiveChannel_
    /\ stage' = [stage EXCEPT ![c] = "none"]
    /\ fd' = [fd EXCEPT ![c] = NoFd]
    /\ events_' = [events_ EXCEPT ![c] = {}]
    /\ index_' = [index_ EXCEPT ![c] = -1]
    /\ UNCHANGED loopVars

\* enableReading, disableReading, enableWriting, disableWriting, disableAll
\* set events_ and call update(); ~Acceptor calls disableAll() on a channel
\* that may never have been updated before.
update(c, events) ==
    /\ InUserCode /\ stage[c] \in {"fresh", "added"}
    /\ \/ events = {}
       \/ \E e \in Events : events \in {events_[c] \cup {e}, events_[c] \ {e}}
    /\ stage' = [stage EXCEPT ![c] = "added"]
    /\ events_' = [events_ EXCEPT ![c] = events]
    /\ UNCHANGED fd /\ UNCHANGED loopVars

\* remove() after disableAll(), as EventLoop::removeChannel allows it: a
\* handler removes its own channel or one that is not active.
remove(c) ==
    /\ InUserCode /\ stage[c] = "added" /\ events_[c] = {}
    /\ Handling => c = currentActiveChannel_ \/ c \notin activeChannels_
    /\ stage' = [stage EXCEPT ![c] = "removed"]
    /\ UNCHANGED <<fd, events_>> /\ UNCHANGED loopVars

\* The poller has filled activeChannels_.
polled(active) ==
    /\ toHandle = {} /\ ~Handling
    /\ activeChannels_' = active /\ toHandle' = active
    /\ UNCHANGED currentActiveChannel_ /\ UNCHANGED channelVars

\* loop() calls handleEvent of the next channel; after the last one no
\* channel is current.
handleEvent ==
    /\ \/ \E c \in toHandle : /\ currentActiveChannel_' = c
                              /\ toHandle' = toHandle \ {c}
       \/ /\ toHandle = {} /\ Handling
          /\ currentActiveChannel_' = NoChannel /\ UNCHANGED toHandle
    /\ UNCHANGED activeChannels_ /\ UNCHANGED channelVars
=============================================================================
