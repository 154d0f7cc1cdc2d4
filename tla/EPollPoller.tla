----------------------------- MODULE EPollPoller -----------------------------
(***************************************************************************)
(* muduo::net::EPollPoller: the interest list is in the kernel, where an   *)
(* entry holds the events and a pointer to the Channel.  index_ says       *)
(* whether the kernel has an entry for the channel.                        *)
(***************************************************************************)
EXTENDS Channel

VARIABLES
    channels_,
    epoll           \* the kernel's entry of each descriptor, or NoEntry

vars == <<stage, fd, events_, index_, activeChannels_, toHandle,
          currentActiveChannel_, channels_, epoll>>

kNew == -1
kAdded == 1
kDeleted == 2
NoEntry == [ptr |-> NoChannel, events |-> {}]

Init == /\ InitChannel
        /\ channels_ = [f \in Fds |-> NoChannel]
        /\ epoll = [f \in Fds |-> NoEntry]

\* epoll_ctl with EPOLL_CTL_ADD or EPOLL_CTL_MOD, and with EPOLL_CTL_DEL.
ctl_set(c, events) == epoll' = [epoll EXCEPT ![fd[c]] = [ptr |-> c, events |-> events]]
ctl_del(c) == epoll' = [epoll EXCEPT ![fd[c]] = NoEntry]

updateChannel(c, events) ==
    /\ update(c, events)
    /\ IF index_[c] \in {kNew, kDeleted}
       THEN /\ channels_' = IF index_[c] = kNew THEN [channels_ EXCEPT ![fd[c]] = c]
                                               ELSE channels_
            /\ index_' = [index_ EXCEPT ![c] = kAdded]
            /\ ctl_set(c, events)
       ELSE /\ IF events = {}
               THEN ctl_del(c) /\ index_' = [index_ EXCEPT ![c] = kDeleted]
               ELSE ctl_set(c, events) /\ UNCHANGED index_
            /\ UNCHANGED channels_

\* A removal that leaves the entry of an added channel in the kernel.
removeChannel_NoDel(c) ==
    /\ remove(c)
    /\ channels_' = [channels_ EXCEPT ![fd[c]] = NoChannel]
    /\ index_' = [index_ EXCEPT ![c] = kNew]
    /\ UNCHANGED epoll

removeChannel(c) ==
    /\ remove(c)
    /\ channels_' = [channels_ EXCEPT ![fd[c]] = NoChannel]
    /\ IF index_[c] = kAdded THEN ctl_del(c) ELSE UNCHANGED epoll
    /\ index_' = [index_ EXCEPT ![c] = kNew]

\* epoll_wait reports entries; an error or hangup needs no event.
poll ==
    /\ \E ready \in SUBSET {f \in Fds : epoll[f] # NoEntry} :
          polled({epoll[f].ptr : f \in ready})
    /\ UNCHANGED <<channels_, epoll>>

Owner(c) == \/ (\E f \in Fds : construct(c, f)) /\ UNCHANGED <<channels_, epoll>>
            \/ destruct(c) /\ UNCHANGED <<channels_, epoll>>
            \/ \E events \in SUBSET Events : updateChannel(c, events)
            \/ removeChannel(c)

Next == \/ poll
        \/ handleEvent /\ UNCHANGED <<channels_, epoll>>
        \/ \E c \in Channels : Owner(c)

Spec == Init /\ [][Next]_vars
-----------------------------------------------------------------------------
(***************************************************************************)
(* The kernel has an entry for a descriptor exactly when some channel is   *)
(* marked kAdded, and the entry holds that channel, which exists, and its  *)
(* events: epoll_ctl never fails with EEXIST or ENOENT (a fatal error at   *)
(* EPollPoller.cc:189), and epoll_wait never returns a dead pointer.       *)
(***************************************************************************)
KernelAgrees ==
    /\ \A f \in Fds : epoll[f] # NoEntry =>
          LET c == epoll[f].ptr
          IN  stage[c] = "added" /\ fd[c] = f /\ index_[c] = kAdded
    /\ \A c \in Channels : stage[c] # "none" /\ index_[c] = kAdded =>
          epoll[fd[c]] = [ptr |-> c, events |-> events_[c]]

(***************************************************************************)
(* channels_ holds exactly the added channels (the asserts at 99, 119, 124,*)
(* 136 and 156); a channel with events is in the kernel's list.            *)
(***************************************************************************)
ChannelsAgree ==
    /\ \A f \in Fds : channels_[f] # NoChannel =>
          stage[channels_[f]] = "added" /\ fd[channels_[f]] = f
    /\ \A c \in Channels :
          /\ stage[c] = "added" => channels_[fd[c]] = c /\ index_[c] \in {kAdded, kDeleted}
          /\ stage[c] = "fresh" => channels_[fd[c]] = NoChannel /\ index_[c] = kNew
          /\ stage[c] = "added" /\ events_[c] # {} => index_[c] = kAdded

(***************************************************************************)
(* Every channel the loop still has to handle exists and is added, however *)
(* handlers remove and destroy channels (EventLoop.cc:122-126, 212-216).   *)
(***************************************************************************)
ActiveChannelsExist == \A c \in toHandle : stage[c] = "added"

\* The kernel's list, channels_, the marks of the channels and the channels
\* still to be handled agree after any sequence of updates and removals.
EpollAgrees == KernelAgrees /\ ChannelsAgree /\ ActiveChannelsExist
=============================================================================
