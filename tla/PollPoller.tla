----------------------------- MODULE PollPoller -----------------------------
(***************************************************************************)
(* muduo::net::PollPoller: channels_ maps descriptors to channels, and     *)
(* pollfds_ is the array given to poll(2).  A channel knows its place in   *)
(* pollfds_ by index_; removal fills the hole with the last element.  A    *)
(* channel without events has the descriptor -fd-1, which poll(2) ignores. *)
(***************************************************************************)
EXTENDS Channel, Sequences

VARIABLES
    channels_,
    pollfds_,
    emptyFirst      \* history: channels whose only update so far had no events

vars == <<stage, fd, events_, index_, activeChannels_, toHandle,
          currentActiveChannel_, channels_, pollfds_, emptyFirst>>
pollVars == <<channels_, pollfds_, emptyFirst>>

PollFd == [fd : Int, events : SUBSET Events]
At(c) == index_[c] + 1      \* sequences start at 1

\* -fd-1, its own inverse
Ignored(f) == -f - 1
Decoded(f) == IF f < 0 THEN Ignored(f) ELSE f

Init == /\ InitChannel
        /\ channels_ = [f \in Fds |-> NoChannel]
        /\ pollfds_ = <<>> /\ emptyFirst = {}

\* updateChannel of a channel that has no place yet, and of one that has.
updateChannel(c, events) ==
    /\ update(c, events)
    /\ IF index_[c] < 0
       THEN /\ pollfds_' = Append(pollfds_, [fd |-> fd[c], events |-> events])
            /\ index_' = [index_ EXCEPT ![c] = Len(pollfds_)]
            /\ channels_' = [channels_ EXCEPT ![fd[c]] = c]
            /\ emptyFirst' = IF events = {} THEN emptyFirst \cup {c} ELSE emptyFirst
       ELSE /\ pollfds_' = [pollfds_ EXCEPT ![At(c)] =
                              [fd |-> IF events = {} THEN Ignored(fd[c]) ELSE fd[c],
                               events |-> events]]
            /\ emptyFirst' = emptyFirst \ {c}
            /\ UNCHANGED <<index_, channels_>>

\* A removal that forgets the index of the channel that moved.
moved_Forgotten(c) == index_

\* channels_[channelAtEnd]->set_index(idx)
moved(c) ==
    LET last == channels_[Decoded(pollfds_[Len(pollfds_)].fd)]
    IN  [index_ EXCEPT ![last] = index_[c]]

\* The asserts of removeChannel are properties below; a build with NDEBUG
\* goes on where one fails.
removeChannel(c) ==
    /\ remove(c)
    /\ channels_' = [channels_ EXCEPT ![fd[c]] = NoChannel]
    /\ emptyFirst' = emptyFirst \ {c}
    /\ LET n == Len(pollfds_)
       IN  IF At(c) = n
           THEN /\ pollfds_' = SubSeq(pollfds_, 1, n - 1)
                /\ UNCHANGED index_
           ELSE /\ pollfds_' = [i \in 1 .. n - 1 |->
                                  IF i = At(c) THEN pollfds_[n] ELSE pollfds_[i]]
                /\ index_' = moved(c)

\* poll(2) skips negative descriptors; an error or hangup needs no event.
poll ==
    /\ \E ready \in SUBSET {i \in DOMAIN pollfds_ : pollfds_[i].fd >= 0} :
          polled({channels_[pollfds_[i].fd] : i \in ready})
    /\ UNCHANGED pollVars

Owner(c) == \/ (\E f \in Fds : construct(c, f)) /\ UNCHANGED pollVars
            \/ destruct(c) /\ UNCHANGED pollVars
            \/ \E events \in SUBSET Events : updateChannel(c, events)
            \/ removeChannel(c)

Next == \/ poll
        \/ handleEvent /\ UNCHANGED pollVars
        \/ \E c \in Channels : Owner(c)

Spec == Init /\ [][Next]_vars
-----------------------------------------------------------------------------
\* Types of the variables.
TypeOK ==
    /\ stage \in [Channels -> {"none", "fresh", "added", "removed"}]
    /\ fd \in [Channels -> Fds \cup {NoFd}]
    /\ events_ \in [Channels -> SUBSET Events]
    /\ index_ \in [Channels -> Int]
    /\ activeChannels_ \subseteq Channels /\ toHandle \subseteq activeChannels_
    /\ currentActiveChannel_ \in Channels \cup {NoChannel}
    /\ channels_ \in [Fds -> Channels \cup {NoChannel}]
    /\ pollfds_ \in Seq(PollFd) /\ emptyFirst \subseteq Channels

(***************************************************************************)
(* Every place of pollfds_ belongs to one added channel that channels_     *)
(* finds under its descriptor and that knows the place, and every added    *)
(* channel has one: the asserts of fillActiveChannels (66, 69) and of      *)
(* updateChannel (82, 95-100), after any sequence of swaps.                *)
(***************************************************************************)
IndexesAgree ==
    /\ \A i \in DOMAIN pollfds_ :
          LET c == channels_[Decoded(pollfds_[i].fd)]
          IN  c \in Channels /\ stage[c] = "added" /\ At(c) = i
    /\ \A c \in Channels :
          /\ stage[c] = "added" =>
                /\ At(c) \in DOMAIN pollfds_ /\ channels_[fd[c]] = c
                /\ Decoded(pollfds_[At(c)].fd) = fd[c]
                /\ pollfds_[At(c)].events = events_[c]
          /\ stage[c] = "fresh" => index_[c] < 0 /\ channels_[fd[c]] = NoChannel

(***************************************************************************)
(* Every channel the loop still has to handle exists and is added, however *)
(* handlers remove and destroy channels (EventLoop.cc:122-126, 212-216).   *)
(***************************************************************************)
ActiveChannelsExist == \A c \in toHandle : stage[c] = "added"

(***************************************************************************)
(* poll(2) ignores the pollfd of a channel without events, descriptor 0    *)
(* included, except while the channel's only update is one without events; *)
(* then the pollfd is not ignored.  With IndexesAgree this says when the   *)
(* assert of removeChannel (PollPoller.cc:122) holds: it fails for exactly *)
(* those channels, which disableAll() and remove() in ~Acceptor of an      *)
(* Acceptor that never listened makes (Acceptor.cc:42-43).                 *)
(***************************************************************************)
RemovedIsIgnored ==
    \A c \in Channels : stage[c] = "added" /\ events_[c] = {} =>
        (pollfds_[At(c)].fd < 0 <=> c \notin emptyFirst)

\* pollfds_, channels_ and the channels agree, the loop handles only channels
\* that exist, and poll(2) ignores those without events unless they never had
\* one, after any sequence of updates and of removals that swap the last
\* pollfd into the hole.
PollSetAgrees == IndexesAgree /\ ActiveChannelsExist /\ RemovedIsIgnored
=============================================================================
