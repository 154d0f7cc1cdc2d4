---------------------------- MODULE QueueProofs -----------------------------
(***************************************************************************)
(* Proofs about Buffer, BlockingQueue and the start of a Thread, and about *)
(* what EPollPoller and the kernel know of the channels.  For any sizes,   *)
(* threads, channels and descriptors.                                      *)
(***************************************************************************)
EXTENDS EPollPoller, Buffer, BlockingQueue, Thread, TLAPS

(***************************************************************************)
(* The agreement of EPollPoller with the kernel, proved for any number of  *)
(* channels and descriptors.                                               *)
(***************************************************************************)
Typed ==
    /\ stage \in [Channels -> {"none", "fresh", "added", "removed"}]
    /\ fd \in [Channels -> Fds \cup {NoFd}]
    /\ events_ \in [Channels -> SUBSET Events]
    /\ index_ \in [Channels -> {kNew, kAdded, kDeleted}]
    /\ activeChannels_ \subseteq Channels /\ toHandle \subseteq activeChannels_
    /\ channels_ \in [Fds -> Channels \cup {NoChannel}]
    /\ epoll \in [Fds -> [ptr : Channels \cup {NoChannel}, events : SUBSET Events]]

\* A channel has a descriptor while it exists, and no two channels that are
\* not removed share one.
FdsDistinct ==
    /\ \A c \in Channels : fd[c] = NoFd <=> stage[c] = "none"
    /\ \A c, d \in Channels :
          /\ stage[c] \in {"fresh", "added"} /\ stage[d] \in {"fresh", "added"}
          /\ fd[c] = fd[d]
          => c = d

\* Entries hold channels, and a channel that is not with the poller is kNew.
Marked ==
    /\ \A f \in Fds : epoll[f] # NoEntry => epoll[f].ptr \in Channels
    /\ \A c \in Channels : stage[c] # "added" => index_[c] = kNew

CurrentTaken == currentActiveChannel_ \notin toHandle

IInv == Typed /\ FdsDistinct /\ Marked /\ CurrentTaken /\ EpollAgrees
-----------------------------------------------------------------------------
\* What the operations on queues return; SequenceTheorems has these facts and
\* many more, which would be in the context of every step below.
LEMMA LenProperties ==
    ASSUME NEW S, NEW z \in Seq(S)
    PROVE  Len(z) \in Nat /\ DOMAIN z = 1 .. Len(z) /\ z \in [1 .. Len(z) -> S]
    OBVIOUS

LEMMA HeadTailProperties ==
    ASSUME NEW S, NEW z \in Seq(S), z # <<>>
    PROVE  /\ Head(z) \in S /\ Tail(z) \in Seq(S) /\ Len(Tail(z)) = Len(z) - 1
           /\ \A i \in 1 .. Len(Tail(z)) : Tail(z)[i] = z[i + 1]
    OBVIOUS

LEMMA AppendProperties ==
    ASSUME NEW S, NEW z \in Seq(S), NEW x \in S
    PROVE  /\ Append(z, x) \in Seq(S) /\ Append(z, x) # <<>> /\ Len(Append(z, x)) = Len(z) + 1
           /\ Append(z, x)[Len(z) + 1] = x /\ \A i \in 1 .. Len(z) : Append(z, x)[i] = z[i]
    OBVIOUS

LEMMA ConcatProperties ==
    ASSUME NEW S, NEW s \in Seq(S), NEW t \in Seq(S)
    PROVE  /\ s \o t \in Seq(S) /\ Len(s \o t) = Len(s) + Len(t)
           /\ \A i \in 1 .. Len(s) + Len(t) : (s \o t)[i] = IF i <= Len(s) THEN s[i] ELSE t[i - Len(s)]
    OBVIOUS

LEMMA SeqEqual ==
    ASSUME NEW S, NEW s \in Seq(S), NEW t \in Seq(S), Len(s) = Len(t), \A i \in 1 .. Len(s) : s[i] = t[i]
    PROVE  s = t
    OBVIOUS

LEMMA ConcatEmptySeq ==
    ASSUME NEW S, NEW z \in Seq(S)
    PROVE  z \o <<>> = z /\ <<>> \o z = z
    OBVIOUS
-----------------------------------------------------------------------------
\* Initially nothing is registered.
LEMMA InitIInv == Init => IInv
BY ChannelAssumption DEF Init, InitChannel, IInv, Typed, FdsDistinct, Marked, CurrentTaken,
      EpollAgrees, KernelAgrees, ChannelsAgree, ActiveChannelsExist, NoEntry, NoFd, kNew, kAdded

\* A new Channel for a descriptor that no channel of the poller has.
LEMMA ConstructIInv ==
    ASSUME IInv, NEW c \in Channels, NEW f \in Fds, construct(c, f),
           UNCHANGED <<channels_, epoll>>
    PROVE  IInv'
<1> USE ChannelAssumption DEF construct, loopVars, kNew, kAdded, kDeleted
<1>1. Typed' /\ Marked' /\ CurrentTaken'
    BY Zenon DEF IInv, Typed, Marked, CurrentTaken
<1>2. FdsDistinct'
    BY ZenonT(30) DEF IInv, Typed, FdsDistinct, NoFd
<1>3. KernelAgrees'
    BY DEF IInv, Typed, FdsDistinct, Marked, EpollAgrees, KernelAgrees
<1>4. ChannelsAgree'
    BY DEF IInv, Typed, FdsDistinct, Marked, EpollAgrees, ChannelsAgree
<1>5. ActiveChannelsExist'
    BY Zenon DEF IInv, Typed, EpollAgrees, ActiveChannelsExist
<1> QED
    BY <1>1, <1>2, <1>3, <1>4, <1>5, Zenon DEF IInv, EpollAgrees

\* A Channel goes that was never added or is removed.
LEMMA DestructIInv ==
    ASSUME IInv, NEW c \in Channels, destruct(c), UNCHANGED <<channels_, epoll>>
    PROVE  IInv'
<1> USE ChannelAssumption DEF destruct, loopVars, kNew, kAdded, kDeleted
<1>1. Typed' /\ Marked' /\ CurrentTaken'
    BY Zenon DEF IInv, Typed, Marked, CurrentTaken
<1>2. FdsDistinct'
    BY Zenon DEF IInv, Typed, FdsDistinct, NoFd
<1>3. KernelAgrees'
    BY DEF IInv, Typed, FdsDistinct, Marked, EpollAgrees, KernelAgrees
<1>4. ChannelsAgree'
    BY DEF IInv, Typed, FdsDistinct, Marked, EpollAgrees, ChannelsAgree
<1>5. ActiveChannelsExist'
    BY Zenon DEF IInv, Typed, EpollAgrees, ActiveChannelsExist
<1> QED
    BY <1>1, <1>2, <1>3, <1>4, <1>5, Zenon DEF IInv, EpollAgrees

\* ADD, MOD or DEL, as the mark of the channel and its events ask for.
LEMMA UpdateIInv ==
    ASSUME IInv, NEW c \in Channels, NEW events \in SUBSET Events, updateChannel(c, events)
    PROVE  IInv'
<1> DEFINE f == fd[c]
           entry == [ptr |-> c, events |-> events]
<1>1. /\ f \in Fds /\ stage[c] \in {"fresh", "added"}
      /\ stage' = [stage EXCEPT ![c] = "added"] /\ events_' = [events_ EXCEPT ![c] = events]
      /\ UNCHANGED <<fd, activeChannels_, toHandle, currentActiveChannel_>>
    BY Zenon DEF IInv, Typed, FdsDistinct, updateChannel, update, loopVars
<1>2. channels_' = [channels_ EXCEPT ![f] = c]
    BY <1>1 DEF IInv, Typed, Marked, EpollAgrees, ChannelsAgree, updateChannel, kNew, kAdded, kDeleted
<1>3. \/ index_' = [index_ EXCEPT ![c] = kAdded] /\ epoll' = [epoll EXCEPT ![f] = entry]
      \/ /\ index_' = [index_ EXCEPT ![c] = kDeleted] /\ epoll' = [epoll EXCEPT ![f] = NoEntry]
         /\ events = {}
    <2>1. CASE index_[c] \in {kNew, kDeleted}
        BY <2>1, Zenon DEF updateChannel, ctl_set
    <2>2. CASE index_[c] = kAdded
        <3>1. CASE events = {}
            BY <2>2, <3>1 DEF updateChannel, ctl_del, kNew, kAdded, kDeleted
        <3>2. CASE events # {}
            <4>1. index_' = index_ /\ epoll' = [epoll EXCEPT ![f] = entry]
                BY <2>2, <3>2 DEF updateChannel, ctl_set, kNew, kAdded, kDeleted
            <4> QED
                BY <2>2, <4>1, Zenon DEF IInv, Typed
        <3> QED
            BY <3>1, <3>2, Zenon
    <2> QED
        BY <2>1, <2>2, Zenon DEF IInv, Typed
<1>4. \A d \in Channels : d # c /\ stage[d] \in {"fresh", "added"} => fd[d] # f
    BY <1>1, Zenon DEF IInv, FdsDistinct
<1>5. Typed' /\ CurrentTaken'
    <2>1. entry \in [ptr : Channels \cup {NoChannel}, events : SUBSET Events]
        BY Zenon
    <2>2. NoEntry \in [ptr : Channels \cup {NoChannel}, events : SUBSET Events]
        BY Zenon DEF NoEntry
    <2>3. epoll' \in [Fds -> [ptr : Channels \cup {NoChannel}, events : SUBSET Events]]
        <3> HIDE DEF entry
        <3> QED
            BY <1>3, <2>1, <2>2, ZenonT(30) DEF IInv, Typed
    <2>4. index_' \in [Channels -> {kNew, kAdded, kDeleted}]
        BY <1>3, Zenon DEF IInv, Typed
    <2> QED
        BY <1>1, <1>2, <2>3, <2>4, Zenon DEF IInv, Typed, CurrentTaken
<1>6. FdsDistinct'
    BY <1>1, Zenon DEF IInv, Typed, FdsDistinct, NoFd
<1>7. Marked' /\ KernelAgrees'
    <2>1. \A g \in Fds : g # f => epoll'[g] = epoll[g] /\ (epoll[g] # NoEntry => epoll[g].ptr # c)
        BY <1>1, <1>3, ZenonT(30) DEF IInv, Typed, EpollAgrees, KernelAgrees
    <2>2. \A d \in Channels : d # c => stage'[d] = stage[d] /\ index_'[d] = index_[d] /\ events_'[d] = events_[d]
        BY <1>1, <1>3, Zenon DEF IInv, Typed
    <2>3. stage'[c] = "added" /\ events_'[c] = events
        BY <1>1, Zenon DEF IInv, Typed
    <2>4. \/ index_'[c] = kAdded /\ epoll'[f] = entry
          \/ index_'[c] = kDeleted /\ epoll'[f] = NoEntry
        BY <1>1, <1>3, Zenon DEF IInv, Typed
    <2>5. Marked'
        BY <1>1, <2>1, <2>2, <2>3, <2>4 DEF IInv, Marked
    <2>6. ASSUME NEW g \in Fds, epoll'[g] # NoEntry
          PROVE  LET d == epoll'[g].ptr
                 IN  stage'[d] = "added" /\ fd[d] = g /\ index_'[d] = kAdded
        <3>1. CASE g = f
            BY <3>1, <2>3, <2>4, <2>6
        <3>2. CASE g # f
            BY <3>2, <2>1, <2>2, <2>6 DEF IInv, Marked, EpollAgrees, KernelAgrees
        <3> QED
            BY <3>1, <3>2, Zenon
    <2>7. ASSUME NEW d \in Channels, stage'[d] # "none", index_'[d] = kAdded
          PROVE  epoll'[fd[d]] = [ptr |-> d, events |-> events_'[d]]
        <3>1. CASE d = c
            BY <3>1, <2>3, <2>4, <2>7 DEF kAdded, kDeleted
        <3>2. CASE d # c
            <4>1. stage[d] = "added" /\ fd[d] \in Fds /\ fd[d] # f
                BY <3>2, <1>4, <2>2, <2>7 DEF IInv, Typed, FdsDistinct, Marked, kNew, kAdded
            <4> QED
                BY <3>2, <4>1, <2>1, <2>2, <2>7, ZenonT(30) DEF IInv, EpollAgrees, KernelAgrees
        <3> QED
            BY <3>1, <3>2, Zenon
    <2> QED
        BY <1>1, <2>5, <2>6, <2>7, Zenon DEF KernelAgrees
<1>8. ChannelsAgree'
    BY <1>1, <1>2, <1>3, <1>4, ChannelAssumption
       DEF IInv, Typed, FdsDistinct, EpollAgrees, ChannelsAgree, kNew, kAdded, kDeleted
<1>9. ActiveChannelsExist'
    BY <1>1, Zenon DEF IInv, Typed, EpollAgrees, ActiveChannelsExist
<1> QED
    BY <1>5, <1>6, <1>7, <1>8, <1>9, Zenon DEF IInv, EpollAgrees

\* A removal takes the entry out of the kernel if there is one.
LEMMA RemoveIInv ==
    ASSUME IInv, NEW c \in Channels, removeChannel(c)
    PROVE  IInv'
<1> DEFINE f == fd[c]
<1>1. /\ f \in Fds /\ stage[c] = "added"
      /\ stage' = [stage EXCEPT ![c] = "removed"] /\ index_' = [index_ EXCEPT ![c] = kNew]
      /\ UNCHANGED <<fd, events_, activeChannels_, toHandle, currentActiveChannel_>>
      /\ channels_' = [channels_ EXCEPT ![f] = NoChannel]
    BY Zenon DEF IInv, Typed, FdsDistinct, removeChannel, remove, loopVars
<1>2. \A d \in Channels : d # c /\ stage[d] \in {"fresh", "added"} => fd[d] # f
    BY <1>1, Zenon DEF IInv, FdsDistinct
<1>3. epoll' = [epoll EXCEPT ![f] = NoEntry]
    <2>1. CASE index_[c] = kAdded
        BY <2>1, Zenon DEF removeChannel, ctl_del
    <2>2. CASE index_[c] # kAdded
        <3>1. epoll[f] = NoEntry
            BY <1>1, <1>2, <2>2, Zenon DEF IInv, Marked, EpollAgrees, KernelAgrees
        <3> QED
            BY <1>1, <2>2, <3>1, Zenon DEF IInv, Typed, removeChannel
    <2> QED
        BY <2>1, <2>2, Zenon
<1>4. Typed' /\ CurrentTaken'
    BY <1>1, <1>3, ChannelAssumption, Zenon DEF IInv, Typed, CurrentTaken, NoEntry
<1>5. FdsDistinct'
    BY <1>1, Zenon DEF IInv, Typed, FdsDistinct, NoFd
<1>6. Marked' /\ KernelAgrees'
    <2>1. epoll'[f] = NoEntry /\ \A g \in Fds : g # f => epoll'[g] = epoll[g]
        BY <1>1, <1>3, Zenon DEF IInv, Typed
    <2>2. \A d \in Channels : d # c => stage'[d] = stage[d] /\ index_'[d] = index_[d]
        BY <1>1, Zenon DEF IInv, Typed
    <2>3. stage'[c] = "removed" /\ index_'[c] = kNew
        BY <1>1, Zenon DEF IInv, Typed
    <2>4. Marked'
        BY <1>1, <2>1, <2>2, <2>3, Zenon DEF IInv, Marked
    <2>5. ASSUME NEW g \in Fds, epoll'[g] # NoEntry
          PROVE  LET d == epoll'[g].ptr
                 IN  stage'[d] = "added" /\ fd[d] = g /\ index_'[d] = kAdded
        BY <2>1, <2>2, <2>5 DEF IInv, Marked, EpollAgrees, KernelAgrees
    <2>6. ASSUME NEW d \in Channels, stage'[d] # "none", index_'[d] = kAdded
          PROVE  epoll'[fd[d]] = [ptr |-> d, events |-> events_[d]]
        <3>1. d # c
            BY <2>3, <2>6 DEF kNew, kAdded
        <3>2. stage[d] = "added" /\ fd[d] \in Fds /\ fd[d] # f
            BY <3>1, <1>2, <2>2, <2>6 DEF IInv, Typed, FdsDistinct, Marked, kNew, kAdded
        <3> QED
            BY <3>1, <3>2, <2>1, <2>2, <2>6, ZenonT(30) DEF IInv, EpollAgrees, KernelAgrees
    <2> QED
        BY <1>1, <2>4, <2>5, <2>6, Zenon DEF KernelAgrees
<1>7. ChannelsAgree'
    BY <1>1, <1>2, ChannelAssumption
       DEF IInv, Typed, FdsDistinct, EpollAgrees, ChannelsAgree, kNew, kAdded, kDeleted
<1>8. ActiveChannelsExist'
    BY <1>1, ChannelAssumption
       DEF IInv, Typed, CurrentTaken, EpollAgrees, ActiveChannelsExist, removeChannel, remove, InUserCode, Handling
<1> QED
    BY <1>4, <1>5, <1>6, <1>7, <1>8, Zenon DEF IInv, EpollAgrees

\* epoll_wait returns channels of the kernel's list; the loop handles one.
LEMMA LoopIInv ==
    ASSUME IInv, poll \/ (handleEvent /\ UNCHANGED <<channels_, epoll>>)
    PROVE  IInv'
<1> USE ChannelAssumption
<1>1. UNCHANGED <<stage, fd, events_, index_, channels_, epoll>>
    BY ZenonT(30) DEF poll, polled, handleEvent, channelVars
<1>2. FdsDistinct' /\ Marked' /\ KernelAgrees' /\ ChannelsAgree'
    BY <1>1 DEF IInv, FdsDistinct, Marked, EpollAgrees, KernelAgrees, ChannelsAgree
<1>3. CASE poll
    <2>1. PICK ready \in SUBSET {f \in Fds : epoll[f] # NoEntry} :
              polled({epoll[f].ptr : f \in ready})
        BY <1>3, Zenon DEF poll
    <2>2. \A f \in ready : epoll[f].ptr \in Channels /\ stage[epoll[f].ptr] = "added"
        BY Zenon DEF IInv, Marked, EpollAgrees, KernelAgrees
    <2>3. Typed'
        BY <1>1, <2>1, <2>2 DEF IInv, Typed, polled
    <2>4. CurrentTaken' /\ ActiveChannelsExist'
        BY <1>1, <2>1, <2>2, Zenon DEF CurrentTaken, ActiveChannelsExist, polled, Handling
    <2> QED
        BY <1>2, <2>3, <2>4, Zenon DEF IInv, EpollAgrees
<1>4. CASE handleEvent /\ UNCHANGED <<channels_, epoll>>
    <2>1. Typed'
        BY <1>1, <1>4, Zenon DEF IInv, Typed, handleEvent
    <2>2. CurrentTaken' /\ ActiveChannelsExist'
        BY <1>1, <1>4, Zenon DEF IInv, Typed, CurrentTaken, EpollAgrees, ActiveChannelsExist, handleEvent
    <2> QED
        BY <1>2, <2>1, <2>2, Zenon DEF IInv, EpollAgrees
<1> QED
    BY <1>3, <1>4, Zenon

\* Every step preserves the invariant.
LEMMA NextIInv == IInv /\ [Next]_vars => IInv'
<1> SUFFICES ASSUME IInv, [Next]_vars PROVE IInv'
    BY Zenon
<1>1. ASSUME NEW c \in Channels, Owner(c) PROVE IInv'
    BY <1>1, ConstructIInv, DestructIInv, UpdateIInv, RemoveIInv, Zenon DEF Owner
<1>2. CASE UNCHANGED vars
    <2>1. Typed' /\ FdsDistinct' /\ CurrentTaken'
        BY <1>2, Zenon DEF vars, IInv, Typed, FdsDistinct, CurrentTaken
    <2>2. Marked' /\ KernelAgrees'
        BY <1>2, Zenon DEF vars, IInv, Marked, EpollAgrees, KernelAgrees
    <2>3. ChannelsAgree' /\ ActiveChannelsExist'
        BY <1>2, Zenon DEF vars, IInv, EpollAgrees, ChannelsAgree, ActiveChannelsExist
    <2> QED
        BY <2>1, <2>2, <2>3, Zenon DEF IInv, EpollAgrees
<1>3. CASE poll \/ (handleEvent /\ UNCHANGED <<channels_, epoll>>)
    BY <1>3, LoopIInv, Zenon
<1> QED
    BY <1>1, <1>2, <1>3, Zenon DEF Next

\* EPollPoller and the kernel agree for any number of channels: epoll_ctl
\* never adds twice or removes what is not there, and epoll_wait returns
\* channels that exist, whatever order the owners update and remove in.
THEOREM EpollAlwaysAgrees == Spec => []EpollAgrees
<1>1. IInv => EpollAgrees
    BY Zenon DEF IInv
<1> QED
    BY <1>1, InitIInv, NextIInv, PTL DEF Spec
-----------------------------------------------------------------------------
(***************************************************************************)
(* A Buffer is a queue of bytes, proved for any initial size, any size of  *)
(* the prepend area and any lengths read, written, prepended and reserved. *)
(***************************************************************************)
\* The vector b with indices r and w is in order and its readable bytes are c.
Holds(b, r, w, c) ==
    /\ b \in Seq(Byte) /\ c \in Seq(Byte) /\ r \in Nat /\ w \in Nat
    /\ r <= w /\ w <= Len(b) /\ kCheapPrepend <= Len(b)
    /\ Len(c) = w - r /\ \A i \in 1 .. Len(c) : c[i] = b[r + i]

BInv == Holds(buffer_, readerIndex_, writerIndex_, q)

\* Sequences with the same elements are equal.
LEMMA SameSeq ==
    ASSUME NEW S, NEW s \in Seq(S), NEW t \in Seq(S), Len(s) = Len(t),
           \A i \in 1 .. Len(s) : s[i] = t[i]
    PROVE  s = t
OBVIOUS

\* memcpy into the writable part adds to what is readable.
LEMMA CopyHolds ==
    ASSUME NEW b, NEW r, NEW w, NEW c, Holds(b, r, w, c),
           NEW d \in Seq(Byte), w + Len(d) <= Len(b)
    PROVE  Holds(copied(b, w, d), r, w + Len(d), c \o d)
<1> DEFINE n == copied(b, w, d)
<1>1. /\ b \in Seq(Byte) /\ c \in Seq(Byte) /\ r \in Nat /\ w \in Nat /\ Len(d) \in Nat /\ Len(b) \in Nat
      /\ r <= w /\ w <= Len(b) /\ kCheapPrepend <= Len(b)
      /\ Len(c) = w - r /\ \A i \in 1 .. Len(c) : c[i] = b[r + i]
    BY DEF Holds
<1>2. \A i \in 1 .. Len(b) : n[i] = IF i \in w + 1 .. w + Len(d) THEN d[i - w] ELSE b[i]
    BY Zenon DEF copied
<1>3. n \in Seq(Byte) /\ Len(n) = Len(b)
    <2>1. \A i \in 1 .. Len(b) : (IF i \in w + 1 .. w + Len(d) THEN d[i - w] ELSE b[i]) \in Byte
        BY <1>1, SMTT(30)
    <2> QED
        BY <1>1, <2>1 DEF copied
<1>4. /\ c \o d \in Seq(Byte) /\ Len(c \o d) = Len(c) + Len(d)
      /\ \A i \in 1 .. Len(c) + Len(d) : (c \o d)[i] = IF i <= Len(c) THEN c[i] ELSE d[i - Len(c)]
    <2>1. c \in Seq(Byte)
        BY <1>1, Zenon
    <2> QED
        BY <2>1, ConcatProperties, Zenon
<1>5. \A i \in 1 .. Len(c \o d) : (c \o d)[i] = n[r + i]
    <2> SUFFICES ASSUME NEW i \in 1 .. Len(c) + Len(d) PROVE (c \o d)[i] = n[r + i]
        BY <1>4, Zenon
    <2>1. r + i \in 1 .. Len(b) /\ (i <= Len(c) <=> r + i <= w) /\ i - Len(c) = r + i - w
        BY <1>1
    <2>2. CASE i <= Len(c)
        BY <1>1, <1>2, <1>4, <2>1, <2>2
    <2>3. CASE i > Len(c)
        BY <1>1, <1>2, <1>4, <2>1, <2>3
    <2> QED
        BY <1>1, <2>2, <2>3
<1> HIDE DEF n
<1>6. Holds(n, r, w + Len(d), c \o d)
    <2>1. /\ w + Len(d) \in Nat /\ r <= w + Len(d) /\ w + Len(d) <= Len(n) /\ kCheapPrepend <= Len(n)
          /\ Len(c \o d) = w + Len(d) - r
        BY <1>1, <1>3, <1>4
    <2> QED
        BY <1>1, <1>3, <1>4, <1>5, <2>1, SMTT(30) DEF Holds
<1> QED
    BY <1>6, Zenon DEF n

\* makeSpace keeps the readable bytes and makes room for len more, whether
\* it grows the vector, moves the bytes or does nothing.
LEMMA MakeSpaceHolds ==
    ASSUME NEW b, NEW r, NEW w, NEW c, Holds(b, r, w, c), NEW len \in Nat
    PROVE  LET s == makeSpace(b, r, w, len)
           IN  Holds(s[1], s[2], s[3], c) /\ s[3] + len <= Len(s[1])
<1> DEFINE s == makeSpace(b, r, w, len)
<1>1. /\ b \in Seq(Byte) /\ c \in Seq(Byte) /\ r \in Nat /\ w \in Nat /\ Len(b) \in Nat
      /\ r <= w /\ w <= Len(b) /\ kCheapPrepend <= Len(b)
      /\ Len(c) = w - r /\ \A i \in 1 .. Len(c) : c[i] = b[r + i]
    BY DEF Holds
<1>2. CASE Len(b) - w >= len
    <2>1. s = <<b, r, w>>
        BY <1>2, Zenon DEF makeSpace
    <2> QED
        BY <1>1, <1>2, <2>1
<1>3. CASE Len(b) - w < len /\ mustGrow(b, r, w, len)
    <2> DEFINE g == grown(b, w + len)
    <2>1. s = <<g, r, w>>
        BY <1>1, <1>3 DEF makeSpace
    <2>2. g \in Seq(Byte) /\ Len(g) = w + len /\ \A i \in 1 .. Len(b) : g[i] = b[i]
        <3>1. \A i \in 1 .. w + len : (IF i <= Len(b) THEN b[i] ELSE 0) \in Byte
            BY <1>1, BufferAssumption
        <3> QED
            BY <1>1, <1>3, <3>1 DEF grown
    <2> HIDE DEF g
    <2>3. Holds(g, r, w, c)
        <3>1. w <= Len(g) /\ kCheapPrepend <= Len(g)
            BY <1>1, <1>3, <2>2, BufferAssumption, SMTT(30)
        <3>2. \A i \in 1 .. Len(c) : c[i] = g[r + i]
            <4> TAKE i \in 1 .. Len(c)
            <4>1. r + i \in 1 .. Len(b)
                BY <1>1
            <4> QED
                BY <1>1, <2>2, <4>1, Zenon
        <3> QED
            BY <1>1, <2>2, <3>1, <3>2, Zenon DEF Holds
    <2> QED
        BY <2>1, <2>2, <2>3, <1>1
<1>4. CASE Len(b) - w < len /\ ~mustGrow(b, r, w, len)
    <2> DEFINE g == slid(b, r, w)
               v == kCheapPrepend + w - r
    <2>1. s = <<g, kCheapPrepend, v>>
        BY <1>1, <1>4 DEF makeSpace
    <2>2. v + len <= Len(b) /\ v \in Nat /\ kCheapPrepend <= v
        BY <1>1, <1>4, BufferAssumption DEF mustGrow
    <2>3. /\ g \in Seq(Byte) /\ Len(g) = Len(b)
          /\ \A i \in kCheapPrepend + 1 .. v : g[i] = b[i - kCheapPrepend + r]
        <3>1. \A i \in 1 .. Len(b) :
                 (IF i \in kCheapPrepend + 1 .. kCheapPrepend + w - r
                  THEN b[i - kCheapPrepend + r] ELSE b[i]) \in Byte
            BY <1>1, BufferAssumption, SMTT(30)
        <3> QED
            BY <1>1, <2>2, <3>1, BufferAssumption DEF slid
    <2> HIDE DEF g
    <2>4. \A i \in 1 .. Len(c) : c[i] = g[kCheapPrepend + i]
        <3> TAKE i \in 1 .. Len(c)
        <3>1. PICK j \in kCheapPrepend + 1 .. v : j = kCheapPrepend + i
            BY <1>1, BufferAssumption
        <3>2. g[j] = b[j - kCheapPrepend + r]
            BY <2>3, Zenon
        <3>3. j - kCheapPrepend + r = r + i
            BY <1>1, <3>1, BufferAssumption
        <3> QED
            BY <1>1, <3>1, <3>2, <3>3, Zenon
    <2>5. Holds(g, kCheapPrepend, v, c)
        BY <1>1, <2>2, <2>3, <2>4, BufferAssumption DEF Holds
    <2> QED
        BY <2>1, <2>2, <2>3, <2>5
<1> QED
    BY <1>1, <1>2, <1>3, <1>4

\* append adds the bytes behind what is readable.
LEMMA AppendHolds ==
    ASSUME NEW b, NEW r, NEW w, NEW c, Holds(b, r, w, c), NEW d \in Seq(Byte)
    PROVE  LET s == Appended(b, r, w, d) IN Holds(s[1], s[2], s[3], c \o d)
<1> DEFINE s == makeSpace(b, r, w, Len(d))
<1>1. Len(d) \in Nat
    OBVIOUS
<1>2. Holds(s[1], s[2], s[3], c) /\ s[3] + Len(d) <= Len(s[1])
    BY <1>1, MakeSpaceHolds, Zenon
<1> HIDE DEF s
<1>3. Holds(copied(s[1], s[3], d), s[2], s[3] + Len(d), c \o d)
    BY <1>2, CopyHolds, Zenon
<1> QED
    BY <1>3, Zenon DEF Appended, s

\* The parts of a sequence cut at n make it up.
LEMMA CutSeq ==
    ASSUME NEW S, NEW d \in Seq(S), NEW n \in Nat, n <= Len(d)
    PROVE  /\ SubSeq(d, 1, n) \in Seq(S) /\ Len(SubSeq(d, 1, n)) = n
           /\ SubSeq(d, n + 1, Len(d)) \in Seq(S) /\ Len(SubSeq(d, n + 1, Len(d))) = Len(d) - n
           /\ SubSeq(d, 1, n) \o SubSeq(d, n + 1, Len(d)) = d
<1> DEFINE a == SubSeq(d, 1, n)
           b == SubSeq(d, n + 1, Len(d))
<1>1. a \in Seq(S) /\ Len(a) = n /\ \A i \in 1 .. n : a[i] = d[i]
    OBVIOUS
<1>2. b \in Seq(S) /\ Len(b) = Len(d) - n /\ \A i \in 1 .. Len(d) - n : b[i] = d[n + i]
    OBVIOUS
<1> HIDE DEF a, b
<1>3. PICK e : e = a \o b
    BY Zenon
<1>4. /\ e \in Seq(S) /\ Len(e) = n + (Len(d) - n)
      /\ \A i \in 1 .. n + (Len(d) - n) : e[i] = IF i <= n THEN a[i] ELSE b[i - n]
    <2>1. /\ e \in Seq(S) /\ Len(e) = Len(a) + Len(b)
          /\ \A i \in 1 .. Len(a) + Len(b) : e[i] = IF i <= Len(a) THEN a[i] ELSE b[i - Len(a)]
        BY <1>1, <1>2, <1>3, ConcatProperties, ZenonT(30)
    <2> QED
        BY <1>1, <1>2, <2>1, Zenon
<1>5. \A i \in 1 .. Len(d) : e[i] = d[i]
    <2> SUFFICES ASSUME NEW i \in 1 .. Len(d) PROVE e[i] = d[i]
        BY Zenon
    <2>1. Len(d) \in Nat /\ i \in Nat
        OBVIOUS
    <2>2. CASE i <= n
        <3>1. i \in 1 .. n + (Len(d) - n) /\ i \in 1 .. n
            BY ONLY <2>1, <2>2, n \in Nat, i \in 1 .. Len(d)
        <3> QED
            BY <1>1, <1>4, <2>2, <3>1, Zenon
    <2>3. CASE ~(i <= n)
        <3>1. PICK j \in 1 .. Len(d) - n : i - n = j /\ n + j = i
            BY ONLY <2>1, <2>3, n \in Nat, i \in 1 .. Len(d)
        <3>2. i \in 1 .. n + (Len(d) - n)
            BY ONLY <2>1, n \in Nat, i \in 1 .. Len(d)
        <3> QED
            BY <1>2, <1>4, <2>3, <3>1, <3>2, Zenon
    <2> QED
        BY <2>2, <2>3, Zenon
<1>6. e = d
    BY <1>4, <1>5, SeqEqual
<1> QED
    BY <1>1, <1>2, <1>3, <1>6, Zenon DEF a, b

\* Concatenation under a name of its own, so that the provers do not expand
\* nested ones.
Cat(x, y) == x \o y

\* Concatenation is associative.
LEMMA CatTwice ==
    ASSUME NEW S, NEW x \in Seq(S), NEW y \in Seq(S), NEW z \in Seq(S)
    PROVE  Cat(Cat(x, y), z) = Cat(x, Cat(y, z))
    BY SMTT(30) DEF Cat

\* Both ends of readv: what fits is copied, the rest appended from extrabuf.
LEMMA ReadHolds ==
    ASSUME NEW b, NEW r, NEW w, NEW c, Holds(b, r, w, c),
           NEW d \in Seq(Byte), NEW n, n = Len(b) - w, Len(d) > n
    PROVE  LET s == Appended(copied(b, w, SubSeq(d, 1, n)), r, Len(b), SubSeq(d, n + 1, Len(d)))
           IN  Holds(s[1], s[2], s[3], c \o d)
<1>1. /\ b \in Seq(Byte) /\ c \in Seq(Byte) /\ w \in Nat /\ Len(b) \in Nat /\ Len(d) \in Nat
      /\ n \in Nat /\ n <= Len(d) /\ w + n = Len(b)
    BY DEF Holds
<1>2. PICK h, t : h = SubSeq(d, 1, n) /\ t = SubSeq(d, n + 1, Len(d))
    BY Zenon
<1>3. h \in Seq(Byte) /\ Len(h) = n /\ t \in Seq(Byte) /\ h \o t = d
    BY <1>1, <1>2, CutSeq, Zenon
<1>4. Holds(copied(b, w, h), r, w + Len(h), c \o h)
    <2>1. w + Len(h) <= Len(b)
        BY <1>1, <1>3
    <2> QED
        BY <1>3, <2>1, CopyHolds, Zenon
<1>5. Holds(copied(b, w, h), r, Len(b), c \o h)
    BY <1>1, <1>3, <1>4, Zenon
<1>6. PICK u : u = c \o h
    BY Zenon
<1>7. LET s == Appended(copied(b, w, h), r, Len(b), t)
      IN  Holds(s[1], s[2], s[3], u \o t)
    <2>1. Holds(copied(b, w, h), r, Len(b), u)
        BY <1>5, <1>6, Zenon
    <2> QED
        BY <1>3, <2>1, AppendHolds, Zenon
<1>8. u \o t = c \o d
    <2>1. d = Cat(h, t) /\ u = Cat(c, h)
        BY <1>3, <1>6, Zenon DEF Cat
    <2>2. c \in Seq(Byte) /\ h \in Seq(Byte) /\ t \in Seq(Byte)
        BY <1>1, <1>3, Zenon
    <2>3. Cat(u, t) = Cat(c, d)
        BY <2>1, <2>2, CatTwice
    <2> QED
        BY <2>3, Zenon DEF Cat
<1> QED
    BY <1>2, <1>7, <1>8, Zenon

\* retrieve drops bytes at the front, or all of them.
LEMMA RetrieveHolds ==
    ASSUME NEW b, NEW r, NEW w, NEW c, Holds(b, r, w, c), NEW n \in Nat, n <= w - r
    PROVE  /\ Holds(b, r + n, w, SubSeq(c, n + 1, Len(c)))
           /\ n = w - r => Holds(b, kCheapPrepend, kCheapPrepend, SubSeq(c, n + 1, Len(c)))
<1>1. /\ b \in Seq(Byte) /\ c \in Seq(Byte) /\ r \in Nat /\ w \in Nat /\ Len(b) \in Nat
      /\ r <= w /\ w <= Len(b) /\ kCheapPrepend <= Len(b)
      /\ Len(c) = w - r /\ \A i \in 1 .. Len(c) : c[i] = b[r + i]
    BY DEF Holds
<1>2. PICK e : e = SubSeq(c, n + 1, Len(c))
    BY Zenon
<1>3. /\ e \in Seq(Byte) /\ Len(e) = Len(c) - n
      /\ \A i \in 1 .. Len(c) - n : e[i] = c[n + i]
    BY <1>1, <1>2, SMTT(30)
<1>4. Holds(b, r + n, w, e)
    <2>1. r + n \in Nat /\ r + n <= w /\ Len(e) = w - (r + n)
        BY <1>1, <1>3
    <2>2. \A i \in 1 .. Len(e) : e[i] = b[(r + n) + i]
        <3> TAKE i \in 1 .. Len(e)
        <3>1. PICK j \in 1 .. Len(c) : j = n + i
            BY <1>1, <1>3, SMTT(30)
        <3>2. e[i] = c[j]
            BY <1>1, <1>3, <3>1, Zenon
        <3>3. c[j] = b[r + j]
            BY <1>1, Zenon
        <3>4. r + j = (r + n) + i
            BY <1>1, <1>3, <3>1
        <3> QED
            BY <3>2, <3>3, <3>4, Zenon
    <2> QED
        BY <1>1, <1>3, <2>1, <2>2, Zenon DEF Holds
<1>5. ASSUME n = w - r PROVE Holds(b, kCheapPrepend, kCheapPrepend, e)
    <2>1. Len(e) = 0 /\ kCheapPrepend \in Nat /\ Len(e) = kCheapPrepend - kCheapPrepend
        BY <1>1, <1>3, <1>5, BufferAssumption
    <2> QED
        BY <1>1, <1>3, <2>1 DEF Holds
<1> QED
    BY <1>2, <1>4, <1>5, Zenon

\* unwrite drops bytes at the back.
LEMMA UnwriteHolds ==
    ASSUME NEW b, NEW r, NEW w, NEW c, Holds(b, r, w, c), NEW n \in Nat, n <= w - r
    PROVE  Holds(b, r, w - n, SubSeq(c, 1, Len(c) - n))
<1>1. /\ b \in Seq(Byte) /\ c \in Seq(Byte) /\ r \in Nat /\ w \in Nat /\ Len(b) \in Nat
      /\ r <= w /\ w <= Len(b) /\ kCheapPrepend <= Len(b)
      /\ Len(c) = w - r /\ \A i \in 1 .. Len(c) : c[i] = b[r + i]
    BY DEF Holds
<1>2. PICK e : e = SubSeq(c, 1, Len(c) - n)
    BY Zenon
<1>3. /\ e \in Seq(Byte) /\ Len(e) = Len(c) - n /\ \A i \in 1 .. Len(c) - n : e[i] = c[i]
    BY <1>1, <1>2, SMTT(30)
<1>4. /\ w - n \in Nat /\ r <= w - n /\ w - n <= Len(b) /\ Len(e) = (w - n) - r
      /\ \A i \in 1 .. Len(e) : e[i] = b[r + i]
    BY <1>1, <1>3, SMTT(30)
<1> QED
    BY <1>1, <1>2, <1>3, <1>4, Zenon DEF Holds

\* prepend puts the bytes in front of what is readable.
LEMMA PrependHolds ==
    ASSUME NEW b, NEW r, NEW w, NEW c, Holds(b, r, w, c), NEW d \in Seq(Byte), Len(d) <= r
    PROVE  Holds(copied(b, r - Len(d), d), r - Len(d), w, d \o c)
<1> DEFINE n == copied(b, r - Len(d), d)
<1>1. /\ b \in Seq(Byte) /\ c \in Seq(Byte) /\ r \in Nat /\ w \in Nat /\ Len(d) \in Nat /\ Len(b) \in Nat
      /\ r <= w /\ w <= Len(b) /\ kCheapPrepend <= Len(b)
      /\ Len(c) = w - r /\ \A i \in 1 .. Len(c) : c[i] = b[r + i]
    BY DEF Holds
<1>2. PICK p \in Nat : p = r - Len(d)
    BY <1>1
<1>3. \A i \in 1 .. Len(b) : n[i] = IF i \in p + 1 .. p + Len(d) THEN d[i - p] ELSE b[i]
    BY <1>2, Zenon DEF copied
<1>4. n \in Seq(Byte) /\ Len(n) = Len(b)
    <2>1. \A i \in 1 .. Len(b) : (IF i \in p + 1 .. p + Len(d) THEN d[i - p] ELSE b[i]) \in Byte
        BY <1>1
    <2> QED
        BY <1>1, <1>2, <2>1 DEF copied
<1> HIDE DEF n
<1>5. /\ d \o c \in Seq(Byte) /\ Len(d \o c) = Len(d) + Len(c)
      /\ \A i \in 1 .. Len(d) + Len(c) : (d \o c)[i] = IF i <= Len(d) THEN d[i] ELSE c[i - Len(d)]
    BY <1>1, ConcatProperties, Zenon
<1>6. \A i \in 1 .. Len(d \o c) : (d \o c)[i] = n[p + i]
    <2> SUFFICES ASSUME NEW i \in 1 .. Len(d) + Len(c) PROVE (d \o c)[i] = n[p + i]
        BY <1>5, Zenon
    <2>1. PICK j \in 1 .. Len(b) : j = p + i
        <3>1. p + i \in 1 .. Len(b)
            BY <1>1, <1>2, SMTT(30)
        <3> QED
            BY <3>1, Zenon
    <2>2. CASE i <= Len(d)
        <3>1. j \in p + 1 .. p + Len(d) /\ j - p = i
            BY <1>1, <1>2, <2>1, <2>2
        <3> QED
            BY <1>3, <1>5, <2>1, <2>2, <3>1, ZenonT(30)
    <2>3. CASE i > Len(d)
        <3>1. j \notin p + 1 .. p + Len(d) /\ ~(i <= Len(d))
            BY <1>1, <1>2, <2>1, <2>3
        <3>2. PICK k \in 1 .. Len(c) : k = i - Len(d)
            <4>1. i - Len(d) \in 1 .. Len(c)
                BY <1>1, <2>3, SMTT(30)
            <4> QED
                BY <4>1, Zenon
        <3>3. r + k = j
            BY <1>1, <1>2, <2>1, <3>2
        <3> QED
            BY <1>1, <1>3, <1>5, <2>1, <3>1, <3>2, <3>3, Zenon
    <2>4. i <= Len(d) \/ i > Len(d)
        BY <1>1
    <2> QED
        BY <2>2, <2>3, <2>4, Zenon
<1>7. p <= w /\ Len(d \o c) = w - p /\ w <= Len(n) /\ kCheapPrepend <= Len(n)
    BY <1>1, <1>2, <1>4, <1>5
<1>8. Holds(n, p, w, d \o c)
    BY <1>1, <1>4, <1>5, <1>6, <1>7, Zenon DEF Holds
<1> QED
    BY <1>2, <1>8, Zenon DEF n

\* The readable bytes are the sequence c.
LEMMA HoldsRead ==
    ASSUME NEW b, NEW r, NEW w, NEW c, Holds(b, r, w, c)
    PROVE  [i \in 1 .. w - r |-> b[r + i]] = c
<1> DEFINE f == [i \in 1 .. w - r |-> b[r + i]]
<1>1. /\ b \in Seq(Byte) /\ c \in Seq(Byte) /\ r \in Nat /\ w \in Nat /\ Len(b) \in Nat
      /\ r <= w /\ w <= Len(b)
      /\ Len(c) = w - r /\ \A i \in 1 .. Len(c) : c[i] = b[r + i]
    BY DEF Holds
<1>2. \A i \in 1 .. w - r : b[r + i] \in Byte
    BY <1>1
<1>3. f \in Seq(Byte) /\ Len(f) = w - r /\ \A i \in 1 .. w - r : f[i] = b[r + i]
    <2>1. w - r \in Nat
        BY <1>1
    <2> QED
        BY ONLY <1>2, <2>1
<1> HIDE DEF f
<1>4. f = c
    BY <1>1, <1>3, SameSeq, Zenon
<1> QED
    BY <1>4, Zenon DEF f

\* A fresh vector holds nothing.
LEMMA FreshHolds ==
    ASSUME NEW n \in Nat
    PROVE  Holds([i \in 1 .. kCheapPrepend + n |-> 0], kCheapPrepend, kCheapPrepend, <<>>)
<1> DEFINE b == [i \in 1 .. kCheapPrepend + n |-> 0]
<1>1. b \in Seq(Byte) /\ Len(b) = kCheapPrepend + n
    BY BufferAssumption
<1> HIDE DEF b
<1>2. Holds(b, kCheapPrepend, kCheapPrepend, <<>>)
    BY <1>1, BufferAssumption DEF Holds
<1> QED
    BY <1>2, Zenon DEF b

\* The bytes of one operation are a sequence.
LEMMA DataSeq == \A d \in Data : d \in Seq(Byte)
<1> TAKE d \in Data
<1>1. PICK n \in 0 .. MaxLen : d \in [1 .. n -> Byte]
    BY Zenon DEF Data
<1> QED
    BY <1>1, BufferAssumption

\* BInv is inductive.
LEMMA StepHolds == BInv /\ [BufferNext]_bufferVars => BInv'
<1> SUFFICES ASSUME BInv, [BufferNext]_bufferVars PROVE BInv'
    BY Zenon
<1>1. PICK b, r, w, c : b = buffer_ /\ r = readerIndex_ /\ w = writerIndex_ /\ c = q
    BY Zenon
<1>2. Holds(b, r, w, c) /\ r \in Nat /\ w \in Nat /\ r <= w /\ Len(b) \in Nat /\ w <= Len(b)
    <2>1. Holds(b, r, w, c)
        BY <1>1, Zenon DEF BInv
    <2> QED
        BY <2>1 DEF Holds
<1>3. ASSUME NEW d \in Data, append(d), Put(d) PROVE BInv'
    <2>1. PICK s : s = Appended(b, r, w, d)
        BY Zenon
    <2>2. Holds(s[1], s[2], s[3], c \o d)
        BY <1>2, <2>1, DataSeq, AppendHolds, Zenon
    <2>3. buffer_' = s[1] /\ readerIndex_' = s[2] /\ writerIndex_' = s[3] /\ q' = c \o d
        BY <1>1, <1>3, <2>1, Zenon DEF append, becomes, Put
    <2> QED
        BY <2>2, <2>3, Zenon DEF BInv
<1>4. ASSUME NEW d \in Data, readFd(d), Put(d) PROVE BInv'
    <2>1. PICK n : n = Len(b) - w
        BY Zenon
    <2>2. d \in Seq(Byte) /\ Len(d) \in Nat /\ n \in Nat
        BY <1>2, <2>1, DataSeq
    <2>3. reads(d, n) /\ q' = c \o d
        BY <1>1, <1>4, <2>1, Zenon DEF readFd, writableBytes, Put
    <2>4. CASE Len(d) <= n
        <3>1. w + Len(d) <= Len(b)
            BY <1>2, <2>1, <2>2, <2>4
        <3>2. Holds(copied(b, w, d), r, w + Len(d), c \o d)
            BY <1>2, <2>2, <3>1, CopyHolds, Zenon
        <3>3. buffer_' = copied(b, w, d) /\ readerIndex_' = r /\ writerIndex_' = w + Len(d)
            BY <1>1, <2>3, <2>4, Zenon DEF reads
        <3> QED
            BY <2>3, <3>2, <3>3, Zenon DEF BInv
    <2>5. CASE Len(d) > n
        <3>1. PICK s : s = Appended(copied(b, w, SubSeq(d, 1, n)), r, Len(b), SubSeq(d, n + 1, Len(d)))
            BY Zenon
        <3>2. Holds(s[1], s[2], s[3], c \o d)
            BY <1>2, <2>1, <2>2, <2>5, <3>1, ReadHolds, Zenon
        <3>3. buffer_' = s[1] /\ readerIndex_' = s[2] /\ writerIndex_' = s[3]
            <4>1. ~(Len(d) <= n)
                BY <2>2, <2>5
            <4> QED
                BY <1>1, <2>3, <3>1, <4>1, Zenon DEF reads, becomes
        <3> QED
            BY <2>3, <3>2, <3>3, Zenon DEF BInv
    <2> QED
        BY <2>2, <2>4, <2>5
<1>5. ASSUME NEW d \in Data, prepend(d), PutFront(d) PROVE BInv'
    <2>1. Holds(copied(b, r - Len(d), d), r - Len(d), w, d \o c)
        <3>1. Len(d) <= r
            BY <1>1, <1>5, Zenon DEF prepend, prependableBytes
        <3> QED
            BY <1>2, <3>1, DataSeq, PrependHolds, Zenon
    <2>2. /\ buffer_' = copied(b, r - Len(d), d) /\ readerIndex_' = r - Len(d)
          /\ writerIndex_' = w /\ q' = d \o c
        BY <1>1, <1>5, Zenon DEF prepend, PutFront
    <2> QED
        BY <2>1, <2>2, Zenon DEF BInv
<1>6. ASSUME NEW n \in 0 .. w - r, retrieve(n), Take(n) PROVE BInv'
    <2>1. n \in Nat /\ n <= w - r
        BY <1>2
    <2>2. /\ Holds(b, r + n, w, SubSeq(c, n + 1, Len(c)))
          /\ n = w - r => Holds(b, kCheapPrepend, kCheapPrepend, SubSeq(c, n + 1, Len(c)))
        BY <1>2, <2>1, RetrieveHolds, Zenon
    <2>3. buffer_' = b /\ q' = SubSeq(c, n + 1, Len(c))
        BY <1>1, <1>6, Zenon DEF retrieve, Take
    <2>4. CASE n < w - r
        BY <1>1, <1>6, <2>2, <2>3, <2>4, Zenon DEF retrieve, readableBytes, BInv
    <2>5. CASE n = w - r
        <3>1. ~(n < w - r)
            BY <1>2, <2>1, <2>5
        <3> QED
            BY <1>1, <1>6, <2>2, <2>3, <2>5, <3>1, Zenon DEF retrieve, readableBytes, BInv
    <2> QED
        BY <1>2, <2>1, <2>4, <2>5
<1>7. ASSUME NEW n \in 0 .. w - r, unwrite(n), Unput(n) PROVE BInv'
    <2>1. n \in Nat /\ n <= w - r
        BY <1>2
    <2>2. Holds(b, r, w - n, SubSeq(c, 1, Len(c) - n))
        BY <1>2, <2>1, UnwriteHolds, Zenon
    <2> QED
        BY <1>1, <1>7, <2>2, Zenon DEF unwrite, Unput, BInv
<1>8. ASSUME NEW m \in 0 .. MaxLen, shrink(m), UNCHANGED q PROVE BInv'
    <2>1. Readable = c
        BY <1>1, <1>2, HoldsRead, Zenon DEF Readable, readableBytes
    <2>2. PICK n \in Nat : n >= w - r
                  /\ buffer_' = copied([i \in 1 .. kCheapPrepend + n |-> 0], kCheapPrepend, c)
        <3>1. m \in Nat
            BY BufferAssumption
        <3> DEFINE n == IF w - r + m > kInitialSize THEN w - r + m ELSE kInitialSize
        <3>2. n \in Nat /\ n >= w - r
            BY <1>2, <3>1, BufferAssumption
        <3>3. buffer_' = copied([i \in 1 .. kCheapPrepend + n |-> 0], kCheapPrepend, c)
            BY <1>1, <1>8, <2>1, Zenon DEF shrink, readableBytes
        <3> HIDE DEF n
        <3> QED
            BY <3>2, <3>3, Zenon
    <2>3. readerIndex_' = kCheapPrepend /\ writerIndex_' = kCheapPrepend + (w - r) /\ q' = c
        BY <1>1, <1>8, Zenon DEF shrink, readableBytes
    <2>4. PICK e : e = [i \in 1 .. kCheapPrepend + n |-> 0]
        BY Zenon
    <2>5. Holds(e, kCheapPrepend, kCheapPrepend, <<>>) /\ Len(e) = kCheapPrepend + n
        <3>1. Len(e) = kCheapPrepend + n
            BY <2>2, <2>4, BufferAssumption
        <3>2. Holds(e, kCheapPrepend, kCheapPrepend, <<>>)
            BY <2>2, <2>4, FreshHolds, Zenon
        <3> QED
            BY <3>1, <3>2, Zenon
    <2>6. c \in Seq(Byte) /\ Len(c) = w - r
        BY <1>2, Zenon DEF Holds
    <2>7. kCheapPrepend + Len(c) <= Len(e)
        BY <1>2, <2>2, <2>5, <2>6, BufferAssumption
    <2>8. Holds(copied(e, kCheapPrepend, c), kCheapPrepend, kCheapPrepend + Len(c), <<>> \o c)
        BY <2>5, <2>6, <2>7, CopyHolds, Zenon
    <2>9. <<>> \o c = c
        BY <2>6, ConcatEmptySeq, Zenon
    <2> QED
        BY <2>2, <2>3, <2>4, <2>6, <2>8, <2>9, Zenon DEF BInv
<1>9. CASE UNCHANGED bufferVars
    BY <1>9, Zenon DEF BInv, bufferVars
<1>10. readableBytes = w - r
    BY <1>1, Zenon DEF readableBytes
<1> QED
    BY <1>3, <1>4, <1>5, <1>6, <1>7, <1>8, <1>9, <1>10, Zenon DEF BufferNext

\* A Buffer is a byte queue (Buffer.h): its asserts hold and the readable
\* bytes are the ones written and not yet read, in order, for every size of
\* the vector, of the prepend area and of the data.
THEOREM BufferAlwaysQueue == BufferSpec => []BufferIsQueue
<1>1. BufferInit => BInv
    <2> SUFFICES ASSUME BufferInit PROVE BInv
        BY Zenon
    <2>1. Holds([i \in 1 .. kCheapPrepend + kInitialSize |-> 0], kCheapPrepend, kCheapPrepend, <<>>)
        BY FreshHolds, BufferAssumption, Zenon
    <2> QED
        BY <2>1, Zenon DEF BufferInit, ByteQueueInit, BInv
<1>2. BInv => BufferIsQueue
    <2> SUFFICES ASSUME BInv PROVE BufferIsQueue
        BY Zenon
    <2>1. IndexesInOrder
        BY DEF BInv, Holds, IndexesInOrder
    <2>2. ReadsWhatWasWritten
        BY HoldsRead DEF BInv, ReadsWhatWasWritten, Readable, readableBytes
    <2> QED
        BY <2>1, <2>2, Zenon DEF BufferIsQueue
<1> QED
    BY <1>1, <1>2, StepHolds, PTL DEF BufferSpec
-----------------------------------------------------------------------------
(***************************************************************************)
(* QueueDelivers, proved for any finite sets of putters and takers and any *)
(* capacity: one notify per put, and one per take, is enough.              *)
(***************************************************************************)
\* Only takers inside take wait for an element, and only putters inside put
\* for a place.
QInv == /\ capacity \in Nat /\ puts \in Nat
        /\ items \in Seq(Nat) /\ got \in Seq(Nat)
        /\ calling \subseteq QueueUsers
        /\ blocked \in [QueueUsers -> {"none", "notEmpty_", "notFull_"}]
        /\ \A t \in QueueUsers : blocked[t] = "notEmpty_" => t \in Takers \cap calling
        /\ \A t \in QueueUsers : blocked[t] = "notFull_" => t \in Putters \cap calling
        /\ QueueDelivers

Numbers(n) == [k \in 1 .. n |-> k]
-----------------------------------------------------------------------------
\* A notify wakes one of the threads that wait, if there is one.
LEMMA NotifyWakesOne ==
    ASSUME NEW b, NEW c, NEW cond, c \in notify(b, cond)
    PROVE  \/ c = b /\ \A t \in DOMAIN b : b[t] # cond
           \/ \E t \in DOMAIN b : b[t] = cond /\ c = [b EXCEPT ![t] = "none"]
BY Zenon DEF notify

\* put appends to the second of two sequences and so to both.
LEMMA AppendBoth ==
    ASSUME NEW S, NEW g \in Seq(S), NEW i \in Seq(S), NEW x \in S
    PROVE  Cat(g, Append(i, x)) = Append(Cat(g, i), x)
    BY DEF Cat

\* take moves the first element of the second sequence to the end of the first.
LEMMA TakeSame ==
    ASSUME NEW S, NEW g \in Seq(S), NEW i \in Seq(S), i # <<>>
    PROVE  Cat(Append(g, Head(i)), Tail(i)) = Cat(g, i)
    BY SMTT(30) DEF Cat

\* put adds the next number.
LEMMA PutNumbers ==
    ASSUME NEW g \in Seq(Nat), NEW i \in Seq(Nat), NEW n \in Nat, Cat(g, i) = Numbers(n)
    PROVE  Cat(g, Append(i, n + 1)) = Numbers(n + 1)
<1>1. n + 1 \in Nat
    OBVIOUS
<1>2. Append(Numbers(n), n + 1) = Numbers(n + 1)
    BY DEF Numbers
<1>3. PICK x \in Nat : x = n + 1
    BY <1>1, Zenon
<1>4. Cat(g, Append(i, x)) = Append(Cat(g, i), x)
    BY AppendBoth
<1>5. Append(Cat(g, i), x) = Numbers(n + 1)
    BY <1>2, <1>3, Zenon
<1> QED
    BY <1>3, <1>4, <1>5, Zenon
-----------------------------------------------------------------------------
\* What the proof needs of finite sets.  It is a hypothesis of the lemmas up to
\* the last section, which proves it from the theorems on finite sets.
CountFacts == \A S : IsFiniteSet(S) =>
    /\ Cardinality(S) \in Nat
    /\ \A T \in SUBSET S : IsFiniteSet(T) /\ Cardinality(T) <= Cardinality(S)
    /\ \A x \in S : Cardinality(S \ {x}) = Cardinality(S) - 1
    /\ \A x : x \notin S => Cardinality(S \cup {x}) = Cardinality(S) + 1

LEMMA SubsetCounts ==
    ASSUME CountFacts, NEW S, IsFiniteSet(S), NEW T \in SUBSET S
    PROVE  IsFiniteSet(T) /\ Cardinality(T) \in Nat /\ Cardinality(T) <= Cardinality(S)
<1>1. IsFiniteSet(T) /\ Cardinality(T) <= Cardinality(S)
    BY Zenon DEF CountFacts
<1>2. QED
    BY <1>1, Zenon DEF CountFacts

LEMMA OneCounts ==
    ASSUME CountFacts, NEW S, IsFiniteSet(S), NEW x
    PROVE  /\ x \in S => Cardinality(S \ {x}) = Cardinality(S) - 1
           /\ x \notin S => Cardinality(S \cup {x}) = Cardinality(S) + 1
    BY Zenon DEF CountFacts

\* The sets that NoLostNotify counts are finite.
LEMMA AwakeFinite ==
    ASSUME CountFacts, QInv
    PROVE  /\ IsFiniteSet(AwakeIn(Takers)) /\ Cardinality(AwakeIn(Takers)) \in Nat
           /\ IsFiniteSet(AwakeIn(Putters)) /\ Cardinality(AwakeIn(Putters)) \in Nat
<1>1. AwakeIn(Takers) \in SUBSET Takers /\ AwakeIn(Putters) \in SUBSET Putters
    BY Zenon DEF AwakeIn
<1> QED
    BY <1>1, QueueAssumption, SubsetCounts, Zenon

\* Initially the queue is empty and nobody waits.
LEMMA InitQInv == QueueInit => QInv
<1> SUFFICES ASSUME QueueInit PROVE QInv
    BY Zenon
<1> USE QueueAssumption DEF QueueInit, QueueUsers
<1>1. FirstInFirstOut
    BY DEF FirstInFirstOut
<1>2. NoLostNotify
    BY Zenon DEF NoLostNotify, SomeBlocked
<1> QED
    BY <1>1, <1>2 DEF QInv, QueueDelivers

\* A thread that waits does not count, and the queue it found empty or full
\* leaves nothing to be woken for.
LEMMA BlocksKeeps ==
    ASSUME CountFacts, QInv, NEW t \in QueueUsers, NEW cond, UNCHANGED capacity, t \in calling, blocked[t] = "none",
           Blocks(t, cond),
           \/ cond = "notEmpty_" /\ t \in Takers /\ items = <<>>
           \/ cond = "notFull_" /\ t \in Putters /\ full
    PROVE  QInv'
<1> USE DEF Blocks, wait
<1>1. /\ blocked' \in [QueueUsers -> {"none", "notEmpty_", "notFull_"}]
      /\ blocked'[t] = cond /\ \A u \in QueueUsers \ {t} : blocked'[u] = blocked[u]
    BY Zenon DEF QInv
<1>2. FirstInFirstOut'
    BY Zenon DEF QInv, QueueDelivers, FirstInFirstOut
<1>3. NoLostNotify'
    <2>1. CASE cond = "notEmpty_"
        <3>1. Len(items') = 0
            BY <2>1, Zenon
        <3>2. Cardinality(AwakeIn(Takers)') \in Nat
            <4>1. AwakeIn(Takers)' \in SUBSET Takers
                BY Zenon DEF AwakeIn
            <4> QED
                BY <4>1, QueueAssumption, SubsetCounts, Zenon
        <3>3. AwakeIn(Putters)' = AwakeIn(Putters) /\ (SomeBlocked("notFull_")' => SomeBlocked("notFull_"))
            BY <1>1, <2>1, QueueAssumption, ZenonT(30) DEF AwakeIn, SomeBlocked, QueueUsers
        <3> QED
            BY <3>1, <3>2, <3>3, SMTT(30) DEF QInv, QueueDelivers, NoLostNotify
    <2>2. CASE cond = "notFull_"
        <3>1. capacity' - Len(items') = 0
            BY <2>2 DEF full, QInv
        <3>2. Cardinality(AwakeIn(Putters)') \in Nat
            <4>1. AwakeIn(Putters)' \in SUBSET Putters
                BY Zenon DEF AwakeIn
            <4> QED
                BY <4>1, QueueAssumption, SubsetCounts, Zenon
        <3>3. AwakeIn(Takers)' = AwakeIn(Takers) /\ (SomeBlocked("notEmpty_")' => SomeBlocked("notEmpty_"))
            BY <1>1, <2>2, QueueAssumption, Zenon DEF AwakeIn, SomeBlocked, QueueUsers
        <3> QED
            BY <3>1, <3>2, <3>3 DEF QInv, QueueDelivers, NoLostNotify
    <2> QED
        BY <2>1, <2>2, Zenon
<1> QED
    BY <1>1, <1>2, <1>3, Zenon DEF QInv, QueueDelivers

\* Calls that begin and waits that end by themselves only add to the threads
\* on their way.
LEMMA MoreAwake ==
    ASSUME CountFacts, QInv, UNCHANGED <<capacity, items, got, puts>>,
           calling \subseteq calling', calling' \subseteq QueueUsers,
           blocked' \in [QueueUsers -> {"none", "notEmpty_", "notFull_"}],
           \A u \in QueueUsers : blocked'[u] \in {blocked[u], "none"}
    PROVE  QInv'
<1>1. FirstInFirstOut'
    BY Zenon DEF QInv, QueueDelivers, FirstInFirstOut
<1>2. ASSUME NEW S \in {Putters, Takers}
      PROVE  /\ Cardinality(AwakeIn(S)) \in Nat /\ Cardinality(AwakeIn(S)') \in Nat
             /\ Cardinality(AwakeIn(S)) <= Cardinality(AwakeIn(S)')
    <2>1. IsFiniteSet(S) /\ AwakeIn(S)' \in SUBSET S
        BY QueueAssumption, Zenon DEF AwakeIn
    <2>2. AwakeIn(S) \in SUBSET (AwakeIn(S)')
        BY Zenon DEF AwakeIn, QInv, QueueUsers
    <2>3. IsFiniteSet(AwakeIn(S)') /\ Cardinality(AwakeIn(S)') \in Nat
        BY <2>1, SubsetCounts, Zenon
    <2> QED
        BY <2>2, <2>3, SubsetCounts, Zenon
<1>3. ASSUME NEW cond \in {"notEmpty_", "notFull_"}, SomeBlocked(cond)' PROVE SomeBlocked(cond)
    BY <1>3, Zenon DEF SomeBlocked
<1>4. NoLostNotify'
    <2>1. SomeBlocked("notEmpty_")' => Cardinality(AwakeIn(Takers)') >= Len(items')
        BY <1>2, <1>3 DEF QInv, QueueDelivers, NoLostNotify
    <2>2. SomeBlocked("notFull_")' => Cardinality(AwakeIn(Putters)') >= capacity' - Len(items')
        BY <1>2, <1>3 DEF QInv, QueueDelivers, NoLostNotify
    <2> QED
        BY <2>1, <2>2, Zenon DEF NoLostNotify
<1> QED
    BY <1>1, <1>4, Zenon DEF QInv, QueueDelivers

\* A thread that returns from S takes one from those on their way in S, and
\* the notify adds one to those in T, if one waits there.
LEMMA ReturnAndNotify ==
    ASSUME CountFacts, QInv, NEW S, NEW T, NEW t \in S, NEW cond,
           \/ S = Putters /\ T = Takers /\ cond = "notEmpty_"
           \/ S = Takers /\ T = Putters /\ cond = "notFull_",
           t \in calling, blocked[t] = "none", calling' = calling \ {t},
           blocked' \in notify(blocked, cond)
    PROVE  /\ Cardinality(AwakeIn(S)') = Cardinality(AwakeIn(S)) - 1
           /\ SomeBlocked(cond)' => /\ SomeBlocked(cond)
                                    /\ Cardinality(AwakeIn(T)') = Cardinality(AwakeIn(T)) + 1
           /\ \A other \in {"notEmpty_", "notFull_"} : SomeBlocked(other)' => SomeBlocked(other)
           /\ blocked' \in [QueueUsers -> {"none", "notEmpty_", "notFull_"}]
           /\ \A u \in QueueUsers : blocked'[u] \in {blocked[u], "none"}
           /\ blocked'[t] = "none"
<1>0. /\ blocked \in [QueueUsers -> {"none", "notEmpty_", "notFull_"}] /\ S \cap T = {}
      /\ S \subseteq QueueUsers /\ T \subseteq QueueUsers
    BY QueueAssumption, ZenonT(30) DEF QInv, QueueUsers
<1> DEFINE AtMostOneWakes ==
          /\ blocked' \in [QueueUsers -> {"none", "notEmpty_", "notFull_"}]
          /\ \A u \in QueueUsers : blocked'[u] \in {blocked[u], "none"}
          /\ \A u \in S : blocked'[u] = blocked[u]
          /\ \/ blocked' = blocked /\ ~SomeBlocked(cond)
             \/ \E w \in T : /\ w \in calling /\ blocked[w] = cond /\ blocked'[w] = "none"
                             /\ \A u \in QueueUsers \ {w} : blocked'[u] = blocked[u]
<1>1. AtMostOneWakes
    <2>1. CASE blocked' = blocked /\ \A u \in DOMAIN blocked : blocked[u] # cond
        BY <1>0, <2>1, Zenon DEF SomeBlocked
    <2>2. ASSUME NEW w \in DOMAIN blocked, blocked[w] = cond, blocked' = [blocked EXCEPT ![w] = "none"]
          PROVE  AtMostOneWakes
        <3>1. w \in T /\ w \in calling /\ w \in QueueUsers /\ w \notin S
            BY <1>0, <2>2, Zenon DEF QInv
        <3> QED
            BY <1>0, <2>2, <3>1, Zenon
    <2> QED
        BY <2>1, <2>2, NotifyWakesOne, SMTT(30)
<1>2. Cardinality(AwakeIn(S)') = Cardinality(AwakeIn(S)) - 1
    <2>1. AwakeIn(S)' = AwakeIn(S) \ {t} /\ t \in AwakeIn(S)
        BY <1>0, <1>1, Zenon DEF AwakeIn
    <2>2. IsFiniteSet(AwakeIn(S))
        BY AwakeFinite, ZenonT(30)
    <2> QED
        BY <2>1, <2>2, OneCounts, ZenonT(30)
<1>3. ASSUME NEW other \in {"notEmpty_", "notFull_"}, SomeBlocked(other)' PROVE SomeBlocked(other)
    BY <1>1, <1>3, Zenon DEF SomeBlocked
<1>4. ASSUME SomeBlocked(cond)' PROVE Cardinality(AwakeIn(T)') = Cardinality(AwakeIn(T)) + 1
    <2>1. SomeBlocked(cond)
        BY <1>3, <1>4, Zenon
    <2>2. PICK w \in T : /\ w \in calling /\ blocked[w] = cond /\ blocked'[w] = "none"
                         /\ \A u \in QueueUsers \ {w} : blocked'[u] = blocked[u]
        BY <1>1, <2>1, Zenon
    <2>3. AwakeIn(T)' = AwakeIn(T) \cup {w} /\ w \notin AwakeIn(T)
        BY <1>0, <2>2, Zenon DEF AwakeIn
    <2>4. IsFiniteSet(AwakeIn(T))
        BY AwakeFinite, ZenonT(30)
    <2> QED
        BY <2>3, <2>4, OneCounts, ZenonT(30)
<1>5. blocked'[t] = "none"
    BY <1>1, Zenon
<1>6. SomeBlocked(cond)' => SomeBlocked(cond)
    BY <1>3, ZenonT(30)
<1>7. \A other \in {"notEmpty_", "notFull_"} : SomeBlocked(other)' => SomeBlocked(other)
    BY <1>3, ZenonT(30)
<1> HIDE DEF AtMostOneWakes
<1>8. /\ blocked' \in [QueueUsers -> {"none", "notEmpty_", "notFull_"}]
      /\ \A u \in QueueUsers : blocked'[u] \in {blocked[u], "none"}
    BY <1>1, Zenon DEF AtMostOneWakes
<1> QED
    BY <1>2, <1>4, <1>5, <1>6, <1>7, <1>8, Zenon

\* A put that finds room adds an element and a taker on its way, and uses up
\* a place and a putter on its way.
LEMMA PutKeeps == ASSUME CountFacts, QInv, NEW p \in Putters, queue_put(p) PROVE QInv'
<1> USE DEF queue_put, putting, Awake
<1>1. CASE full
    BY <1>1, BlocksKeeps, Zenon DEF QueueUsers
<1>2. CASE ~full
    <2>1. /\ blocked' \in notify(blocked, "notEmpty_") /\ calling' = calling \ {p} /\ p \in calling
          /\ blocked[p] = "none" /\ items' = Append(items, puts + 1) /\ puts' = puts + 1
          /\ UNCHANGED <<got, capacity>>
        BY <1>2, Zenon
    <2>2. /\ Cardinality(AwakeIn(Putters)') = Cardinality(AwakeIn(Putters)) - 1
          /\ SomeBlocked("notEmpty_")' => /\ SomeBlocked("notEmpty_")
                                          /\ Cardinality(AwakeIn(Takers)') = Cardinality(AwakeIn(Takers)) + 1
          /\ SomeBlocked("notFull_")' => SomeBlocked("notFull_")
          /\ blocked' \in [QueueUsers -> {"none", "notEmpty_", "notFull_"}]
          /\ \A u \in QueueUsers : blocked'[u] \in {blocked[u], "none"}
          /\ blocked'[p] = "none"
        BY <2>1, ReturnAndNotify, ZenonT(30)
    <2>3. items' \in Seq(Nat) /\ Len(items') = Len(items) + 1 /\ puts' \in Nat /\ Len(items) \in Nat
        BY <2>1 DEF QInv
    <2>4. FirstInFirstOut'
        <3>1. Cat(got, items) = Numbers(puts)
            BY Zenon DEF QInv, QueueDelivers, FirstInFirstOut, Cat, Numbers
        <3>2. Cat(got', items') = Numbers(puts')
            BY <2>1, <3>1, PutNumbers, ZenonT(30) DEF QInv
        <3> QED
            BY <3>2, Zenon DEF FirstInFirstOut, Cat, Numbers
    <2>5. NoLostNotify'
        <3>0. /\ capacity \in Nat
              /\ SomeBlocked("notEmpty_") => Cardinality(AwakeIn(Takers)) >= Len(items)
              /\ SomeBlocked("notFull_") => Cardinality(AwakeIn(Putters)) >= capacity - Len(items)
            BY ZenonT(30) DEF QInv, QueueDelivers, NoLostNotify
        <3>1. SomeBlocked("notEmpty_")' => Cardinality(AwakeIn(Takers)') >= Len(items')
            BY <2>2, <2>3, <3>0, AwakeFinite, SMTT(30)
        <3>2. SomeBlocked("notFull_")' => Cardinality(AwakeIn(Putters)') >= capacity' - Len(items')
            BY <2>1, <2>2, <2>3, <3>0, AwakeFinite, SMTT(30)
        <3> QED
            BY <3>1, <3>2, ZenonT(30) DEF NoLostNotify
    <2> QED
        BY <2>1, <2>2, <2>3, <2>4, <2>5, ZenonT(30) DEF QInv, QueueDelivers
<1> QED
    BY <1>1, <1>2, Zenon

\* A take that finds an element moves it out, and adds a place and a putter
\* on its way.
LEMMA TakeKeeps == ASSUME CountFacts, QInv, NEW c \in Takers, queue_take(c) PROVE QInv'
<1> USE DEF queue_take, taking, Awake
<1>1. CASE items = <<>>
    BY <1>1, BlocksKeeps, Zenon DEF QueueUsers
<1>2. CASE items # <<>>
    <2>1. /\ blocked' \in notify(blocked, "notFull_") /\ calling' = calling \ {c} /\ c \in calling
          /\ blocked[c] = "none" /\ items' = Tail(items) /\ got' = Append(got, Head(items))
          /\ UNCHANGED <<puts, capacity>>
        BY <1>2, Zenon
    <2>2. /\ Cardinality(AwakeIn(Takers)') = Cardinality(AwakeIn(Takers)) - 1
          /\ SomeBlocked("notFull_")' => /\ SomeBlocked("notFull_")
                                         /\ Cardinality(AwakeIn(Putters)') = Cardinality(AwakeIn(Putters)) + 1
          /\ SomeBlocked("notEmpty_")' => SomeBlocked("notEmpty_")
          /\ blocked' \in [QueueUsers -> {"none", "notEmpty_", "notFull_"}]
          /\ \A u \in QueueUsers : blocked'[u] \in {blocked[u], "none"}
          /\ blocked'[c] = "none"
        BY <2>1, ReturnAndNotify, ZenonT(30)
    <2>3. items' \in Seq(Nat) /\ Len(items') = Len(items) - 1 /\ Len(items) \in Nat /\ got' \in Seq(Nat)
        BY <1>2, <2>1, HeadTailProperties, AppendProperties, LenProperties, ZenonT(30) DEF QInv
    <2>4. FirstInFirstOut'
        <3>1. Cat(got', items') = Cat(got, items)
            BY <1>2, <2>1, TakeSame, ZenonT(30) DEF QInv
        <3>2. Cat(got, items) = Numbers(puts)
            BY ZenonT(30) DEF QInv, QueueDelivers, FirstInFirstOut, Cat, Numbers
        <3>3. Cat(got', items') = Numbers(puts')
            BY <2>1, <3>1, <3>2, Zenon
        <3> QED
            BY <3>3, Zenon DEF FirstInFirstOut, Cat, Numbers
    <2>5. NoLostNotify'
        <3>0. /\ capacity \in Nat
              /\ SomeBlocked("notEmpty_") => Cardinality(AwakeIn(Takers)) >= Len(items)
              /\ SomeBlocked("notFull_") => Cardinality(AwakeIn(Putters)) >= capacity - Len(items)
            BY ZenonT(30) DEF QInv, QueueDelivers, NoLostNotify
        <3>1. SomeBlocked("notEmpty_")' => Cardinality(AwakeIn(Takers)') >= Len(items')
            BY <2>2, <2>3, <3>0, AwakeFinite, SMTT(30)
        <3>2. SomeBlocked("notFull_")' => Cardinality(AwakeIn(Putters)') >= capacity' - Len(items')
            BY <2>1, <2>2, <2>3, <3>0, AwakeFinite, SMTT(30)
        <3> QED
            BY <3>1, <3>2, Zenon DEF NoLostNotify
    <2> QED
        BY <2>1, <2>2, <2>3, <2>4, <2>5, ZenonT(30) DEF QInv, QueueDelivers
<1> QED
    BY <1>1, <1>2, Zenon

\* drain leaves nothing to take, and nobody waits for a place in a queue
\* without a limit.
LEMMA DrainKeeps == ASSUME CountFacts, QInv, queue_drain PROVE QInv'
<1> USE DEF queue_drain
<1>1. items' = <<>> /\ Len(items') = 0 /\ got' \in Seq(Nat) /\ items' \in Seq(Nat)
    BY ConcatProperties DEF QInv
<1>2. got' \o items' = got \o items
    BY <1>1, ConcatEmptySeq, Zenon
<1>3. FirstInFirstOut'
    BY <1>2, Zenon DEF QInv, QueueDelivers, FirstInFirstOut
<1>4. AwakeIn(Takers)' = AwakeIn(Takers) /\ AwakeIn(Putters)' = AwakeIn(Putters)
    BY ZenonT(30) DEF AwakeIn
<1>5. NoLostNotify'
    BY <1>1, <1>4, AwakeFinite, SMTT(30) DEF NoLostNotify, QInv
<1> QED
    BY <1>1, <1>3, <1>5, ZenonT(30) DEF QInv, QueueDelivers

\* Every step of a putter, a taker or the scheduler keeps the invariant.
LEMMA NextQInv == ASSUME CountFacts, QInv, [QueueNext]_queueVars PROVE QInv'
<1>1. ASSUME NEW t \in QueueUsers, queue_call(t) PROVE QInv'
    BY <1>1, MoreAwake, ZenonT(30) DEF queue_call, QInv
<1>2. ASSUME NEW t \in QueueUsers, wakeup(t) PROVE QInv'
    BY <1>2, MoreAwake, ZenonT(30) DEF wakeup, spurious, QInv
<1>3. CASE UNCHANGED queueVars
    BY <1>3, MoreAwake, ZenonT(30) DEF queueVars, QInv
<1> QED
    BY <1>1, <1>2, <1>3, PutKeeps, TakeKeeps, DrainKeeps, Zenon DEF QueueNext

-----------------------------------------------------------------------------
(***************************************************************************)
(* The hand-over of Thread::start, for any Thread objects.  The owner's    *)
(* place, the new thread's, the latch and the id go together: while the    *)
(* count is 1 the owner is still in start(), and the new thread is on its  *)
(* way to countDown; once it is 0 the id is stored.                        *)
(***************************************************************************)
BeforeCount == {"created", "stored"}
AfterCount == {"counted", "func_", "ended"}

ThreadTypes == /\ owner \in [Thr -> {"new", "aborted", "waiting", "started", "joined", "gone"}]
               /\ newborn \in [Thr -> {"none"} \cup BeforeCount \cup AfterCount]
               /\ tid_ \in [Thr -> BOOLEAN] /\ count_ \in [Thr -> Int] /\ asleep \in [Thr -> BOOLEAN]

HandsOver(x) ==
    /\ owner[x] \in {"new", "aborted"} => newborn[x] = "none"
    /\ owner[x] \in {"started", "joined"} => newborn[x] \in {"func_", "ended"}
    /\ owner[x] = "gone" => newborn[x] \in {"none", "func_", "ended"}
    /\ newborn[x] \in {"none"} \cup BeforeCount => count_[x] = 1
    /\ newborn[x] \in {"stored"} \cup AfterCount => tid_[x] = TRUE

ThreadInv == ThreadTypes /\ \A x \in Thr : HandsOver(x)

\* Each step of the owner or of the new thread keeps it.
LEMMA ThreadStep ==
    ASSUME ThreadInv, NEW x \in Thr,
           \/ create(x) \/ create_fails(x) \/ latch_wait(x) \/ latch_spurious(x)
           \/ ThreadRuns(x) \/ finish(x) \/ join(x) \/ destroyThread(x)
    PROVE  ThreadInv'
<1> USE DEF OwnerMoves, NewbornMoves, BeforeCount, AfterCount
<1>0. ThreadTypes /\ HandsOver(x) /\ \A y \in Thr : HandsOver(y)
  BY Zenon DEF ThreadInv
<1>1. /\ ThreadTypes' /\ HandsOver(x)'
      /\ \A y \in Thr \ {x} : /\ owner'[y] = owner[y] /\ newborn'[y] = newborn[y]
                             /\ tid_'[y] = tid_[y] /\ count_'[y] = count_[y]
  <2>1. CASE create(x) \/ create_fails(x)
    BY <1>0, <2>1, ZenonT(30) DEF create, create_fails, ThreadTypes, HandsOver
  <2>2. CASE latch_wait(x)
    <3>1. CASE count_[x] > 0
      BY <1>0, <2>2, <3>1, ZenonT(30) DEF latch_wait, ThreadTypes, HandsOver
    <3>2. CASE ~(count_[x] > 0)
      <4>1. count_[x] # 1 /\ newborn[x] \in {"func_", "ended"}
        BY <1>0, <2>2, <3>2 DEF latch_wait, ThreadTypes, HandsOver
      <4>2. /\ owner[x] = "waiting" /\ owner' = [owner EXCEPT ![x] = "started"]
            /\ UNCHANGED <<newborn, tid_, count_, asleep>>
        BY <2>2, <3>2, ZenonT(30) DEF latch_wait
      <4> QED
        BY <1>0, <4>1, <4>2, ZenonT(30) DEF ThreadTypes, HandsOver
    <3> QED
      BY <3>1, <3>2, Zenon
  <2>3. CASE latch_spurious(x)
    BY <1>0, <2>3, ZenonT(30) DEF latch_spurious, ThreadTypes, HandsOver
  <2>4. CASE storeTid(x)
    BY <1>0, <2>4, ZenonT(30) DEF storeTid, ThreadTypes, HandsOver
  <2>5. CASE countDown(x)
    <3>1. count_[x] \in Int
      BY <1>0, Zenon DEF ThreadTypes
    <3>2. count_[x] - 1 \in Int
      BY ONLY <3>1, SMTT(30)
    <3> QED
      BY <1>0, <2>5, <3>2, ZenonT(30) DEF countDown, ThreadTypes, HandsOver
  <2>6. CASE countDown_return(x) \/ finish(x)
    BY <1>0, <2>6 DEF countDown_return, finish, ThreadTypes, HandsOver
  <2>7. CASE join(x) \/ destroyThread(x)
    BY <1>0, <2>7, ZenonT(30) DEF join, destroyThread, ThreadTypes, HandsOver
  <2> QED
    BY <2>1, <2>2, <2>3, <2>4, <2>5, <2>6, <2>7, ZenonT(30) DEF ThreadRuns
<1>2. \A y \in Thr : HandsOver(y)'
  BY <1>0, <1>1, ZenonT(30) DEF HandsOver
<1> QED
  BY <1>1, <1>2, Zenon DEF ThreadInv

\* So it always holds.
LEMMA ThreadInvariant == ThreadSpec => []ThreadInv
<1>1. ThreadInit => ThreadInv
  BY DEF ThreadInit, ThreadInv, ThreadTypes, HandsOver, BeforeCount, AfterCount
<1>2. ThreadInv /\ [ThreadNext]_threadVars => ThreadInv'
  <2> SUFFICES ASSUME ThreadInv, [ThreadNext]_threadVars PROVE ThreadInv'
    BY Zenon
  <2>1. CASE ThreadNext
    BY <2>1, ThreadStep, Zenon DEF ThreadNext
  <2>2. CASE UNCHANGED threadVars
    BY <2>2, Zenon DEF threadVars, ThreadInv, ThreadTypes, HandsOver
  <2> QED
    BY <2>1, <2>2, Zenon
<1> QED
  BY <1>1, <1>2, PTL DEF ThreadSpec

\* runInThread writes through its pointers into a Thread object that exists.
THEOREM NewThreadFindsObjectTheorem == ThreadSpec => []NewThreadFindsObject
<1>1. ThreadInv => NewThreadFindsObject
  BY Zenon DEF ThreadInv, ThreadTypes, HandsOver, NewThreadFindsObject, BeforeCount, AfterCount
<1> QED
  BY <1>1, ThreadInvariant, PTL

\* The assertion tid_ > 0 of Thread::start holds.
THEOREM StartSeesTidTheorem == ThreadSpec => []StartSeesTid
<1>1. ThreadInv => StartSeesTid
  BY Zenon DEF ThreadInv, ThreadTypes, HandsOver, StartSeesTid, BeforeCount, AfterCount
<1> QED
  BY <1>1, ThreadInvariant, PTL
-----------------------------------------------------------------------------
\* The sizes of finite sets, and with them the theorem about BlockingQueue.
INSTANCE FiniteSetTheorems

LEMMA CountFactsHold == CountFacts
<1> SUFFICES ASSUME NEW S, IsFiniteSet(S)
             PROVE  /\ Cardinality(S) \in Nat
                    /\ \A T \in SUBSET S : IsFiniteSet(T) /\ Cardinality(T) <= Cardinality(S)
                    /\ \A x \in S : Cardinality(S \ {x}) = Cardinality(S) - 1
                    /\ \A x : x \notin S => Cardinality(S \cup {x}) = Cardinality(S) + 1
    BY Zenon DEF CountFacts
<1>1. Cardinality(S) \in Nat
    BY FS_CardinalityType, Zenon
<1>2. \A T \in SUBSET S : IsFiniteSet(T) /\ Cardinality(T) <= Cardinality(S)
    BY FS_Subset, Zenon
<1>3. \A x \in S : Cardinality(S \ {x}) = Cardinality(S) - 1
    BY FS_RemoveElement, Zenon
<1>4. \A x : x \notin S => Cardinality(S \cup {x}) = Cardinality(S) + 1
    BY FS_AddElement, Zenon
<1>5. QED
    BY <1>1, <1>2, <1>3, <1>4, ZenonT(30)

\* Elements come out once and in order, and one notify per put and per take
\* leaves no thread asleep that has something to do, for any finite number
\* of threads and any capacity (BlockingQueue and BoundedBlockingQueue).
THEOREM QueueAlwaysDelivers == QueueSpec => []QueueDelivers
<1>1. QInv => QueueDelivers
    BY Zenon DEF QInv
<1>2. QInv /\ [QueueNext]_queueVars => QInv'
    BY CountFactsHold, NextQInv, Zenon
<1> QED
    BY <1>1, <1>2, InitQInv, PTL DEF QueueSpec
=============================================================================
