--------------------------- MODULE ChannelProofs ----------------------------
(***************************************************************************)
(* Proofs about PollPoller and its channels, and about RpcChannel.  For    *)
(* any channels, descriptors, threads and calls.                           *)
(***************************************************************************)
EXTENDS PollPoller, RpcChannel, TLAPS

(***************************************************************************)
(* The bookkeeping of PollPoller, proved for any number of channels and    *)
(* descriptors.                                                            *)
(***************************************************************************)
\* A channel has a descriptor while it exists, and no two channels that are
\* not removed share one; channels_ knows added channels only.
FdsDistinct ==
    /\ \A c \in Channels : fd[c] = NoFd <=> stage[c] = "none"
    /\ \A c, d \in Channels :
          /\ stage[c] \in {"fresh", "added"} /\ stage[d] \in {"fresh", "added"}
          /\ fd[c] = fd[d]
          => c = d
    /\ \A f \in Fds : channels_[f] # NoChannel =>
          stage[channels_[f]] = "added" /\ fd[channels_[f]] = f

\* Every place of pollfds_ decodes to a descriptor.
Decodes == \A i \in DOMAIN pollfds_ : Decoded(pollfds_[i].fd) \in Fds

\* The channel being handled is no longer to be handled.
CurrentTaken == currentActiveChannel_ \notin toHandle

IInv == /\ TypeOK /\ IndexesAgree /\ FdsDistinct /\ Decodes
        /\ ActiveChannelsExist /\ CurrentTaken
        /\ RemovedIsIgnored
-----------------------------------------------------------------------------
\* What the operations on queues return; SequenceTheorems has these facts and
\* many more, which would be in the context of every step below.
LEMMA EmptySeq ==
    ASSUME NEW S
    PROVE  <<>> \in Seq(S) /\ Len(<<>>) = 0 /\ \A q \in Seq(S) : q # <<>> => Len(q) \in Nat \ {0}
    OBVIOUS

LEMMA LenProperties ==
    ASSUME NEW S, NEW q \in Seq(S)
    PROVE  Len(q) \in Nat /\ DOMAIN q = 1 .. Len(q) /\ q \in [1 .. Len(q) -> S]
    OBVIOUS

LEMMA HeadTailProperties ==
    ASSUME NEW S, NEW q \in Seq(S), q # <<>>
    PROVE  /\ Head(q) \in S /\ Tail(q) \in Seq(S) /\ Len(Tail(q)) = Len(q) - 1
           /\ \A i \in 1 .. Len(Tail(q)) : Tail(q)[i] = q[i + 1]
    OBVIOUS

LEMMA AppendProperties ==
    ASSUME NEW S, NEW q \in Seq(S), NEW x \in S
    PROVE  /\ Append(q, x) \in Seq(S) /\ Append(q, x) # <<>> /\ Len(Append(q, x)) = Len(q) + 1
           /\ Append(q, x)[Len(q) + 1] = x /\ \A i \in 1 .. Len(q) : Append(q, x)[i] = q[i]
    OBVIOUS
-----------------------------------------------------------------------------
\* -fd-1 is negative for every descriptor, 0 included, and decodes to fd.
LEMMA DecodeIgnored ==
    \A f \in Nat : Decoded(f) = f /\ Decoded(Ignored(f)) = f
                  /\ Ignored(f) \in Int /\ Ignored(f) < 0
BY DEF Decoded, Ignored

\* Initially nothing is registered.
LEMMA InitIInv == Init => IInv
<1> SUFFICES ASSUME Init PROVE IInv
    BY Zenon
<1>1. TypeOK
    BY DEF Init, InitChannel, TypeOK, NoFd, PollFd
<1>2. IndexesAgree /\ Decodes /\ ActiveChannelsExist /\ CurrentTaken
    BY DEF Init, InitChannel, IndexesAgree, Decodes, ActiveChannelsExist, CurrentTaken
<1>3. FdsDistinct /\ RemovedIsIgnored
    BY Zenon DEF Init, InitChannel, FdsDistinct, RemovedIsIgnored
<1> QED
    BY <1>1, <1>2, <1>3, Zenon DEF IInv

\* A new Channel object takes a descriptor no other live channel has.
LEMMA ConstructIInv ==
    ASSUME IInv, NEW c \in Channels, NEW f \in Fds, construct(c, f),
           UNCHANGED pollVars
    PROVE  IInv'
<1> USE ChannelAssumption DEF construct, loopVars, pollVars
<1>1. TypeOK'
    BY DEF IInv, TypeOK
<1>2. channels_[f] = NoChannel
    BY DEF IInv, TypeOK, FdsDistinct
<1>3. \A d \in Channels : stage[d] = "added" =>
          d # c /\ stage'[d] = "added" /\ fd'[d] = fd[d]
          /\ index_'[d] = index_[d] /\ events_'[d] = events_[d]
    BY Zenon DEF IInv, TypeOK
<1>4. IndexesAgree'
    <2>1. \A i \in DOMAIN pollfds_' :
             LET d == channels_'[Decoded(pollfds_'[i].fd)]
             IN  d \in Channels /\ stage'[d] = "added" /\ index_'[d] + 1 = i
        BY <1>3 DEF IInv, IndexesAgree, At
    <2>2. ASSUME NEW d \in Channels, stage'[d] = "added"
          PROVE  /\ At(d)' \in DOMAIN pollfds_' /\ channels_'[fd'[d]] = d
                 /\ Decoded(pollfds_'[At(d)'].fd) = fd'[d]
                 /\ pollfds_'[At(d)'].events = events_'[d]
        <3>1. stage[d] = "added"
            BY <2>2, Zenon DEF IInv, TypeOK
        <3> QED
            BY <1>3, <3>1 DEF IInv, IndexesAgree, At
    <2>3. \A d \in Channels : stage'[d] = "fresh" =>
             index_'[d] < 0 /\ channels_'[fd'[d]] = NoChannel
        BY <1>2 DEF IInv, TypeOK, IndexesAgree
    <2> QED
        BY <2>1, <2>2, <2>3, Zenon DEF IndexesAgree, At
<1>5. FdsDistinct'
    <2>1. \A d \in Channels : fd'[d] = NoFd <=> stage'[d] = "none"
        BY DEF IInv, TypeOK, FdsDistinct, NoFd
    <2>2. \A d, e \in Channels :
             /\ stage'[d] \in {"fresh", "added"} /\ stage'[e] \in {"fresh", "added"}
             /\ fd'[d] = fd'[e]
             => d = e
        BY DEF IInv, TypeOK, FdsDistinct
    <2>3. \A g \in Fds : channels_'[g] # NoChannel =>
             stage'[channels_'[g]] = "added" /\ fd'[channels_'[g]] = g
        BY <1>3 DEF IInv, TypeOK, FdsDistinct
    <2> QED
        BY <2>1, <2>2, <2>3, Zenon DEF FdsDistinct
<1>6. Decodes' /\ CurrentTaken'
    BY Zenon DEF IInv, Decodes, CurrentTaken
<1>7. ActiveChannelsExist'
    BY <1>3, Zenon DEF IInv, TypeOK, ActiveChannelsExist
<1>8. RemovedIsIgnored'
    <2>1. \A d \in Channels : stage'[d] = "added" => stage[d] = "added"
        BY Zenon DEF IInv, TypeOK
    <2> QED
        BY <1>3, <2>1, Zenon DEF IInv, RemovedIsIgnored, At
<1> QED
    BY <1>1, <1>4, <1>5, <1>6, <1>7, <1>8, Zenon DEF IInv

\* A channel that is destroyed is not in the poller.
LEMMA DestructIInv ==
    ASSUME IInv, NEW c \in Channels, destruct(c), UNCHANGED pollVars
    PROVE  IInv'
<1> USE ChannelAssumption DEF destruct, loopVars, pollVars
<1>1. TypeOK'
    BY DEF IInv, TypeOK, NoFd
<1>2. \A d \in Channels : stage[d] = "added" =>
          d # c /\ stage'[d] = "added" /\ fd'[d] = fd[d]
          /\ index_'[d] = index_[d] /\ events_'[d] = events_[d]
    BY Zenon DEF IInv, TypeOK
<1>3. \A d \in Channels : stage'[d] # "none" =>
          d # c /\ stage'[d] = stage[d] /\ fd'[d] = fd[d] /\ index_'[d] = index_[d]
    BY Zenon DEF IInv, TypeOK
<1>4. IndexesAgree'
    <2>1. \A i \in DOMAIN pollfds_' :
             LET d == channels_'[Decoded(pollfds_'[i].fd)]
             IN  d \in Channels /\ stage'[d] = "added" /\ index_'[d] + 1 = i
        BY <1>2 DEF IInv, IndexesAgree, At
    <2>2. ASSUME NEW d \in Channels, stage'[d] = "added"
          PROVE  /\ At(d)' \in DOMAIN pollfds_' /\ channels_'[fd'[d]] = d
                 /\ Decoded(pollfds_'[At(d)'].fd) = fd'[d]
                 /\ pollfds_'[At(d)'].events = events_'[d]
        <3>1. stage[d] = "added"
            BY <2>2, <1>3, Zenon
        <3> QED
            BY <1>2, <3>1 DEF IInv, IndexesAgree, At
    <2>3. \A d \in Channels : stage'[d] = "fresh" =>
             index_'[d] < 0 /\ channels_'[fd'[d]] = NoChannel
        BY <1>3 DEF IInv, IndexesAgree
    <2> QED
        BY <2>1, <2>2, <2>3, Zenon DEF IndexesAgree, At
<1>5. FdsDistinct'
    <2>1. \A d \in Channels : fd'[d] = NoFd <=> stage'[d] = "none"
        BY DEF IInv, TypeOK, FdsDistinct, NoFd
    <2>2. \A d, e \in Channels :
             /\ stage'[d] \in {"fresh", "added"} /\ stage'[e] \in {"fresh", "added"}
             /\ fd'[d] = fd'[e]
             => d = e
        BY <1>3 DEF IInv, FdsDistinct
    <2>3. \A g \in Fds : channels_'[g] # NoChannel =>
             stage'[channels_'[g]] = "added" /\ fd'[channels_'[g]] = g
        BY <1>2 DEF IInv, TypeOK, FdsDistinct
    <2> QED
        BY <2>1, <2>2, <2>3, Zenon DEF FdsDistinct
<1>6. Decodes' /\ CurrentTaken'
    BY Zenon DEF IInv, Decodes, CurrentTaken
<1>7. ActiveChannelsExist'
    BY <1>2, Zenon DEF IInv, TypeOK, ActiveChannelsExist
<1>8. RemovedIsIgnored'
    BY <1>2, <1>3 DEF IInv, RemovedIsIgnored, At
<1> QED
    BY <1>1, <1>4, <1>5, <1>6, <1>7, <1>8, Zenon DEF IInv

\* The first update of a channel gives it the place at the end.
LEMMA AppendIInv ==
    ASSUME IInv, NEW c \in Channels, NEW events \in SUBSET Events,
           updateChannel(c, events), index_[c] < 0
    PROVE  IInv'
<1> DEFINE pfd == [fd |-> fd[c], events |-> events]
           n == Len(pollfds_)
<1> USE ChannelAssumption
<1>0. TypeOK /\ n \in Nat /\ DOMAIN pollfds_ = 1 .. n
    BY DEF IInv, TypeOK
<1>1. stage[c] = "fresh" /\ fd[c] \in Fds /\ channels_[fd[c]] = NoChannel
    <2>1. stage[c] # "added"
        BY <1>0 DEF IInv, IndexesAgree, At, TypeOK
    <2> QED
        BY <2>1, <1>0 DEF IInv, IndexesAgree, FdsDistinct, TypeOK, updateChannel, update
<1>2. /\ stage' = [stage EXCEPT ![c] = "added"] /\ fd' = fd
      /\ events_' = [events_ EXCEPT ![c] = events]
      /\ index_' = [index_ EXCEPT ![c] = n]
      /\ channels_' = [channels_ EXCEPT ![fd[c]] = c]
      /\ pollfds_' = Append(pollfds_, pfd)
      /\ UNCHANGED <<activeChannels_, toHandle, currentActiveChannel_>>
      /\ emptyFirst' = IF events = {} THEN emptyFirst \cup {c} ELSE emptyFirst
    BY <1>1, Zenon DEF updateChannel, update, loopVars
<1>3. pfd \in PollFd /\ Decoded(pfd.fd) = fd[c]
    <2>0. fd[c] \in Nat
        BY <1>1, Zenon
    <2>1. fd[c] \in Int /\ Decoded(fd[c]) = fd[c]
        BY <2>0, DecodeIgnored
    <2>2. pfd.fd = fd[c]
        BY Zenon
    <2>3. pfd \in PollFd
        BY <2>1, Zenon DEF PollFd
    <2> HIDE DEF pfd
    <2> QED
        BY <2>1, <2>2, <2>3, Zenon
<1>4. /\ DOMAIN pollfds_' = 1 .. n + 1 /\ pollfds_'[n + 1] = pfd
      /\ \A i \in 1 .. n : pollfds_'[i] = pollfds_[i]
      /\ pollfds_' \in Seq(PollFd)
    BY <1>0, <1>2, <1>3 DEF TypeOK
<1>5. TypeOK'
    BY <1>0, <1>1, <1>2, <1>4 DEF TypeOK
<1>6. \A d \in Channels : d # c =>
          /\ stage'[d] = stage[d] /\ events_'[d] = events_[d] /\ index_'[d] = index_[d]
    BY <1>0, <1>2, Zenon DEF TypeOK
<1>7. stage'[c] = "added" /\ events_'[c] = events /\ index_'[c] = n
      /\ channels_'[fd[c]] = c
    BY <1>0, <1>1, <1>2, Zenon DEF TypeOK
<1>8. \A f \in Fds : f # fd[c] => channels_'[f] = channels_[f]
    BY <1>0, <1>2, Zenon DEF TypeOK
<1>9. \A d \in Channels : d # c /\ stage[d] \in {"fresh", "added"} =>
          fd[d] # fd[c] /\ fd[d] \in Fds
    BY <1>0, <1>1 DEF IInv, TypeOK, FdsDistinct
<1>10. IndexesAgree'
    <2>1. ASSUME NEW i \in 1 .. n
          PROVE  LET d == channels_'[Decoded(pollfds_'[i].fd)]
                 IN  d \in Channels /\ stage'[d] = "added" /\ index_'[d] + 1 = i
        <3> DEFINE f == Decoded(pollfds_[i].fd)
        <3>1. channels_[f] \in Channels /\ stage[channels_[f]] = "added"
              /\ index_[channels_[f]] + 1 = i /\ f \in Fds
            BY <1>0, Zenon DEF IInv, IndexesAgree, Decodes, At
        <3>2. f # fd[c] /\ channels_[f] # c
            BY <3>1, <1>1, Zenon
        <3>3. Decoded(pollfds_'[i].fd) = f /\ channels_'[f] = channels_[f]
            BY <3>1, <3>2, <1>4, <1>8, Zenon
        <3> HIDE DEF f
        <3> QED
            BY <3>1, <3>2, <3>3, <1>6
    <2>2. LET d == channels_'[Decoded(pollfds_'[n + 1].fd)]
          IN  d \in Channels /\ stage'[d] = "added" /\ index_'[d] + 1 = n + 1
        BY <1>3, <1>4, <1>7, Zenon
    <2>3. ASSUME NEW d \in Channels, stage'[d] = "added"
          PROVE  /\ index_'[d] + 1 \in DOMAIN pollfds_' /\ channels_'[fd'[d]] = d
                 /\ Decoded(pollfds_'[index_'[d] + 1].fd) = fd'[d]
                 /\ pollfds_'[index_'[d] + 1].events = events_'[d]
        <3>1. CASE d = c
            BY <3>1, <1>0, <1>2, <1>3, <1>4, <1>7
        <3>2. CASE d # c
            <4>1. stage[d] = "added" /\ fd[d] # fd[c] /\ fd[d] \in Fds
                BY <3>2, <2>3, <1>6, <1>9, Zenon
            <4>2. /\ index_[d] + 1 \in 1 .. n /\ channels_[fd[d]] = d
                  /\ Decoded(pollfds_[index_[d] + 1].fd) = fd[d]
                  /\ pollfds_[index_[d] + 1].events = events_[d]
                BY <4>1, <1>0, Zenon DEF IInv, IndexesAgree, At
            <4> QED
                BY <4>1, <4>2, <3>2, <1>0, <1>2, <1>4, <1>6, <1>8
        <3> QED
            BY <3>1, <3>2, Zenon
    <2>4. ASSUME NEW d \in Channels, stage'[d] = "fresh"
          PROVE  index_'[d] < 0 /\ channels_'[fd'[d]] = NoChannel
        BY <2>4, <1>2, <1>6, <1>7, <1>8, <1>9 DEF IInv, IndexesAgree
    <2>5. \A i \in DOMAIN pollfds_' : i \in 1 .. n \/ i = n + 1
        BY <1>0, <1>4
    <2> QED
        BY <2>1, <2>2, <2>3, <2>4, <2>5, Zenon DEF IndexesAgree, At
<1>11. FdsDistinct'
    <2>1. \A d \in Channels : fd'[d] = NoFd <=> stage'[d] = "none"
        BY <1>1, <1>2, <1>6, <1>7 DEF IInv, FdsDistinct
    <2>2. \A d, e \in Channels :
             /\ stage'[d] \in {"fresh", "added"} /\ stage'[e] \in {"fresh", "added"}
             /\ fd'[d] = fd'[e]
             => d = e
        BY <1>1, <1>2, <1>6, <1>7 DEF IInv, FdsDistinct
    <2>3. \A g \in Fds : channels_'[g] # NoChannel =>
             stage'[channels_'[g]] = "added" /\ fd'[channels_'[g]] = g
        BY <1>0, <1>1, <1>2, <1>6, <1>7, <1>8, SMTT(30) DEF IInv, TypeOK, FdsDistinct
    <2> QED
        BY <2>1, <2>2, <2>3, Zenon DEF FdsDistinct
<1>12. Decodes'
    BY <1>0, <1>1, <1>3, <1>4 DEF IInv, Decodes
<1>13. CurrentTaken' /\ ActiveChannelsExist'
    BY <1>0, <1>2, <1>6, <1>7, Zenon DEF IInv, TypeOK, CurrentTaken, ActiveChannelsExist
<1>14. RemovedIsIgnored'
    <2> SUFFICES ASSUME NEW d \in Channels, stage'[d] = "added", events_'[d] = {}
                 PROVE  pollfds_'[index_'[d] + 1].fd < 0 <=> d \notin emptyFirst'
        BY Zenon DEF RemovedIsIgnored, At
    <2>1. CASE d = c
        <3>1. events = {} /\ c \in emptyFirst' /\ index_'[c] + 1 = n + 1
            BY <2>1, <1>2, <1>7, Zenon
        <3>2. pfd.fd = fd[c]
            BY Zenon
        <3>3. fd[c] \in Nat
            BY <1>1, Zenon
        <3>4. ~(fd[c] < 0)
            BY ONLY <3>3
        <3> QED
            BY <2>1, <3>1, <3>2, <3>4, <1>4, Zenon
    <2>2. CASE d # c
        <3>1. stage[d] = "added" /\ events_[d] = {} /\ (d \in emptyFirst' <=> d \in emptyFirst)
            BY <2>2, <1>2, <1>6, Zenon
        <3>2. index_[d] + 1 \in 1 .. n
              /\ (pollfds_[index_[d] + 1].fd < 0 <=> d \notin emptyFirst)
            BY <3>1, <1>0, Zenon DEF IInv, IndexesAgree, RemovedIsIgnored, At
        <3> QED
            BY <2>2, <3>1, <3>2, <1>4, <1>6, Zenon
    <2> QED
        BY <2>1, <2>2, Zenon
<1> QED
    BY <1>5, <1>10, <1>11, <1>12, <1>13, <1>14, Zenon DEF IInv

\* A later update changes the channel's own place, and its descriptor to
\* -fd-1 and back.
LEMMA ModifyIInv ==
    ASSUME IInv, NEW c \in Channels, NEW events \in SUBSET Events,
           updateChannel(c, events), ~(index_[c] < 0)
    PROVE  IInv'
<1> DEFINE pfd == [fd |-> IF events = {} THEN Ignored(fd[c]) ELSE fd[c], events |-> events]
<1> USE ChannelAssumption
<1>0. TypeOK
    BY Zenon DEF IInv
<1>1. stage[c] = "added" /\ fd[c] \in Fds /\ channels_[fd[c]] = c
      /\ At(c) \in DOMAIN pollfds_
    BY <1>0 DEF IInv, IndexesAgree, FdsDistinct, TypeOK, updateChannel, update
<1>2. /\ fd' = fd /\ index_' = index_ /\ channels_' = channels_
      /\ stage' = [stage EXCEPT ![c] = "added"]
      /\ events_' = [events_ EXCEPT ![c] = events]
      /\ pollfds_' = [pollfds_ EXCEPT ![At(c)] = pfd]
      /\ emptyFirst' = emptyFirst \ {c}
      /\ UNCHANGED <<activeChannels_, toHandle, currentActiveChannel_>>
    BY Zenon DEF updateChannel, update, loopVars
<1>3. stage' = stage
    BY <1>0, <1>1, <1>2, Zenon DEF TypeOK
<1>4. pfd \in PollFd /\ Decoded(pfd.fd) = fd[c] /\ (events = {} => pfd.fd < 0)
    <2> DEFINE g == IF events = {} THEN Ignored(fd[c]) ELSE fd[c]
    <2>1. fd[c] \in Nat
        BY <1>1, Zenon
    <2>2. g \in Int /\ Decoded(g) = fd[c] /\ (events = {} => g < 0)
        BY <2>1, DecodeIgnored
    <2>3. pfd = [fd |-> g, events |-> events]
        BY Zenon
    <2> HIDE DEF g, pfd
    <2>4. pfd.fd = g /\ pfd \in PollFd
        BY <2>2, <2>3, Zenon DEF PollFd
    <2> QED
        BY <2>2, <2>4, Zenon
<1>5. /\ DOMAIN pollfds_' = DOMAIN pollfds_ /\ pollfds_'[At(c)] = pfd
      /\ \A i \in DOMAIN pollfds_ : i # At(c) => pollfds_'[i] = pollfds_[i]
      /\ pollfds_' \in Seq(PollFd)
    BY <1>0, <1>1, <1>2, <1>4 DEF TypeOK
<1>6. TypeOK'
    BY <1>0, <1>2, <1>3, <1>5, ZenonT(30) DEF TypeOK
<1>7. \A i \in DOMAIN pollfds_ : Decoded(pollfds_'[i].fd) = Decoded(pollfds_[i].fd)
    BY <1>1, <1>4, <1>5, ZenonT(30) DEF IInv, IndexesAgree
<1>8. \A d \in Channels : stage[d] = "added" /\ d # c =>
          At(d) \in DOMAIN pollfds_ /\ At(d) # At(c)
    BY <1>1 DEF IInv, IndexesAgree
<1>9. events_'[c] = events /\ \A d \in Channels : d # c => events_'[d] = events_[d]
    BY <1>0, <1>2, Zenon DEF TypeOK
<1>10. IndexesAgree'
    <2>0. IndexesAgree
        BY Zenon DEF IInv
    <2>1. ASSUME NEW i \in DOMAIN pollfds_'
          PROVE  LET d == channels_'[Decoded(pollfds_'[i].fd)]
                 IN  d \in Channels /\ stage'[d] = "added" /\ index_'[d] + 1 = i
        <3>1. i \in DOMAIN pollfds_ /\ Decoded(pollfds_'[i].fd) = Decoded(pollfds_[i].fd)
            BY <1>5, <1>7, Zenon
        <3>2. LET d == channels_[Decoded(pollfds_[i].fd)]
              IN  d \in Channels /\ stage[d] = "added" /\ index_[d] + 1 = i
            BY <2>0, <3>1, Zenon DEF IndexesAgree, At
        <3> QED
            BY <1>2, <1>3, <3>1, <3>2, ZenonT(30)
    <2>2. ASSUME NEW d \in Channels, stage[d] = "added"
          PROVE  /\ At(d) \in DOMAIN pollfds_' /\ channels_'[fd'[d]] = d
                 /\ Decoded(pollfds_'[At(d)].fd) = fd'[d]
                 /\ pollfds_'[At(d)].events = events_'[d]
        <3>1. CASE d = c
            BY <3>1, <1>1, <1>2, <1>4, <1>5, <1>9, ZenonT(30)
        <3>2. CASE d # c
            <4>1. /\ At(d) \in DOMAIN pollfds_ /\ channels_[fd[d]] = d
                  /\ Decoded(pollfds_[At(d)].fd) = fd[d]
                  /\ pollfds_[At(d)].events = events_[d]
                BY <2>0, <2>2, Zenon DEF IndexesAgree
            <4>2. pollfds_'[At(d)] = pollfds_[At(d)] /\ events_'[d] = events_[d]
                BY <3>2, <2>2, <1>5, <1>8, <1>9, ZenonT(30)
            <4> QED
                BY <4>1, <4>2, <1>2, <1>5, Zenon
        <3> QED
            BY <3>1, <3>2, ZenonT(30)
    <2>3. \A d \in Channels : stage'[d] = "fresh" =>
             index_'[d] < 0 /\ channels_'[fd'[d]] = NoChannel
        BY <2>0, <1>2, <1>3, ZenonT(30) DEF IndexesAgree
    <2>4. \A d \in Channels : At(d)' = At(d)
        BY <1>2, Zenon DEF At
    <2>5. \A d \in Channels : stage'[d] = "added" =>
             /\ At(d)' \in DOMAIN pollfds_' /\ channels_'[fd'[d]] = d
             /\ Decoded(pollfds_'[At(d)'].fd) = fd'[d]
             /\ pollfds_'[At(d)'].events = events_'[d]
        BY <2>2, <2>4, <1>3, Zenon
    <2> QED
        BY <2>1, <2>3, <2>5, Zenon DEF IndexesAgree, At
<1>11. FdsDistinct' /\ CurrentTaken' /\ ActiveChannelsExist'
    BY <1>2, <1>3, ZenonT(30) DEF IInv, FdsDistinct, CurrentTaken, ActiveChannelsExist
<1>12. Decodes'
    BY <1>5, <1>7, Zenon DEF IInv, Decodes
<1>13. RemovedIsIgnored'
    <2> SUFFICES ASSUME NEW d \in Channels, stage'[d] = "added", events_'[d] = {}
                 PROVE  pollfds_'[At(d)].fd < 0 <=> d \notin emptyFirst'
        BY <1>2, Zenon DEF RemovedIsIgnored, At
    <2>1. CASE d = c
        BY <2>1, <1>2, <1>4, <1>5, <1>9, Zenon
    <2>2. CASE d # c
        BY <2>2, <1>2, <1>3, <1>5, <1>8, <1>9, Zenon DEF IInv, RemovedIsIgnored
    <2> QED
        BY <2>1, <2>2, Zenon
<1> QED
    BY <1>6, <1>10, <1>11, <1>12, <1>13, Zenon DEF IInv

LEMMA BelowLast == ASSUME NEW m \in Nat, NEW i \in 1 .. m - 1 PROVE i # m
OBVIOUS

\* A removal fills the place of the channel with the last pollfd, and tells
\* the channel that owns it; the other places stay.
LEMMA RemoveIInv ==
    ASSUME IInv, NEW c \in Channels, removeChannel(c)
    PROVE  IInv'
<1> DEFINE n == Len(pollfds_)
           last == channels_[Decoded(pollfds_[n].fd)]
<1> USE ChannelAssumption
<1>0. TypeOK /\ n \in Nat /\ DOMAIN pollfds_ = 1 .. n
    <2>1. TypeOK /\ pollfds_ \in Seq(PollFd)
        BY Zenon DEF IInv, TypeOK
    <2> QED
        BY <2>1, LenProperties, Zenon
<1>1. stage[c] = "added" /\ fd[c] \in Fds /\ channels_[fd[c]] = c
      /\ At(c) \in 1 .. n /\ Decoded(pollfds_[At(c)].fd) = fd[c]
    <2>1. stage[c] = "added"
        BY Zenon DEF removeChannel, remove
    <2>2. fd[c] \in Fds
        <3>1. fd[c] \in Fds \cup {NoFd}
            BY <1>0, Zenon DEF TypeOK
        <3>2. fd[c] = NoFd <=> stage[c] = "none"
            BY Zenon DEF IInv, FdsDistinct
        <3> QED
            BY ONLY <2>1, <3>1, <3>2, Zenon
    <2> QED
        BY <1>0, <2>1, <2>2, ZenonT(30) DEF IInv, IndexesAgree
<1>2. /\ stage' = [stage EXCEPT ![c] = "removed"] /\ fd' = fd /\ events_' = events_
      /\ channels_' = [channels_ EXCEPT ![fd[c]] = NoChannel]
      /\ emptyFirst' = emptyFirst \ {c}
      /\ UNCHANGED <<activeChannels_, toHandle, currentActiveChannel_>>
      /\ Handling => c = currentActiveChannel_ \/ c \notin activeChannels_
      /\ toHandle # {} => Handling
    BY ZenonT(30) DEF removeChannel, remove, loopVars, InUserCode
<1>3. last \in Channels /\ stage[last] = "added" /\ At(last) = n
      /\ Decoded(pollfds_[n].fd) \in Fds
    BY <1>0, <1>1 DEF IInv, IndexesAgree, Decodes
<1>4. index_' = [index_ EXCEPT ![last] = index_[c]] \/ (At(c) = n /\ index_' = index_)
    BY Zenon DEF removeChannel, moved
<1>5. /\ DOMAIN pollfds_' = 1 .. n - 1 /\ pollfds_' \in Seq(PollFd)
      /\ \A i \in 1 .. n - 1 :
            pollfds_'[i] = IF i = At(c) THEN pollfds_[n] ELSE pollfds_[i]
    <2>1. CASE At(c) = n
        <3>1. pollfds_' = SubSeq(pollfds_, 1, n - 1)
            BY <2>1, Zenon DEF removeChannel
        <3>2. n \in 1 .. n /\ n - 1 \in 0 .. n
            BY <1>0, <1>1, <2>1
        <3> QED
            BY <3>1, <3>2, <2>1, <1>0 DEF TypeOK
    <2>2. CASE At(c) # n
        <3>1. pollfds_' = [i \in 1 .. n - 1 |->
                              IF i = At(c) THEN pollfds_[n] ELSE pollfds_[i]]
            BY <2>2, Zenon DEF removeChannel
        <3>2. n - 1 \in Nat /\ n \in 1 .. n /\ \A i \in 1 .. n - 1 : i \in 1 .. n
            BY <1>0, <1>1
        <3>3. \A i \in 1 .. n : pollfds_[i] \in PollFd
            BY <1>0 DEF TypeOK
        <3> QED
            BY <3>1, <3>2, <3>3
    <2> QED
        BY <2>1, <2>2, Zenon
<1> HIDE DEF last, n
<1>6. \A d \in Channels : d # c /\ d # last => index_'[d] = index_[d]
    BY <1>0, <1>3, <1>4, Zenon DEF TypeOK
<1>7. index_' \in [Channels -> Int]
    BY <1>0, <1>3, <1>4, Zenon DEF TypeOK
<1>8. last # c => index_'[last] = index_[c] /\ At(c) # n
    <2>1. ASSUME last # c PROVE At(c) # n
        BY <2>1, <1>0, <1>1, <1>3, Zenon DEF IInv, IndexesAgree, n, last
    <2> QED
        BY <2>1, <1>0, <1>3, <1>4, ZenonT(30) DEF TypeOK
<1>9. TypeOK'
    BY <1>0, <1>2, <1>5, <1>7, Zenon DEF TypeOK
<1>10. /\ stage'[c] = "removed" /\ channels_'[fd[c]] = NoChannel
       /\ \A d \in Channels : d # c => stage'[d] = stage[d]
       /\ \A f \in Fds : f # fd[c] => channels_'[f] = channels_[f]
    BY <1>0, <1>1, <1>2, Zenon DEF TypeOK
<1>11. \A d \in Channels : d # c /\ stage[d] \in {"fresh", "added"} =>
          fd[d] # fd[c] /\ fd[d] \in Fds
    BY <1>0, <1>1 DEF IInv, TypeOK, FdsDistinct
\* Where an added channel other than c finds its pollfd.
<1>12. ASSUME NEW d \in Channels, d # c, stage[d] = "added"
       PROVE  /\ index_'[d] + 1 \in 1 .. n - 1
              /\ pollfds_'[index_'[d] + 1] = pollfds_[At(d)]
    <2>1. At(d) \in 1 .. n /\ channels_[fd[d]] = d /\ Decoded(pollfds_[At(d)].fd) = fd[d]
        BY <1>0, <1>12, Zenon DEF IInv, IndexesAgree
    <2>2. At(d) # At(c)
        BY <2>1, <1>1, <1>12, Zenon
    <2>3. CASE d = last
        <3>1. index_'[d] = index_[c] /\ At(d) = n /\ At(c) # n
            BY <2>3, <1>8, <1>3, <1>12, Zenon
        <3>2. index_'[d] + 1 = At(c) /\ At(c) \in 1 .. n - 1
            BY <3>1, <1>0, <1>1 DEF At
        <3> QED
            BY <3>1, <3>2, <1>5, Zenon
    <2>4. CASE d # last
        <3>1. At(d) # n
            BY <2>4, <2>1, Zenon DEF last
        <3>2. index_'[d] + 1 = At(d)
            BY <2>4, <1>6, <1>12, Zenon DEF At
        <3>3. At(d) \in 1 .. n - 1
            BY <3>1, <2>1, <1>0
        <3> QED
            BY <3>2, <3>3, <2>2, <1>5, Zenon
    <2> QED
        BY <2>3, <2>4, Zenon
<1>13. ASSUME NEW i \in 1 .. n - 1
       PROVE  \E j \in 1 .. n : /\ j # At(c) /\ pollfds_'[i] = pollfds_[j]
                                /\ (i = At(c) /\ j = n) \/ (i = j)
    <2>1. i \in 1 .. n /\ n \in 1 .. n /\ i # n
        BY <1>0
    <2> QED
        BY <2>1, <1>5, Zenon
<1>14. IndexesAgree'
    <2>1. ASSUME NEW i \in 1 .. n - 1
          PROVE  LET d == channels_'[Decoded(pollfds_'[i].fd)]
                 IN  d \in Channels /\ stage'[d] = "added" /\ index_'[d] + 1 = i
        <3>1. PICK j \in 1 .. n : /\ j # At(c) /\ pollfds_'[i] = pollfds_[j]
                                  /\ (i = At(c) /\ j = n) \/ (i = j)
            BY <1>13, Zenon
        <3> DEFINE f == Decoded(pollfds_[j].fd)
                   d == channels_[f]
        <3>2. f \in Fds /\ d \in Channels /\ stage[d] = "added" /\ At(d) = j
            BY <1>0, Zenon DEF IInv, IndexesAgree, Decodes
        <3>3. Decoded(pollfds_'[i].fd) = f
            BY <3>1, Zenon
        <3>4. d # c /\ f # fd[c]
            BY <3>1, <3>2, <1>1, Zenon
        <3>5. channels_'[f] = d /\ stage'[d] = "added"
            BY <3>2, <3>4, <1>10, Zenon
        <3>6. index_'[d] + 1 = i
            <4>1. CASE i = At(c) /\ j = n
                <5>1. d = last
                    BY <4>1, Zenon DEF last
                <5> QED
                    BY <5>1, <4>1, <3>4, <1>8, Zenon DEF At
            <4>2. CASE i = j
                <5>1. d # last
                    <6>1. j # n
                        BY <4>2, <1>0, BelowLast, Zenon
                    <6> QED
                        BY <6>1, <3>2, <1>3, Zenon
                <5> QED
                    BY <5>1, <4>2, <3>2, <3>4, <1>6, Zenon DEF At
            <4> QED
                BY <3>1, <4>1, <4>2, Zenon
        <3> HIDE DEF f, d
        <3> QED
            BY <3>2, <3>3, <3>5, <3>6, Zenon
    <2>2. ASSUME NEW d \in Channels, stage'[d] = "added"
          PROVE  /\ index_'[d] + 1 \in DOMAIN pollfds_' /\ channels_'[fd'[d]] = d
                 /\ Decoded(pollfds_'[index_'[d] + 1].fd) = fd'[d]
                 /\ pollfds_'[index_'[d] + 1].events = events_'[d]
        <3>1. d # c /\ stage[d] = "added"
            BY <2>2, <1>10, ZenonT(30)
        <3>2. channels_'[fd'[d]] = d
            BY <3>1, <1>2, <1>10, <1>11, Zenon DEF IInv, IndexesAgree
        <3>3. /\ Decoded(pollfds_[At(d)].fd) = fd[d]
              /\ pollfds_[At(d)].events = events_[d]
            BY <3>1, ZenonT(30) DEF IInv, IndexesAgree
        <3> QED
            BY <3>1, <3>2, <3>3, <1>2, <1>5, <1>12, Zenon
    <2>3. ASSUME NEW d \in Channels, stage'[d] = "fresh"
          PROVE  index_'[d] < 0 /\ channels_'[fd'[d]] = NoChannel
        <3>1. d # c /\ stage[d] = "fresh" /\ d # last
            BY <2>3, <1>3, <1>10, Zenon
        <3> QED
            BY <3>1, <1>2, <1>6, <1>10, <1>11, ZenonT(30) DEF IInv, IndexesAgree
    <2>4. \A i \in DOMAIN pollfds_' : i \in 1 .. n - 1
        BY <1>5, Zenon
    <2> QED
        BY <2>1, <2>2, <2>3, <2>4, Zenon DEF IndexesAgree, At
<1>15. FdsDistinct'
    <2>1. \A d \in Channels : fd'[d] = NoFd <=> stage'[d] = "none"
        BY <1>1, <1>2, <1>10 DEF IInv, FdsDistinct
    <2>2. \A d, e \in Channels :
             /\ stage'[d] \in {"fresh", "added"} /\ stage'[e] \in {"fresh", "added"}
             /\ fd'[d] = fd'[e]
             => d = e
        <3>1. \A d \in Channels : stage'[d] \in {"fresh", "added"} =>
                 stage[d] \in {"fresh", "added"}
            BY <1>10, Zenon
        <3>2. FdsDistinct
            BY Zenon DEF IInv
        <3> QED
            BY <3>1, <3>2, <1>2, Zenon DEF FdsDistinct
    <2>3. \A g \in Fds : channels_'[g] # NoChannel =>
             stage'[channels_'[g]] = "added" /\ fd'[channels_'[g]] = g
        <3>1. ASSUME NEW g \in Fds, channels_'[g] # NoChannel
              PROVE  stage'[channels_'[g]] = "added" /\ fd'[channels_'[g]] = g
            <4>1. channels_'[g] = channels_[g] /\ g # fd[c]
                BY <3>1, <1>10, Zenon
            <4>2. channels_[g] \in Channels /\ stage[channels_[g]] = "added" /\ fd[channels_[g]] = g
                <5>1. channels_[g] \in Channels \cup {NoChannel}
                    BY <1>0, Zenon DEF TypeOK
                <5> QED
                    BY <5>1, <3>1, <4>1, ZenonT(30) DEF IInv, FdsDistinct
            <4> QED
                BY <4>1, <4>2, <1>2, <1>10, Zenon
        <3> QED
            BY <3>1, Zenon
    <2> QED
        BY <2>1, <2>2, <2>3, Zenon DEF FdsDistinct
<1>16. Decodes'
    <2>1. \A j \in 1 .. n : Decoded(pollfds_[j].fd) \in Fds
        BY <1>0, Zenon DEF IInv, Decodes
    <2> QED
        BY <2>1, <1>5, <1>13, Zenon DEF Decodes
<1>17. CurrentTaken'
    BY <1>2, Zenon DEF IInv, CurrentTaken
<1>18. ActiveChannelsExist'
    <2>1. c \notin toHandle
        BY <1>0, <1>2, ZenonT(30) DEF IInv, TypeOK, CurrentTaken
    <2> QED
        BY <2>1, <1>0, <1>2, <1>10, Zenon DEF IInv, TypeOK, ActiveChannelsExist
<1>19. RemovedIsIgnored'
    <2> SUFFICES ASSUME NEW d \in Channels, stage'[d] = "added", events_'[d] = {}
                 PROVE  pollfds_'[index_'[d] + 1].fd < 0 <=> d \notin emptyFirst'
        BY Zenon DEF RemovedIsIgnored, At
    <2>1. d # c /\ stage[d] = "added" /\ events_[d] = {}
        BY <1>2, <1>10, Zenon
    <2>2. pollfds_[At(d)].fd < 0 <=> d \notin emptyFirst
        BY <2>1, Zenon DEF IInv, RemovedIsIgnored
    <2> QED
        BY <2>1, <2>2, <1>2, <1>12, Zenon
<1> QED
    BY <1>9, <1>14, <1>15, <1>16, <1>17, <1>18, <1>19, Zenon DEF IInv

\* Steps that leave the channels and the poller alone keep the bookkeeping.
LEMMA StableInv ==
    ASSUME IndexesAgree, FdsDistinct, Decodes,
           UNCHANGED <<stage, fd, events_, index_, channels_, pollfds_>>
    PROVE  IndexesAgree' /\ FdsDistinct' /\ Decodes'
<1>1. IndexesAgree'
    BY Zenon DEF IndexesAgree, At
<1>2. FdsDistinct'
    BY Zenon DEF FdsDistinct
<1>3. Decodes'
    BY ZenonT(30) DEF Decodes
<1> QED
    BY <1>1, <1>2, <1>3, ZenonT(30)

\* poll() finds an added channel for every pollfd that poll(2) reports.
LEMMA PollIInv == ASSUME IInv, poll PROVE IInv'
<1> USE ChannelAssumption
<1>1. PICK ready \in SUBSET {i \in DOMAIN pollfds_ : pollfds_[i].fd >= 0} :
          polled({channels_[pollfds_[i].fd] : i \in ready})
    BY Zenon DEF poll
<1> DEFINE active == {channels_[pollfds_[i].fd] : i \in ready}
<1>2. \A i \in ready : /\ channels_[pollfds_[i].fd] \in Channels
                      /\ stage[channels_[pollfds_[i].fd]] = "added"
    <2> TAKE i \in ready
    <2>1. i \in DOMAIN pollfds_ /\ pollfds_[i].fd >= 0
        BY Zenon
    <2>2. Decoded(pollfds_[i].fd) = pollfds_[i].fd
        <3>1. pollfds_[i] \in PollFd
            BY <2>1 DEF IInv, TypeOK
        <3>2. pollfds_[i].fd \in Int
            BY <3>1, Zenon DEF PollFd
        <3> QED
            BY <2>1, <3>2 DEF Decoded
    <2> QED
        BY <2>1, <2>2 DEF IInv, IndexesAgree
<1>3. active \subseteq Channels /\ \A c \in active : stage[c] = "added"
    BY <1>2, Zenon
<1> HIDE DEF active
<1>4. /\ UNCHANGED <<stage, fd, events_, index_, channels_, pollfds_, emptyFirst>>
      /\ UNCHANGED currentActiveChannel_ /\ currentActiveChannel_ = NoChannel
      /\ activeChannels_' = active /\ toHandle' = active
    BY <1>1, Zenon DEF poll, polled, channelVars, pollVars, Handling, active
<1>5. TypeOK'
    BY <1>3, <1>4, Zenon DEF IInv, TypeOK
<1>6. IndexesAgree' /\ FdsDistinct' /\ Decodes'
    BY <1>4, StableInv, ZenonT(30) DEF IInv
<1>7. ActiveChannelsExist' /\ CurrentTaken'
    BY <1>3, <1>4, Zenon DEF ActiveChannelsExist, CurrentTaken
<1>8. RemovedIsIgnored'
    BY <1>4, Zenon DEF IInv, RemovedIsIgnored, At
<1> QED
    BY <1>5, <1>6, <1>7, <1>8, Zenon DEF IInv

\* The loop takes the next channel, or finds none left.
LEMMA HandleIInv ==
    ASSUME IInv, handleEvent, UNCHANGED pollVars PROVE IInv'
<1> USE ChannelAssumption DEF handleEvent, channelVars, pollVars
<1>1. TypeOK'
    BY Zenon DEF IInv, TypeOK
<1>2. IndexesAgree' /\ FdsDistinct' /\ Decodes'
    BY StableInv, Zenon DEF IInv
<1>3. ActiveChannelsExist' /\ CurrentTaken'
    BY Zenon DEF IInv, TypeOK, ActiveChannelsExist, CurrentTaken
<1>4. RemovedIsIgnored'
    BY Zenon DEF IInv, RemovedIsIgnored, At
<1> QED
    BY <1>1, <1>2, <1>3, <1>4, Zenon DEF IInv

\* Every step of the loop, of an owner or of the poller preserves IInv.
LEMMA NextIInv == IInv /\ [Next]_vars => IInv'
<1> SUFFICES ASSUME IInv, [Next]_vars PROVE IInv'
    BY Zenon
<1>1. CASE poll
    BY <1>1, PollIInv, Zenon
<1>2. CASE handleEvent /\ UNCHANGED pollVars
    BY <1>2, HandleIInv, Zenon
<1>3. ASSUME NEW c \in Channels, Owner(c) PROVE IInv'
    <2>1. CASE (\E f \in Fds : construct(c, f)) /\ UNCHANGED pollVars
        BY <2>1, ConstructIInv, Zenon
    <2>2. CASE destruct(c) /\ UNCHANGED pollVars
        BY <2>2, DestructIInv, Zenon
    <2>3. ASSUME NEW events \in SUBSET Events, updateChannel(c, events) PROVE IInv'
        BY <2>3, AppendIInv, ModifyIInv, Zenon
    <2>4. CASE removeChannel(c)
        BY <2>4, RemoveIInv, Zenon
    <2> QED
        BY <1>3, <2>1, <2>2, <2>3, <2>4, Zenon DEF Owner
<1>4. CASE UNCHANGED vars
    <2>1. IndexesAgree' /\ FdsDistinct' /\ Decodes'
        BY <1>4, StableInv, Zenon DEF vars, IInv
    <2>2. TypeOK'
        BY <1>4, Zenon DEF vars, IInv, TypeOK
    <2>3. ActiveChannelsExist' /\ CurrentTaken'
        BY <1>4, Zenon DEF vars, IInv, ActiveChannelsExist, CurrentTaken
    <2>4. RemovedIsIgnored'
        BY <1>4, Zenon DEF vars, IInv, RemovedIsIgnored, At
    <2> QED
        BY <2>1, <2>2, <2>3, <2>4, Zenon DEF IInv
<1> QED
    BY <1>1, <1>2, <1>3, <1>4, Zenon DEF Next

\* The inductive invariant holds in every behaviour.
LEMMA Invariance == Spec => []IInv
BY InitIInv, NextIInv, PTL DEF Spec

\* However channels come, change their events and go, pollfds_, channels_ and
\* the indexes of the channels agree: the swap of PollPoller::removeChannel is
\* right for any number of channels.
THEOREM IndexesAlwaysAgree == Spec => []IndexesAgree
<1>1. IInv => IndexesAgree
    BY Zenon DEF IInv
<1> QED
    BY <1>1, Invariance, PTL

\* The loop never calls handleEvent of a channel that was removed or destroyed
\* after poll() returned it, given what EventLoop::removeChannel asserts.
THEOREM ActiveChannelsAlwaysExist == Spec => []ActiveChannelsExist
<1>1. IInv => ActiveChannelsExist
    BY Zenon DEF IInv
<1> QED
    BY <1>1, Invariance, PTL

\* The assert on the ignored pollfd in PollPoller::removeChannel holds for
\* every channel, descriptor 0 included, but one whose only update had no
\* events; for such a channel it always fails.
THEOREM RemovedAlwaysIgnored ==
    Spec => []RemovedIsIgnored
<1>1. IInv => RemovedIsIgnored
    BY Zenon DEF IInv
<1> QED
    BY <1>1, Invariance, PTL

\* PollPoller keeps pollfds_, channels_ and the channels in agreement for any
\* number of channels and descriptors, whatever the owners update first.
THEOREM PollSetAlwaysAgrees ==
    Spec => []PollSetAgrees
<1>1. IInv => PollSetAgrees
    BY Zenon DEF IInv, PollSetAgrees
<1> QED
    BY <1>1, Invariance, PTL
-----------------------------------------------------------------------------
(***************************************************************************)
(* OneResponsePerCall, proved for any threads and any number of calls.     *)
(***************************************************************************)
\* The places a call can be in.
Calling(id) == \E t \in Callers : ~AtStep(t, "idle") /\ calling[t][2] = id
Requested(id) == \E i \in DOMAIN requests : requests[i][1] = id
Responded(id) == \E i \in DOMAIN responses : responses[i] = id

RpcTypes ==
    /\ id_ \in Nat /\ outstandings_ \subseteq Nat /\ serving \subseteq Nat /\ ran \subseteq Nat
    /\ calling \in [Callers -> {"idle", "id", "registered"} \X Nat]
    /\ requests \in Seq(Nat \X Outcomes) /\ responses \in Seq(Nat)
    /\ channel \in {"alive", "destroyed"} /\ client \in {"alive", "destroyed"}

\* A call is in each place once, ...
OnceEach ==
    /\ \A t, u \in Callers :
          ~AtStep(t, "idle") /\ ~AtStep(u, "idle") /\ calling[t][2] = calling[u][2] => t = u
    /\ \A i, j \in DOMAIN requests : requests[i][1] = requests[j][1] => i = j
    /\ \A i, j \in DOMAIN responses : responses[i] = responses[j] => i = j

\* ... and in one place at most; only calls that were made are anywhere.
OnePlace == \A id \in Nat :
    /\ Calling(id) => ~Requested(id) /\ id \notin serving /\ ~Responded(id) /\ id \notin ran
    /\ Requested(id) => id \notin serving /\ ~Responded(id) /\ id \notin ran
    /\ id \in serving => ~Responded(id) /\ id \notin ran
    /\ Responded(id) => id \notin ran
    /\ Calling(id) \/ Requested(id) \/ id \in serving \/ Responded(id) \/ id \in ran => id \in 1 .. id_

\* While both ends live, a call that was made and has not ended is somewhere.
SomePlace == channel = "alive" /\ client = "alive" => \A id \in 1 .. id_ :
    Calling(id) \/ Requested(id) \/ id \in serving \/ Responded(id) \/ id \in ran

\* A call that was registered is outstanding until its closure is run.
Registered == client = "alive" =>
    /\ \A t \in Callers : AtStep(t, "registered") => calling[t][2] \in outstandings_
    /\ \A id \in Nat : Requested(id) \/ id \in serving \/ Responded(id) => id \in outstandings_

RpcInv == RpcTypes /\ OnceEach /\ OnePlace /\ SomePlace /\ Registered
          /\ (client = "destroyed" => \A t \in Callers : AtStep(t, "idle"))
-----------------------------------------------------------------------------
\* The identifiers given out, and the next one; nothing is in no sequence.
LEMMA UpTo ==
    ASSUME NEW n \in Nat
    PROVE  /\ 1 .. n \subseteq Nat /\ n + 1 \in Nat /\ n + 1 \notin 1 .. n
           /\ 1 .. (n + 1) = 1 .. n \cup {n + 1}
OBVIOUS

LEMMA Nothing == DOMAIN <<>> = {} /\ \A S : <<>> \in Seq(S)
OBVIOUS

\* An appended element is new, the others stay where they are.
LEMMA OneMore ==
    ASSUME NEW S, NEW s \in Seq(S), NEW x \in S
    PROVE  /\ Append(s, x) \in Seq(S)
           /\ DOMAIN Append(s, x) = DOMAIN s \cup {Len(s) + 1} /\ Len(s) + 1 \notin DOMAIN s
           /\ Append(s, x)[Len(s) + 1] = x
           /\ \A i \in DOMAIN s : Append(s, x)[i] = s[i]
<1>1. Len(s) \in Nat /\ DOMAIN s = 1 .. Len(s)
  BY LenProperties, Zenon
<1>2. DOMAIN Append(s, x) = 1 .. Len(s) + 1
  BY AppendProperties, LenProperties
<1>3. QED
  BY <1>1, <1>2, AppendProperties

\* Tail drops the first element and keeps the others.
LEMMA OneLess ==
    ASSUME NEW S, NEW s \in Seq(S), s # <<>>
    PROVE  /\ Tail(s) \in Seq(S) /\ Head(s) \in S
           /\ 1 \in DOMAIN s /\ s[1] = Head(s)
           /\ \A i \in DOMAIN Tail(s) : i + 1 \in DOMAIN s /\ i + 1 # 1 /\ Tail(s)[i] = s[i + 1]
           /\ \A i \in DOMAIN s : i # 1 => i - 1 \in DOMAIN Tail(s) /\ Tail(s)[i - 1] = s[i]
           /\ DOMAIN s \subseteq Nat /\ DOMAIN Tail(s) \subseteq Nat
<1>1. Len(s) \in Nat /\ DOMAIN s = 1 .. Len(s) /\ Len(s) # 0
  BY LenProperties, EmptySeq, Zenon
<1>2. Tail(s) \in Seq(S) /\ Head(s) \in S /\ Len(Tail(s)) = Len(s) - 1
  BY HeadTailProperties, Zenon
<1>3. DOMAIN Tail(s) = 1 .. Len(s) - 1
  BY <1>2, LenProperties, Zenon
<1>4. \A i \in 1 .. Len(s) - 1 : Tail(s)[i] = s[i + 1]
  BY <1>2, HeadTailProperties, Zenon
<1>5. QED
  BY <1>1, <1>2, <1>3, <1>4

\* A thread that goes on keeps its id.
LEMMA GoesKeepsId ==
    ASSUME RpcTypes, NEW t \in Callers, NEW pc \in {"idle", "id", "registered"}, Goes(t, pc)
    PROVE  /\ calling' \in [Callers -> {"idle", "id", "registered"} \X Nat]
           /\ calling'[t] = <<pc, calling[t][2]>>
           /\ \A u \in Callers : u # t => calling'[u] = calling[u]
<1> DEFINE P == {"idle", "id", "registered"} \X Nat
           n == calling[t][2]
<1>1. calling \in [Callers -> P]
  BY Zenon DEF RpcTypes
<1>2. calling[t] \in P
  BY <1>1, Zenon
<1>3. calling[t][1] \in {"idle", "id", "registered"} /\ n \in Nat /\ calling[t] = <<calling[t][1], n>>
  BY <1>2
<1>4. [calling[t] EXCEPT ![1] = pc] = <<pc, n>>
  <2>1. \A c, p, k : c = <<p, k>> => [c EXCEPT ![1] = pc] = <<pc, k>>
    OBVIOUS
  <2>2. \E p : calling[t] = <<p, n>>
    BY <1>3, Zenon
  <2> HIDE DEF n
  <2>3. QED
    BY <2>1, <2>2
<1>5. calling' = [calling EXCEPT ![t] = <<pc, n>>]
  BY <1>4, Zenon DEF Goes
<1>6. <<pc, n>> \in P
  BY <1>3, Zenon
<1>7. calling' \in [Callers -> P] /\ calling'[t] = <<pc, n>>
      /\ \A u \in Callers : u # t => calling'[u] = calling[u]
  <2> HIDE DEF P, n
  <2> QED
    BY <1>1, <1>5, <1>6, ZenonT(30)
<1>8. QED
  BY <1>7, Zenon

LEMMA InitRpcInv == RpcInit => RpcInv
  BY DEF RpcInit, RpcInv, RpcTypes, OnceEach, OnePlace, SomePlace, Registered, AtStep,
         Calling, Requested, Responded, Outcomes
\* CallMethod takes a fresh id, before it is anywhere else
\* (RpcChannel.cc:52-58).
LEMMA CallMethodKeeps ==
    ASSUME RpcInv, NEW t \in Callers, CallMethod(t) PROVE RpcInv'
<1> USE DEF RpcInv
<1>1. id_ \in Nat /\ id_' = id_ + 1 /\ client = "alive" /\ AtStep(t, "idle")
  BY Zenon DEF CallMethod, RpcTypes
<1>2. RpcTypes'
  BY DEF CallMethod, RpcTypes
<1>3. /\ calling'[t] = <<"id", id_ + 1>>
      /\ \A u \in Callers : u # t => calling'[u] = calling[u]
  BY Zenon DEF CallMethod, RpcTypes
<1>4. \A x \in Nat : Calling(x)' <=> Calling(x) \/ x = id_ + 1
  BY <1>1, <1>3 DEF Calling, AtStep
<1>5. \A x \in Nat : (Requested(x)' <=> Requested(x)) /\ (Responded(x)' <=> Responded(x))
  BY Zenon DEF Requested, Responded, CallMethod
<1>6. UNCHANGED <<outstandings_, requests, responses, serving, channel, client, ran>>
  BY Zenon DEF CallMethod
<1>7. id_ + 1 \in Nat /\ id_ + 1 \notin 1 .. id_ /\ 1 .. id_' = 1 .. id_ \cup {id_ + 1}
  BY <1>1, UpTo, Zenon
<1>8. OnceEach'
  <2>1. \A u \in Callers : ~AtStep(u, "idle") => calling[u][2] \in Nat /\ calling[u][2] \in 1 .. id_
    BY ZenonT(30) DEF OnePlace, RpcTypes, Calling
  <2>2. \A u \in Callers : ~AtStep(u, "idle") => calling[u][2] # id_ + 1
    BY <2>1, <1>7, Zenon
  <2>3. QED
    BY <2>2, <1>3, <1>6 DEF OnceEach, AtStep
<1>9. OnePlace'
  BY <1>4, <1>5, <1>6, <1>7, Zenon DEF OnePlace
<1>10. SomePlace'
  <2>1. \A x \in 1 .. id_' : x \in Nat /\ (x \in 1 .. id_ \/ x = id_ + 1)
    BY <1>1, <1>7, UpTo, Zenon
  <2>2. QED
    BY <2>1, <1>4, <1>5, <1>6, ZenonT(30) DEF SomePlace
<1>11. Registered'
  BY <1>3, <1>5, <1>6 DEF Registered, AtStep
<1>12. QED
  BY <1>1, <1>2, <1>6, <1>8, <1>9, <1>10, <1>11, Zenon

\* The map is written before the request is sent (RpcChannel.cc:64-69).
LEMMA RegistersKeeps ==
    ASSUME RpcInv, NEW t \in Callers, registers(t, "id", "registered"),
           UNCHANGED <<id_, responses, serving, channel, client, ran, lateDone>>
    PROVE  RpcInv'
<1> USE DEF RpcInv
<1>1. calling[t] \in {"idle", "id", "registered"} \X Nat /\ calling[t][1] = "id"
  BY Zenon DEF registers, RpcTypes, AtStep
<1>2. /\ calling' \in [Callers -> {"idle", "id", "registered"} \X Nat]
      /\ calling'[t] = <<"registered", calling[t][2]>>
      /\ \A u \in Callers : u # t => calling'[u] = calling[u]
  BY GoesKeepsId, ZenonT(30) DEF registers
<1>3. RpcTypes'
  BY <1>1, <1>2, Zenon DEF registers, RpcTypes
<1>4. \A u \in Callers : (AtStep(u, "idle")' <=> AtStep(u, "idle")) /\ calling'[u][2] = calling[u][2]
  BY ONLY <1>1, <1>2, t \in Callers DEF AtStep
<1>5. \A x \in Nat : (Calling(x)' <=> Calling(x)) /\ (Requested(x)' <=> Requested(x))
                                                /\ (Responded(x)' <=> Responded(x))
  BY <1>4, Zenon DEF Calling, Requested, Responded, registers
<1>6. outstandings_' = outstandings_ \cup {calling[t][2]} /\ requests' = requests
  BY ZenonT(30) DEF registers
<1>7. OnceEach'
  BY <1>4, <1>6, Zenon DEF OnceEach
<1>8. OnePlace'
  BY <1>5, Zenon DEF OnePlace
<1>9. SomePlace'
  <2>1. 1 .. id_ \subseteq Nat
    BY UpTo, ZenonT(30) DEF RpcTypes
  <2>2. QED
    BY <1>5, <2>1, ZenonT(30) DEF SomePlace
<1>10. Registered'
  BY <1>2, <1>5, <1>6 DEF Registered, AtStep
<1>11. QED
  BY <1>3, <1>4, <1>7, <1>8, <1>9, <1>10, ZenonT(30)
\* The request is sent with the lock released, and is lost when the
\* connection is down (RpcChannel.cc:69).
LEMMA CodecSendKeeps ==
    ASSUME RpcInv, NEW t \in Callers, codec_send(t, "registered", "idle"),
           UNCHANGED <<id_, responses, serving, channel, client, ran, lateDone>>
    PROVE  RpcInv'
<1> USE DEF RpcInv
<1> DEFINE id == calling[t][2]
<1>1. calling[t] \in {"idle", "id", "registered"} \X Nat /\ calling[t][1] = "registered" /\ id \in Nat
  BY ZenonT(30) DEF codec_send, RpcTypes, AtStep
<1>2. /\ calling' \in [Callers -> {"idle", "id", "registered"} \X Nat]
      /\ calling'[t] = <<"idle", id>>
      /\ \A u \in Callers : u # t => calling'[u] = calling[u]
  BY GoesKeepsId, Zenon DEF codec_send
<1>3. PICK o \in Outcomes : sends(<<id, o>>)
  BY Zenon DEF codec_send
<1>4. Calling(id) /\ outstandings_' = outstandings_ /\ client = "alive"
  BY <1>1, ZenonT(30) DEF Calling, AtStep, codec_send, RpcTypes
<1>5. \A x \in Nat : Calling(x)' <=> Calling(x) /\ x # id
  BY <1>1, <1>2 DEF Calling, AtStep, OnceEach
<1>6. \A x \in Nat : Responded(x)' <=> Responded(x)
  BY ZenonT(30) DEF Responded
<1>7. /\ requests' \in Seq(Nat \X Outcomes)
      /\ \A x \in Nat : Requested(x)' <=> Requested(x) \/ (channel = "alive" /\ x = id)
      /\ \A i, j \in DOMAIN requests' : requests'[i][1] = requests'[j][1] => i = j
  <2>0. ~Requested(id) /\ requests \in Seq(Nat \X Outcomes)
    BY <1>1, <1>4, ZenonT(30) DEF OnePlace, RpcTypes
  <2>1. CASE channel = "alive"
    <3>1. requests' = Append(requests, <<id, o>>) /\ <<id, o>> \in Nat \X Outcomes
      BY <2>1, <1>1, <1>3, ZenonT(30) DEF sends
    <3>2. /\ requests' \in Seq(Nat \X Outcomes)
          /\ DOMAIN requests' = DOMAIN requests \cup {Len(requests) + 1}
          /\ requests'[Len(requests) + 1] = <<id, o>>
          /\ \A i \in DOMAIN requests : requests'[i] = requests[i]
      BY <2>0, <3>1, OneMore
    <3>3. requests'[Len(requests) + 1][1] = id
      BY <3>2
    <3>4. QED
      BY <2>0, <2>1, <3>2, <3>3, ZenonT(30) DEF Requested, OnceEach
  <2>2. CASE channel # "alive"
    BY <2>0, <2>2, <1>3, ZenonT(30) DEF sends, Requested, OnceEach
  <2>3. QED
    BY <2>1, <2>2, ZenonT(30)
<1>8. RpcTypes'
  BY <1>2, <1>4, <1>7, ZenonT(30) DEF RpcTypes
<1>9. OnceEach'
  BY <1>2, <1>7 DEF OnceEach, AtStep
<1>10. OnePlace'
  BY <1>1, <1>4, <1>5, <1>6, <1>7, ZenonT(30) DEF OnePlace
<1>11. SomePlace'
  <2>1. 1 .. id_ \subseteq Nat
    BY UpTo, Zenon DEF RpcTypes
  <2>2. QED
    BY <2>1, <1>5, <1>6, <1>7, ZenonT(30) DEF SomePlace
<1>12. Registered'
  <2>1. id \in outstandings_
    BY <1>1, <1>4, Zenon DEF Registered, AtStep
  <2>2. \A u \in Callers : AtStep(u, "registered")' => AtStep(u, "registered") /\ calling'[u] = calling[u]
    BY <1>2 DEF AtStep
  <2> HIDE DEF id
  <2>3. QED
    BY <2>1, <2>2, <1>4, <1>6, <1>7, ZenonT(30) DEF Registered
<1>13. QED
  BY <1>4, <1>8, <1>9, <1>10, <1>11, <1>12, ZenonT(30)

\* The one response of a call takes it off the map and runs its closure
\* (RpcChannel.cc:95-118).
LEMMA ResponseKeeps == ASSUME RpcInv, onRpcMessage_RESPONSE PROVE RpcInv'
<1> USE DEF RpcInv
<1> DEFINE id == Head(responses)
<1>1. responses \in Seq(Nat) /\ responses # <<>> /\ responses' = Tail(responses) /\ client = "alive"
  BY Zenon DEF RpcTypes, onRpcMessage_RESPONSE
<1>2. /\ responses' \in Seq(Nat) /\ id \in Nat
      /\ 1 \in DOMAIN responses /\ responses[1] = id
      /\ \A i \in DOMAIN responses' :
            i + 1 \in DOMAIN responses /\ i + 1 # 1 /\ responses'[i] = responses[i + 1]
      /\ \A i \in DOMAIN responses :
            i # 1 => i - 1 \in DOMAIN responses' /\ responses'[i - 1] = responses[i]
      /\ DOMAIN responses \subseteq Nat /\ DOMAIN responses' \subseteq Nat
  BY <1>1, OneLess, ZenonT(30)
<1>3. Responded(id) /\ id \in outstandings_
  <2>1. Responded(id)
    BY <1>2, ZenonT(30) DEF Responded
  <2>2. QED
    BY <2>1, <1>1, <1>2, Zenon DEF Registered
<1>4. \A x \in Nat : Responded(x)' <=> Responded(x) /\ x # id
  <2> HIDE DEF id
  <2>1. ASSUME NEW x \in Nat, Responded(x)' PROVE Responded(x) /\ x # id
    <3>1. PICK i \in DOMAIN responses' : responses'[i] = x
      BY <2>1, Zenon DEF Responded
    <3>2. i + 1 \in DOMAIN responses /\ i + 1 # 1 /\ responses[i + 1] = x
      BY <1>2, <3>1, Zenon
    <3>3. QED
      BY <1>2, <3>2, ZenonT(30) DEF Responded, OnceEach
  <2>2. ASSUME NEW x \in Nat, Responded(x), x # id PROVE Responded(x)'
    <3>1. PICK i \in DOMAIN responses : responses[i] = x
      BY <2>2, Zenon DEF Responded
    <3>2. i - 1 \in DOMAIN responses' /\ responses'[i - 1] = x
      BY <1>2, <2>2, <3>1, Zenon
    <3>3. QED
      BY <3>2, Zenon DEF Responded
  <2> QED
    BY <2>1, <2>2, Zenon
<1>5. /\ outstandings_' = outstandings_ \ {id} /\ ran' = ran \cup {id}
      /\ UNCHANGED <<id_, calling, requests, serving, channel, client>>
  BY <1>3, Zenon DEF onRpcMessage_RESPONSE
<1>6. \A x \in Nat : (Calling(x)' <=> Calling(x)) /\ (Requested(x)' <=> Requested(x))
  BY <1>5, Zenon DEF Calling, Requested, AtStep
<1>7. RpcTypes'
  BY <1>2, <1>5, ZenonT(30) DEF RpcTypes
<1>8. OnceEach'
  <2>1. \A i, j \in DOMAIN responses' : responses'[i] = responses'[j] => i = j
    BY <1>2 DEF OnceEach
  <2>2. QED
    BY <2>1, <1>5, ZenonT(30) DEF OnceEach, AtStep
<1>9. OnePlace'
  BY <1>2, <1>3, <1>4, <1>5, <1>6 DEF OnePlace
<1>10. SomePlace'
  <2>1. 1 .. id_ \subseteq Nat
    BY UpTo, Zenon DEF RpcTypes
  <2>2. QED
    BY <2>1, <1>4, <1>5, <1>6, Zenon DEF SomePlace
<1>11. Registered'
  <2>1. \A t \in Callers : AtStep(t, "registered") => Calling(calling[t][2]) /\ calling[t][2] \in Nat
    BY Zenon DEF Calling, AtStep, RpcTypes
  <2>2. \A t \in Callers : AtStep(t, "registered") => calling[t][2] # id
    BY <2>1, <1>3, ZenonT(30) DEF OnePlace
  <2>3. QED
    BY <2>2, <1>2, <1>3, <1>4, <1>5, <1>6 DEF Registered, AtStep, OnePlace
<1>12. QED
  BY <1>5, <1>7, <1>8, <1>9, <1>10, <1>11, <1>1, Zenon
\* A reply is on its way once, unless the connection is down.
LEMMA RepliesHolds ==
    ASSUME RpcTypes, OnceEach, NEW id \in Nat, ~Responded(id), replies(id)
    PROVE  /\ responses' \in Seq(Nat)
           /\ \A x \in Nat : Responded(x)' <=> Responded(x) \/ (channel = "alive" /\ x = id)
           /\ \A i, j \in DOMAIN responses' : responses'[i] = responses'[j] => i = j
<1>1. responses \in Seq(Nat)
  BY ZenonT(30) DEF RpcTypes
<1>2. CASE channel = "alive"
  <2>1. /\ responses' \in Seq(Nat)
        /\ DOMAIN responses' = DOMAIN responses \cup {Len(responses) + 1}
        /\ responses'[Len(responses) + 1] = id
        /\ \A i \in DOMAIN responses : responses'[i] = responses[i]
    <3>1. responses' = Append(responses, id)
      BY <1>2, Zenon DEF replies
    <3>2. QED
      BY ONLY <1>1, <3>1, OneMore, id \in Nat
  <2>2. QED
    BY <1>2, <2>1, ZenonT(30) DEF Responded, OnceEach
<1>3. CASE channel # "alive"
  BY <1>1, <1>3, Zenon DEF replies, Responded, OnceEach
<1>4. QED
  BY <1>2, <1>3, Zenon

\* A service answers a call it holds (RpcChannel.cc:158-168).
LEMMA DoneCallbackKeeps == ASSUME RpcInv, NEW id \in Nat, doneCallback(id) PROVE RpcInv'
<1> USE DEF RpcInv
<1>1. id \in serving /\ serving' = serving \ {id} /\ ~Responded(id) /\ replies(id)
  BY Zenon DEF doneCallback, OnePlace
<1>2. UNCHANGED <<id_, outstandings_, calling, requests, channel, client, ran>>
  BY Zenon DEF doneCallback
<1>3. /\ responses' \in Seq(Nat)
      /\ \A x \in Nat : Responded(x)' <=> Responded(x) \/ (channel = "alive" /\ x = id)
      /\ \A i, j \in DOMAIN responses' : responses'[i] = responses'[j] => i = j
  BY <1>1, RepliesHolds, ZenonT(30)
<1>4. \A x \in Nat : (Calling(x)' <=> Calling(x)) /\ (Requested(x)' <=> Requested(x))
  BY <1>2, ZenonT(30) DEF Calling, Requested, AtStep
<1>5. RpcTypes'
  BY <1>1, <1>2, <1>3, ZenonT(30) DEF RpcTypes
<1>6. OnceEach'
  BY <1>2, <1>3, ZenonT(30) DEF OnceEach, AtStep
<1>7. OnePlace'
  BY <1>1, <1>2, <1>3, <1>4, Zenon DEF OnePlace
<1>8. SomePlace'
  <2>1. 1 .. id_ \subseteq Nat
    BY UpTo, Zenon DEF RpcTypes
  <2>2. QED
    BY <2>1, <1>1, <1>2, <1>3, <1>4, Zenon DEF SomePlace
<1>9. Registered'
  BY <1>1, <1>2, <1>3, <1>4, ZenonT(30) DEF Registered, AtStep
<1>10. QED
  BY <1>2, <1>5, <1>6, <1>7, <1>8, <1>9, Zenon DEF AtStep

\* A request goes to the service, or is answered with the error at once
\* (RpcChannel.cc:119-155).
LEMMA RequestKeeps == ASSUME RpcInv, onRpcMessage_REQUEST PROVE RpcInv'
<1> USE DEF RpcInv
<1> DEFINE id == requests[1][1]
           o == requests[1][2]
<1>1. /\ requests \in Seq(Nat \X Outcomes) /\ requests # <<>> /\ requests' = Tail(requests)
      /\ channel = "alive"
  BY Zenon DEF RpcTypes, onRpcMessage_REQUEST
<1>2. /\ requests' \in Seq(Nat \X Outcomes) /\ Head(requests) \in Nat \X Outcomes
      /\ 1 \in DOMAIN requests /\ requests[1] = Head(requests)
      /\ \A i \in DOMAIN requests' :
            i + 1 \in DOMAIN requests /\ i + 1 # 1 /\ requests'[i] = requests[i + 1]
      /\ \A i \in DOMAIN requests :
            i # 1 => i - 1 \in DOMAIN requests' /\ requests'[i - 1] = requests[i]
      /\ DOMAIN requests \subseteq Nat /\ DOMAIN requests' \subseteq Nat
  BY <1>1, OneLess, ZenonT(30)
<1>3. id \in Nat /\ answers(id, o) /\ UNCHANGED <<id_, outstandings_, calling, channel, client, ran>>
  BY <1>2, Zenon DEF onRpcMessage_REQUEST
<1>4. Requested(id)
  BY <1>2, Zenon DEF Requested
<1> HIDE DEF id, o
<1>5. \A x \in Nat : Requested(x)' <=> Requested(x) /\ x # id
  <2>1. \A i \in DOMAIN requests : requests[i][1] = id => i = 1
    BY <1>2, Zenon DEF OnceEach, id
  <2>2. ASSUME NEW x \in Nat, Requested(x)' PROVE Requested(x) /\ x # id
    <3>1. PICK i \in DOMAIN requests' : requests'[i][1] = x
      BY <2>2, ZenonT(30) DEF Requested
    <3>2. i + 1 \in DOMAIN requests /\ i + 1 # 1 /\ requests[i + 1][1] = x
      BY <3>1, <1>2, Zenon
    <3>3. QED
      BY <3>2, <2>1, Zenon DEF Requested
  <2>3. ASSUME NEW x \in Nat, Requested(x), x # id PROVE Requested(x)'
    <3>1. PICK i \in DOMAIN requests : requests[i][1] = x
      BY <2>3, Zenon DEF Requested
    <3>2. i # 1
      BY <3>1, <2>3, Zenon DEF id
    <3>3. i - 1 \in DOMAIN requests' /\ requests'[i - 1][1] = x
      BY <3>1, <3>2, <1>2, Zenon
    <3>4. QED
      BY <3>3, Zenon DEF Requested
  <2>4. QED
    BY <2>2, <2>3, ZenonT(30)
<1>6. \A x \in Nat : Calling(x)' <=> Calling(x)
  BY <1>3, Zenon DEF Calling, AtStep
<1>7. \A i, j \in DOMAIN requests' : requests'[i][1] = requests'[j][1] => i = j
  <2> SUFFICES ASSUME NEW i \in DOMAIN requests', NEW j \in DOMAIN requests',
                      requests'[i][1] = requests'[j][1]
               PROVE  i = j
    BY Zenon
  <2>1. /\ i + 1 \in DOMAIN requests /\ j + 1 \in DOMAIN requests /\ i \in Nat /\ j \in Nat
        /\ requests[i + 1][1] = requests[j + 1][1]
    BY <1>2, ZenonT(30)
  <2>2. i + 1 = j + 1
    BY <2>1, Zenon DEF OnceEach
  <2>3. QED
    BY <2>1, <2>2
<1>8. ~Calling(id) /\ ~Responded(id) /\ id \notin serving /\ id \notin ran /\ id \in 1 .. id_
  BY <1>3, <1>4, Zenon DEF OnePlace
<1>9. /\ responses' \in Seq(Nat) /\ serving' \subseteq Nat
      /\ \A i, j \in DOMAIN responses' : responses'[i] = responses'[j] => i = j
      /\ \/ /\ \A x \in Nat : Responded(x)' <=> Responded(x)
            /\ serving' = serving \cup {id}
         \/ /\ \A x \in Nat : Responded(x)' <=> Responded(x) \/ x = id
            /\ serving' = serving
  <2>1. CASE o = "NO_ERROR"
    BY <2>1, <1>3, Zenon DEF answers, Responded, RpcTypes, OnceEach
  <2>2. CASE o # "NO_ERROR"
    <3>1. replies(id) /\ serving' = serving
      BY <2>2, <1>3, Zenon DEF answers
    <3>2. QED
      BY <3>1, <1>1, <1>3, <1>8, RepliesHolds, ZenonT(30) DEF RpcTypes
  <2>3. QED
    BY <2>1, <2>2, Zenon
<1>10. RpcTypes'
  BY <1>2, <1>3, <1>9, Zenon DEF RpcTypes
<1>11. OnceEach'
  BY <1>3, <1>7, <1>9, ZenonT(30) DEF OnceEach, AtStep
<1>12. OnePlace'
  BY <1>3, <1>4, <1>5, <1>6, <1>8, <1>9, Zenon DEF OnePlace
<1>13. SomePlace'
  <2>1. 1 .. id_ \subseteq Nat
    BY UpTo, Zenon DEF RpcTypes
  <2>2. QED
    BY <2>1, <1>3, <1>5, <1>6, <1>9, ZenonT(30) DEF SomePlace
<1>14. Registered'
  BY <1>3, <1>4, <1>5, <1>9 DEF Registered, AtStep
<1>15. QED
  BY <1>3, <1>10, <1>11, <1>12, <1>13, <1>14, Zenon DEF AtStep
\* The connection goes down with what it carries.
LEMMA DownKeeps == ASSUME RpcInv, onConnection_down PROVE RpcInv'
<1> USE DEF RpcInv
<1>1. UNCHANGED <<id_, outstandings_, calling, serving, client, ran>> /\ channel' = "destroyed"
      /\ requests' = <<>> /\ responses' = <<>>
  BY Zenon DEF onConnection_down
<1>2. \A x \in Nat : (Calling(x)' <=> Calling(x)) /\ ~Requested(x)' /\ ~Responded(x)'
  BY <1>1, Nothing, ZenonT(30) DEF Calling, Requested, Responded, AtStep
<1>3. RpcTypes' /\ OnceEach' /\ SomePlace'
  <2>1. RpcTypes'
    BY <1>1, Nothing, ZenonT(30) DEF RpcTypes
  <2>2. OnceEach' /\ SomePlace'
    BY <1>1, Nothing, ZenonT(30) DEF OnceEach, SomePlace, AtStep
  <2>3. QED
    BY <2>1, <2>2, Zenon
<1>4. OnePlace' /\ Registered'
  BY <1>1, <1>2, Zenon DEF OnePlace, Registered, AtStep
<1>5. QED
  BY <1>1, <1>3, <1>4, Zenon DEF AtStep

\* The client's channel goes when none of its threads is in a call.
LEMMA DestroyKeeps == ASSUME RpcInv, destroy PROVE RpcInv'
<1> USE DEF RpcInv
<1>1. /\ UNCHANGED <<id_, calling, requests, responses, serving, channel, ran>>
      /\ client' = "destroyed" /\ outstandings_' = {} /\ \A t \in Callers : AtStep(t, "idle")
  BY ZenonT(30) DEF destroy
<1>2. \A x \in Nat : (Calling(x)' <=> Calling(x)) /\ (Requested(x)' <=> Requested(x))
                                                /\ (Responded(x)' <=> Responded(x))
  BY <1>1, Zenon DEF Calling, Requested, Responded, AtStep
<1>3. RpcTypes' /\ OnceEach' /\ SomePlace' /\ Registered'
  BY <1>1, ZenonT(30) DEF RpcTypes, OnceEach, SomePlace, Registered, AtStep
<1>4. OnePlace'
  BY <1>1, <1>2, Zenon DEF OnePlace
<1>5. QED
  BY <1>1, <1>3, <1>4, Zenon DEF AtStep

LEMMA NextRpcInv == RpcInv /\ [RpcNext]_rpcVars => RpcInv'
<1> SUFFICES ASSUME RpcInv, [RpcNext]_rpcVars PROVE RpcInv'
  BY Zenon
<1>1. CASE onRpcMessage_RESPONSE
  BY <1>1, ResponseKeeps, Zenon
<1>2. CASE onRpcMessage_REQUEST
  BY <1>2, RequestKeeps, Zenon
<1>3. CASE onConnection_down
  BY <1>3, DownKeeps, Zenon
<1>4. CASE destroy
  BY <1>4, DestroyKeeps, Zenon
<1>5. CASE \E t \in Callers : CallMethod(t) \/ CallMethod_rest(t)
  BY <1>5, CallMethodKeeps, RegistersKeeps, CodecSendKeeps, Zenon DEF CallMethod_rest, proceeds
<1>6. CASE \E id \in Ids : doneCallback(id)
  BY <1>6, DoneCallbackKeeps, RpcAssumption DEF Ids
<1>7. CASE UNCHANGED rpcVars
  BY <1>7, ZenonT(30) DEF rpcVars, RpcInv, RpcTypes, OnceEach, OnePlace, SomePlace, Registered, AtStep,
              Calling, Requested, Responded
<1>8. QED
  BY <1>1, <1>2, <1>3, <1>4, <1>5, <1>6, <1>7, Zenon DEF RpcNext

LEMMA RpcInvImplies == RpcInv => OneResponsePerCall
<1> SUFFICES ASSUME RpcInv PROVE OneResponsePerCall
  BY Zenon
<1> USE DEF RpcInv
<1>1. ResponseFindsCall
  <2>1. \A i \in DOMAIN responses : responses[i] \in Nat /\ Responded(responses[i])
    BY DEF RpcTypes, Responded
  <2>2. QED
    BY <2>1, Zenon DEF ResponseFindsCall, OnceEach, Registered
<1>2. CallsAccounted
  <2> SUFFICES ASSUME channel = "alive", client = "alive", NEW id \in 1 .. id_
               PROVE  LET places == {p \in {"caller", "request", "service", "response"} :
                                        \/ p = "caller" /\ Calling(id)
                                        \/ p = "request" /\ Requested(id)
                                        \/ p = "service" /\ id \in serving
                                        \/ p = "response" /\ Responded(id)}
                      IN IF id \in ran THEN places = {} ELSE \E p \in places : places = {p}
    BY ZenonT(30) DEF CallsAccounted, Calling, Requested, Responded
  <2>1. id \in Nat
    BY DEF RpcTypes
  <2>2. Calling(id) \/ Requested(id) \/ id \in serving \/ Responded(id) \/ id \in ran
    BY ZenonT(30) DEF SomePlace
  <2>3. /\ Calling(id) => ~Requested(id) /\ id \notin serving /\ ~Responded(id) /\ id \notin ran
        /\ Requested(id) => id \notin serving /\ ~Responded(id) /\ id \notin ran
        /\ id \in serving => ~Responded(id) /\ id \notin ran
        /\ Responded(id) => id \notin ran
    BY <2>1, Zenon DEF OnePlace
  <2>4. QED
    BY <2>2, <2>3, Zenon
<1>3. QED
  BY <1>1, <1>2, Zenon DEF OneResponsePerCall

(***************************************************************************)
(* Whatever the number of threads and calls and whatever the order the     *)
(* services answer in, every call is in one place until its closure runs,  *)
(* and its one response finds it in outstandings_.                         *)
(***************************************************************************)
THEOREM OneResponsePerCallTheorem == RpcSpec => []OneResponsePerCall
<1>1. RpcInit => RpcInv
  BY InitRpcInv, Zenon
<1>2. RpcInv /\ [RpcNext]_rpcVars => RpcInv'
  BY NextRpcInv, Zenon
<1>3. RpcInv => OneResponsePerCall
  BY RpcInvImplies, Zenon
<1>4. QED
  BY <1>1, <1>2, <1>3, PTL DEF RpcSpec
=============================================================================
