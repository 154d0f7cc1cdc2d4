------------------------ MODULE TcpConnectionProofs ------------------------
(***************************************************************************)
(* OutputIntact, DestroyedClean and ClosesInOrder, proved for any threads, *)
(* any message size and any number of calls.                               *)
(***************************************************************************)
EXTENDS TcpConnection, TLAPS

Calls == {"send", "shutdown", "forceClose", "withDelay"}
Functors == [f : Shared \cup {"send", "shutdown", "startRead", "stopRead"}, by : Users \cup {Loop}, n : Nat]
Messages == [by : Users \cup {Loop}, n : Nat]

ConnTypes ==
    /\ state_ \in {"kConnecting", "kConnected", "kDisconnecting", "kDisconnected"}
    /\ events \subseteq {"in", "out"} /\ revents \subseteq DOMAIN stages
    /\ registered \in BOOLEAN /\ added \in BOOLEAN /\ writeShut \in BOOLEAN
    /\ batch \in Int /\ batch <= Len(tasks)
    /\ userAt \in [Users -> Calls \cup {"idle"}] /\ userRef \subseteq Users
    /\ owner \in {"holds", "removing", "released"}
    /\ downs \in Nat /\ lapses \subseteq Lapses

\* The bytes of S are whole messages in order, of calls made: c calls.
Whole(S, c) ==
    /\ \A i \in 1 .. Len(S) : \E a \in 0 .. Len(S) - Size :
          \A j \in 1 .. Len(S) : S[j] = S[i] <=> j \in a + 1 .. a + Size
    /\ \A i, j \in 1 .. Len(S) : i < j /\ (S[i].by = Loop <=> S[j].by = Loop) => S[i].n <= S[j].n
    /\ \A i \in 1 .. Len(S) : S[i].n <= c

\* A message that waits in the queue q comes after those of S that were
\* queued, and after those that wait before it.
Fresh(q, S, c) ==
    /\ \A i \in DOMAIN q : q[i].f = "send" =>
          /\ q[i].by # Loop /\ q[i].n <= c
          /\ \A j \in 1 .. Len(S) : S[j].by # Loop => S[j].n < q[i].n
    /\ \A i, j \in DOMAIN q : q[i].f = "send" /\ q[j].f = "send" /\ i < j => q[i].n < q[j].n

\* A functor with a bare "this" comes from a thread that holds a pointer,
\* as long as none has let go too early.
Holders == IF bareThis = "safe" THEN userRef ELSE Users
Bare(q, R) == \A i \in DOMAIN q : q[i].f \notin Shared => q[i].by \in R

\* connectEstablished is run once, and first.
First(q, state) == \A i \in DOMAIN q : q[i].f = "established" => i = 1 /\ state = "kConnecting"

Removed(q) == \E i \in DOMAIN q : q[i].f = "destroyed"

\* Until connectEstablished has run, nothing else of the connection has.
NotYet == state_ = "kConnecting" =>
    /\ events = {} /\ outputBuffer_ = <<>> /\ revents = {} /\ callback = "none"
    /\ ~registered /\ tasks # <<>> /\ tasks[1].f = "established"
    /\ \A u \in Users : userAt[u] = "idle"

\* As long as there was no lapse state_, the channel and the owner agree.
Agreed ==
    /\ WritesWhenNeeded
    /\ state_ = "kDisconnected" => ~registered /\ revents \subseteq {"error", "write"}
    /\ downs = IF state_ = "kDisconnected" THEN 1 ELSE 0
    /\ Open => added
    /\ callback = "destroying" => state_ = "kDisconnected"
    /\ owner = "released" =>
          Removed(tasks) \/ callback = "destroying" \/ (state_ = "kDisconnected" /\ ~added)

\* The output and the queue,
Core == /\ tasks \in Seq(Functors) /\ wire \in Seq(Messages) /\ outputBuffer_ \in Seq(Messages) /\ calls \in Nat
        /\ Whole(Sent, calls) /\ Fresh(tasks, Sent, calls)
        /\ Bare(tasks, Holders) /\ First(tasks, state_)

\* and the rest.
Rest == /\ NotYet /\ \A u \in Users : userAt[u] # "idle" => u \in userRef
        /\ "close" \notin revents \/ "read" \notin revents
        /\ lapses = {} => Agreed

ConnInv == ConnTypes /\ Core /\ Rest
-----------------------------------------------------------------------------
\* What the operations on queues return; SequenceTheorems has these facts and
\* many more, which would be in the context of every step below.
LEMMA EmptySeq ==
    ASSUME NEW S
    PROVE  <<>> \in Seq(S) /\ Len(<<>>) = 0 /\ \A q \in Seq(S) : q # <<>> => Len(q) \in Nat \ {0}
    OBVIOUS

LEMMA LenProperties ==
    ASSUME NEW S, NEW q \in Seq(S)
    PROVE  Len(q) \in Nat /\ DOMAIN q = 1 .. Len(q) /\ q \in [1 .. Len(q) -> S]
    OBVIOUS

LEMMA ElementOfSeq ==
    ASSUME NEW S, NEW q \in Seq(S), NEW i \in 1 .. Len(q)
    PROVE  q[i] \in S
    OBVIOUS

LEMMA HeadTailProperties ==
    ASSUME NEW S, NEW q \in Seq(S), q # <<>>
    PROVE  /\ Head(q) \in S /\ Tail(q) \in Seq(S) /\ Len(Tail(q)) = Len(q) - 1
           /\ \A i \in 1 .. Len(Tail(q)) : Tail(q)[i] = q[i + 1]
    OBVIOUS

LEMMA AppendProperties ==
    ASSUME NEW S, NEW q \in Seq(S), NEW x \in S
    PROVE  /\ Append(q, x) \in Seq(S) /\ Append(q, x) # <<>> /\ Len(Append(q, x)) = Len(q) + 1
           /\ Append(q, x)[Len(q) + 1] = x /\ \A i \in 1 .. Len(q) : Append(q, x)[i] = q[i]
    OBVIOUS

LEMMA SeqEqual ==
    ASSUME NEW S, NEW s \in Seq(S), NEW t \in Seq(S), Len(s) = Len(t), \A i \in 1 .. Len(s) : s[i] = t[i]
    PROVE  s = t
    OBVIOUS

LEMMA ConcatProperties ==
    ASSUME NEW S, NEW s \in Seq(S), NEW t \in Seq(S)
    PROVE  /\ s \o t \in Seq(S) /\ Len(s \o t) = Len(s) + Len(t)
           /\ \A i \in 1 .. Len(s) + Len(t) : (s \o t)[i] = IF i <= Len(s) THEN s[i] ELSE t[i - Len(s)]
    OBVIOUS

LEMMA ConcatEmptySeq ==
    ASSUME NEW S, NEW q \in Seq(S)
    PROVE  q \o <<>> = q /\ <<>> \o q = q
    OBVIOUS

LEMMA SubSeqProperties ==
    ASSUME NEW S, NEW q, NEW m \in Int, NEW n \in Int, \A i \in m .. n : q[i] \in S
    PROVE  /\ SubSeq(q, m, n) \in Seq(S) /\ Len(SubSeq(q, m, n)) = IF m <= n THEN n - m + 1 ELSE 0
           /\ \A i \in 1 .. n - m + 1 : SubSeq(q, m, n)[i] = q[m + i - 1]
    OBVIOUS
-----------------------------------------------------------------------------

\* An appended element is the last, the others stay where they are.
LEMMA AppendHolds ==
    ASSUME NEW S, NEW s \in Seq(S), NEW x \in S
    PROVE  /\ Append(s, x) \in Seq(S) /\ Len(Append(s, x)) = Len(s) + 1
           /\ DOMAIN Append(s, x) = DOMAIN s \cup {Len(s) + 1} /\ Len(s) + 1 \notin DOMAIN s
           /\ Append(s, x)[Len(s) + 1] = x
           /\ \A i \in DOMAIN s : Append(s, x)[i] = s[i]
<1>1. Len(s) \in Nat /\ DOMAIN s = 1 .. Len(s)
  BY LenProperties, Zenon
<1>2. DOMAIN Append(s, x) = 1 .. Len(s) + 1
  BY AppendProperties, LenProperties
<1>3. QED
  BY <1>1, <1>2, AppendProperties

\* Tail drops the first element and keeps the others.
LEMMA TailHolds ==
    ASSUME NEW S, NEW s \in Seq(S), s # <<>>
    PROVE  /\ Tail(s) \in Seq(S) /\ Head(s) \in S /\ Len(Tail(s)) = Len(s) - 1
           /\ 1 \in DOMAIN s /\ s[1] = Head(s)
           /\ \A i \in DOMAIN Tail(s) : i + 1 \in DOMAIN s /\ i + 1 # 1 /\ Tail(s)[i] = s[i + 1]
           /\ \A i \in DOMAIN s : i # 1 => i - 1 \in DOMAIN Tail(s) /\ Tail(s)[i - 1] = s[i]
           /\ DOMAIN s \subseteq Nat /\ DOMAIN Tail(s) \subseteq Nat
<1>1. Len(s) \in Nat /\ DOMAIN s = 1 .. Len(s) /\ Len(s) # 0
  BY LenProperties, EmptySeq, Zenon
<1>2. Tail(s) \in Seq(S) /\ Head(s) \in S /\ Len(Tail(s)) = Len(s) - 1
  BY HeadTailProperties, Zenon
<1>3. DOMAIN Tail(s) = 1 .. Len(s) - 1
  BY <1>2, LenProperties, Zenon
<1>4. \A i \in 1 .. Len(s) - 1 : Tail(s)[i] = s[i + 1]
  BY <1>2, HeadTailProperties, Zenon
<1>5. QED
  BY <1>1, <1>2, <1>3, <1>4

\* What the queue promises holds of what is left when a functor is taken.
LEMMA TailQueue ==
    ASSUME NEW q \in Seq(Functors), q # <<>>, NEW S, NEW c, NEW R, NEW st, NEW st2,
           Fresh(q, S, c), Bare(q, R), First(q, st)
    PROVE  /\ Tail(q) \in Seq(Functors) /\ Len(Tail(q)) = Len(q) - 1 /\ q[1] = Head(q) /\ Head(q) \in Functors
           /\ Fresh(Tail(q), S, c) /\ Bare(Tail(q), R) /\ First(Tail(q), st2)
           /\ Head(q).f # "destroyed" => (Removed(q) => Removed(Tail(q)))
           /\ Head(q).f = "send" =>
                /\ Head(q).by # Loop /\ Head(q).n <= c
                /\ \A j \in 1 .. Len(S) : S[j].by # Loop => S[j].n < Head(q).n
                /\ \A i \in DOMAIN Tail(q) : Tail(q)[i].f = "send" => Head(q).n < Tail(q)[i].n
<1> DEFINE t == Tail(q)
           h == Head(q)
<1>1. /\ t \in Seq(Functors) /\ h \in Functors /\ Len(t) = Len(q) - 1 /\ 1 \in DOMAIN q /\ q[1] = h
      /\ \A i \in DOMAIN t : i + 1 \in DOMAIN q /\ i + 1 # 1 /\ t[i] = q[i + 1]
      /\ \A i \in DOMAIN q : i # 1 => i - 1 \in DOMAIN t /\ t[i - 1] = q[i]
      /\ DOMAIN q \subseteq Nat /\ DOMAIN t \subseteq Nat
  BY TailHolds, Zenon
<1> HIDE DEF t, h
<1>0. /\ \A i, j \in DOMAIN t : i < j => i + 1 < j + 1
      /\ \A i \in DOMAIN t : 1 < i + 1
  <2>1. \A i \in DOMAIN t : i \in Nat /\ i + 1 # 1
    BY <1>1, Zenon
  <2>2. QED
    BY ONLY <2>1
<1>2. Fresh(t, S, c)
  <2>1. ASSUME NEW i \in DOMAIN t, t[i].f = "send"
        PROVE  t[i].by # Loop /\ t[i].n <= c /\ \A j \in 1 .. Len(S) : S[j].by # Loop => S[j].n < t[i].n
    <3>1. PICK k \in DOMAIN q : t[i] = q[k]
      BY <1>1, Zenon
    <3>2. QED
      BY <2>1, <3>1, Zenon DEF Fresh
  <2>2. ASSUME NEW i \in DOMAIN t, NEW j \in DOMAIN t, t[i].f = "send", t[j].f = "send", i < j
        PROVE  t[i].n < t[j].n
    <3>1. PICK k \in DOMAIN q, l \in DOMAIN q : t[i] = q[k] /\ t[j] = q[l] /\ k < l
      BY <1>0, <1>1, <2>2, Zenon
    <3>2. QED
      BY <2>2, <3>1, Zenon DEF Fresh
  <2>3. QED
    BY <2>1, <2>2, Zenon DEF Fresh
<1>3. Bare(t, R) /\ First(t, st2)
  BY <1>1, ZenonT(30) DEF Bare, First
<1>4. h.f # "destroyed" => (Removed(q) => Removed(t))
  BY <1>1 DEF Removed
<1>5. h.f = "send" =>
         /\ h.by # Loop /\ h.n <= c /\ \A j \in 1 .. Len(S) : S[j].by # Loop => S[j].n < h.n
         /\ \A i \in DOMAIN t : t[i].f = "send" => h.n < t[i].n
  BY <1>0, <1>1, Zenon DEF Fresh
<1>6. QED
  BY <1>1, <1>2, <1>3, <1>4, <1>5, Zenon DEF t, h

\* A functor can be queued at any time, a message with a new number.
LEMMA AppendQueue ==
    ASSUME NEW q \in Seq(Functors), NEW m \in Functors, NEW S, NEW c \in Nat, NEW d \in Nat, NEW R, NEW st,
           Fresh(q, S, c), Bare(q, R), First(q, st), c <= d,
           m.f = "send" => m.by # Loop /\ m.n > c /\ m.n <= d /\ (\A i \in 1 .. Len(S) : S[i].n < m.n),
           m.f \notin Shared => m.by \in R, m.f # "established"
    PROVE  /\ Append(q, m) \in Seq(Functors) /\ Len(Append(q, m)) = Len(q) + 1
           /\ Fresh(Append(q, m), S, d) /\ Bare(Append(q, m), R) /\ First(Append(q, m), st)
           /\ Removed(q) \/ m.f = "destroyed" => Removed(Append(q, m))
           /\ q # <<>> => Append(q, m) # <<>> /\ Append(q, m)[1] = q[1]
<1> DEFINE t == Append(q, m)
           e == Len(q) + 1
<1>1. /\ t \in Seq(Functors) /\ Len(t) = e /\ DOMAIN t = DOMAIN q \cup {e} /\ e \notin DOMAIN q
      /\ t[e] = m /\ \A i \in DOMAIN q : t[i] = q[i]
  BY AppendHolds
<1>2. \A i \in DOMAIN q : q[i] \in Functors
  BY LenProperties, ElementOfSeq, Zenon
<1>3. q # <<>> => 1 \in DOMAIN q /\ t # <<>>
  BY LenProperties, EmptySeq
<1> HIDE DEF t, e
<1>4. Fresh(t, S, d)
  <2>1. \A i \in DOMAIN q : q[i].n \in Nat
    BY <1>2, Zenon DEF Functors
  <2>2. m.n \in Nat
    BY Zenon DEF Functors
  <2>3. \A i \in DOMAIN q : q[i].f = "send" => q[i].n <= c
    BY Zenon DEF Fresh
  <2>4. /\ \A i \in DOMAIN q : q[i].f = "send" => q[i].n <= d
        /\ \A i \in DOMAIN q : q[i].f = "send" /\ m.f = "send" => q[i].n < m.n
        /\ \A i \in DOMAIN q : ~(e < i)
    BY <2>1, <2>2, <2>3, LenProperties DEF e
  <2>5. \A i \in DOMAIN t : t[i].f = "send" =>
           t[i].by # Loop /\ t[i].n <= d /\ \A j \in 1 .. Len(S) : S[j].by # Loop => S[j].n < t[i].n
    BY <1>1, <2>4, ZenonT(30) DEF Fresh
  <2>7. ~(e < e)
    BY LenProperties DEF e
  <2>8. \A i, j \in DOMAIN t : t[i].f = "send" /\ t[j].f = "send" /\ i < j => t[i].n < t[j].n
    BY <1>1, <2>4, <2>7, ZenonT(30) DEF Fresh
  <2>9. QED
    BY <2>5, <2>8, Zenon DEF Fresh
<1>5. Bare(t, R) /\ First(t, st) /\ (Removed(q) \/ m.f = "destroyed" => Removed(t))
  BY <1>1, Zenon DEF Bare, First, Removed
<1>6. QED
  BY <1>1, <1>3, <1>4, <1>5, Zenon DEF t, e
-----------------------------------------------------------------------------
\* A whole message that is new and comes last, added to whole messages.
LEMMA MoreWhole ==
    ASSUME NEW S \in Seq(Messages), NEW T \in Seq(Messages), NEW m \in Messages, NEW c \in Nat, NEW d \in Nat,
           Whole(S, c), c <= d, m.n <= d,
           \A i \in 1 .. Len(S) : S[i] # m /\ ((S[i].by = Loop <=> m.by = Loop) => S[i].n <= m.n),
           Len(T) = Len(S) + Size,
           \A i \in 1 .. Len(S) : T[i] = S[i],
           \A i \in Len(S) + 1 .. Len(T) : T[i] = m
    PROVE  Whole(T, d)
<1> DEFINE l == Len(S)
<1>0. Size \in Nat /\ Size > 0 /\ l \in Nat /\ Len(T) \in Nat /\ Len(T) = l + Size
  BY ConnAssumption, LenProperties
<1>1. /\ \A i \in 1 .. l : S[i].n \in Nat
      /\ m.n \in Nat
  <2>1. \A i \in 1 .. l : S[i] \in Messages
    BY ElementOfSeq, Zenon
  <2>2. QED
    BY <2>1, Zenon DEF Messages
<1> HIDE DEF l
<1>2. /\ \A i \in 1 .. Len(T) : i \in 1 .. l \/ i \in l + 1 .. l + Size
      /\ \A i \in l + 1 .. l + Size : i \notin 1 .. l
      /\ \A i \in 1 .. l : i \notin l + 1 .. l + Size
      /\ \A i \in l + 1 .. l + Size : \A j \in 1 .. l : ~(i < j)
      /\ l \in 0 .. Len(T) - Size
      /\ \A a \in 0 .. l - Size :
            a \in 0 .. Len(T) - Size /\ \A j \in l + 1 .. l + Size : j \notin a + 1 .. a + Size
  BY <1>0
<1>3. /\ \A i \in 1 .. l : T[i] = S[i] /\ T[i] # m
      /\ \A i \in l + 1 .. l + Size : T[i] = m
  BY <1>0, Zenon DEF l
<1>4. ASSUME NEW i \in 1 .. Len(T)
      PROVE  \E a \in 0 .. Len(T) - Size : \A j \in 1 .. Len(T) : T[j] = T[i] <=> j \in a + 1 .. a + Size
  <2>1. CASE i \in 1 .. l
    <3>1. PICK a \in 0 .. l - Size : \A j \in 1 .. l : S[j] = S[i] <=> j \in a + 1 .. a + Size
      BY <2>1, Zenon DEF Whole, l
    <3>2. \A j \in 1 .. Len(T) : T[j] = T[i] <=> j \in a + 1 .. a + Size
      BY <2>1, <3>1, <1>2, <1>3, Zenon
    <3>3. QED
      BY <3>2, <1>2, Zenon
  <2>2. CASE i \in l + 1 .. l + Size
    <3>1. \A j \in 1 .. Len(T) : T[j] = T[i] <=> j \in l + 1 .. l + Size
      BY <2>2, <1>2, <1>3, Zenon
    <3>2. QED
      BY <3>1, <1>2, Zenon
  <2>3. QED
    BY <2>1, <2>2, <1>2, Zenon
<1>5. \A i, j \in 1 .. Len(T) : i < j /\ (T[i].by = Loop <=> T[j].by = Loop) => T[i].n <= T[j].n
  <2>1. m.n <= m.n
    BY <1>1
  <2>2. /\ \A i, j \in 1 .. l : i < j /\ (S[i].by = Loop <=> S[j].by = Loop) => S[i].n <= S[j].n
        /\ \A i \in 1 .. l : (S[i].by = Loop <=> m.by = Loop) => S[i].n <= m.n
    BY Zenon DEF Whole, l
  <2>3. QED
    BY <1>2, <1>3, <2>1, <2>2, ZenonT(30)
<1>6. \A i \in 1 .. Len(T) : T[i].n <= d
  <2>1. \A i \in 1 .. l : S[i].n <= c
    BY Zenon DEF Whole, l
  <2>2. \A i \in 1 .. l : S[i].n <= d
    BY <1>1, <2>1
  <2>3. QED
    BY <1>2, <1>3, <2>2, Zenon
<1>7. QED
  BY <1>4, <1>5, <1>6, Zenon DEF Whole

\* Concatenation, element by element.
LEMMA CatHolds ==
    ASSUME NEW s \in Seq(Messages), NEW t \in Seq(Messages)
    PROVE  /\ s \o t \in Seq(Messages) /\ Len(s \o t) = Len(s) + Len(t)
           /\ \A i \in 1 .. Len(s) : (s \o t)[i] = s[i]
           /\ \A i \in 1 .. Len(t) : (s \o t)[Len(s) + i] = t[i]
<1>1. Len(s) \in Nat /\ Len(t) \in Nat
  BY LenProperties, Zenon
<1>2. /\ s \o t \in Seq(Messages) /\ Len(s \o t) = Len(s) + Len(t)
      /\ \A i \in 1 .. Len(s) + Len(t) :
            (s \o t)[i] = IF i <= Len(s) THEN s[i] ELSE t[i - Len(s)]
  BY ConcatProperties, Zenon
<1>3. QED
  BY <1>1, <1>2

\* s and then x, k times over.
LEMMA RunHolds ==
    ASSUME NEW s \in Seq(Messages), NEW x \in Messages, NEW k \in Nat, NEW t, t = s \o [i \in 1 .. k |-> x]
    PROVE  /\ t \in Seq(Messages) /\ Len(t) = Len(s) + k
           /\ \A i \in 1 .. Len(s) : t[i] = s[i]
           /\ \A i \in 1 .. k : t[Len(s) + i] = x
<1> DEFINE r == [i \in 1 .. k |-> x]
<1>1. r \in Seq(Messages) /\ Len(r) = k /\ \A i \in 1 .. k : r[i] = x
  OBVIOUS
<1> HIDE DEF r
<1>2. /\ s \o r \in Seq(Messages) /\ Len(s \o r) = Len(s) + Len(r)
      /\ \A i \in 1 .. Len(s) : (s \o r)[i] = s[i]
      /\ \A i \in 1 .. Len(r) : (s \o r)[Len(s) + i] = r[i]
  BY <1>1, CatHolds, Zenon
<1>3. t = s \o r
  BY Zenon DEF r
<1>4. /\ t \in Seq(Messages) /\ Len(t) = Len(s) + k
      /\ \A i \in 1 .. Len(s) : t[i] = s[i]
      /\ \A i \in 1 .. k : t[Len(s) + i] = r[i]
  BY <1>1, <1>2, <1>3, Zenon
<1>5. QED
  BY <1>1, <1>4, Zenon

\* sendInLoop adds the whole message x to what is sent, part of it at once

\* and the rest later, or nothing; and never part of it before older output
\* (TcpConnection.cc:134-192).
LEMMA SendsWhole ==
    ASSUME Core, NEW x \in Messages, NEW q, NEW direct, sends(x, q, direct),
           direct => outputBuffer_ = <<>>
    PROVE  /\ wire' \in Seq(Messages) /\ outputBuffer_' \in Seq(Messages)
           /\ Sent \in Seq(Messages) /\ Sent' \in Seq(Messages)
           /\ \/ Sent' = Sent
              \/ /\ Len(Sent') = Len(Sent) + Size
                 /\ \A i \in 1 .. Len(Sent) : Sent'[i] = Sent[i]
                 /\ \A i \in Len(Sent) + 1 .. Len(Sent') : Sent'[i] = x
<1> DEFINE w == Len(wire)
           b == Len(outputBuffer_)
<1>0. /\ wire \in Seq(Messages) /\ outputBuffer_ \in Seq(Messages) /\ w \in Nat /\ b \in Nat
      /\ Size \in Nat /\ Size > 0
  BY LenProperties, ConnAssumption DEF Core
<1>1. /\ Sent \in Seq(Messages) /\ Len(Sent) = w + b
      /\ \A i \in 1 .. w : Sent[i] = wire[i]
      /\ \A i \in 1 .. b : Sent[w + i] = outputBuffer_[i]
  BY <1>0, CatHolds, Zenon DEF Sent
<1>2. CASE UNCHANGED <<outputBuffer_, wire>>
  BY <1>0, <1>1, <1>2, Zenon DEF Sent
<1>3. ASSUME NEW k \in 0 .. Size, k # 0 => outputBuffer_ = <<>>,
             wire' = wire \o [i \in 1 .. k |-> x],
             outputBuffer_' = outputBuffer_ \o [i \in 1 .. Size - k |-> x]
      PROVE  /\ wire' \in Seq(Messages) /\ outputBuffer_' \in Seq(Messages) /\ Sent' \in Seq(Messages)
             /\ Len(Sent') = Len(Sent) + Size
             /\ \A i \in 1 .. Len(Sent) : Sent'[i] = Sent[i]
             /\ \A i \in Len(Sent) + 1 .. Len(Sent') : Sent'[i] = x
  <2>0. k \in Nat /\ Size - k \in Nat
    BY <1>0
  <2>1. /\ wire' \in Seq(Messages) /\ Len(wire') = w + k
        /\ \A i \in 1 .. w : wire'[i] = wire[i]
        /\ \A i \in 1 .. k : wire'[w + i] = x
    BY <1>0, <2>0, <1>3, RunHolds
  <2> DEFINE m == Size - k
  <2>2. /\ outputBuffer_' \in Seq(Messages) /\ Len(outputBuffer_') = b + (Size - k)
        /\ \A i \in 1 .. b : outputBuffer_'[i] = outputBuffer_[i]
        /\ \A i \in 1 .. Size - k : outputBuffer_'[b + i] = x
    <3>1. m \in Nat /\ outputBuffer_' = outputBuffer_ \o [i \in 1 .. m |-> x]
      BY <2>0, <1>3, Zenon
    <3> HIDE DEF m
    <3>2. /\ outputBuffer_' \in Seq(Messages) /\ Len(outputBuffer_') = b + m
          /\ \A i \in 1 .. b : outputBuffer_'[i] = outputBuffer_[i]
          /\ \A i \in 1 .. m : outputBuffer_'[b + i] = x
      BY <1>0, <3>1, RunHolds
    <3>3. QED
      BY <3>2, Zenon DEF m
  <2>3. /\ Sent' \in Seq(Messages) /\ Len(Sent') = Len(wire') + Len(outputBuffer_')
        /\ \A i \in 1 .. Len(wire') : Sent'[i] = wire'[i]
        /\ \A i \in 1 .. Len(outputBuffer_') : Sent'[Len(wire') + i] = outputBuffer_'[i]
    BY <2>1, <2>2, CatHolds, Zenon DEF Sent
  <2>4. k # 0 => b = 0
    BY <1>3
  <2> HIDE DEF w, b
  <2>5. Len(Sent') = Len(Sent) + Size
    BY <1>0, <1>1, <2>0, <2>1, <2>2, <2>3
  <2>6. ASSUME NEW i \in 1 .. Len(Sent) PROVE Sent'[i] = Sent[i]
    <3>1. CASE i \in 1 .. w
      <4>1. i \in 1 .. Len(wire')
        BY <3>1, <2>1, <1>0, <2>0
      <4>2. QED
        BY <3>1, <4>1, <1>1, <2>1, <2>3, Zenon
    <3>2. CASE i > w
      <4>1. i - w \in 1 .. b /\ i = w + (i - w) /\ k = 0
        BY <3>2, <1>0, <1>1, <2>0, <2>4
      <4>2. PICK j \in 1 .. b : i = w + j
        BY <4>1, Zenon
      <4>3. j \in 1 .. Len(outputBuffer_') /\ i = Len(wire') + j
        BY <4>1, <4>2, <2>1, <2>2, <1>0, <2>0
      <4>4. Sent'[i] = outputBuffer_'[j] /\ outputBuffer_'[j] = outputBuffer_[j]
        BY <4>3, <2>2, <2>3, Zenon
      <4>5. QED
        BY <4>2, <4>4, <1>1, Zenon
    <3>3. QED
      BY <3>1, <3>2, <1>0, <1>1
  <2>7. ASSUME NEW i \in Len(Sent) + 1 .. Len(Sent') PROVE Sent'[i] = x
    <3>1. CASE i <= w + k
      <4>1. i - w \in 1 .. k /\ i = w + (i - w) /\ i \in 1 .. Len(wire')
        BY <3>1, <1>0, <1>1, <2>0, <2>1, <2>5
      <4>2. QED
        BY <4>1, <2>1, <2>3, Zenon
    <3>2. CASE i > w + k
      <4> DEFINE j == i - (w + k)
      <4>1. /\ j \in 1 .. Len(outputBuffer_') /\ i = Len(wire') + j
            /\ j - b \in 1 .. Size - k /\ j = b + (j - b)
        BY <3>2, <1>0, <1>1, <2>0, <2>1, <2>2, <2>4, <2>5
      <4>2. QED
        BY <4>1, <2>2, <2>3, SMTT(30)
    <3>3. QED
      BY <3>1, <3>2, <1>0, <2>0, <1>1, <2>5
  <2>8. QED
    BY <2>1, <2>2, <2>3, <2>5, <2>6, <2>7, Zenon
<1>4. QED
  <2>1. \/ UNCHANGED <<outputBuffer_, wire>>
        \/ \E k \in IF direct THEN 0 .. Size ELSE {0} :
              /\ wire' = wire \o [i \in 1 .. k |-> x]
              /\ outputBuffer_' = outputBuffer_ \o [i \in 1 .. Size - k |-> x]
    BY Zenon DEF sends
  <2>2. ASSUME NEW k \in IF direct THEN 0 .. Size ELSE {0} PROVE k \in 0 .. Size /\ (k # 0 => outputBuffer_ = <<>>)
    BY <1>0
  <2>3. QED
    BY <2>1, <2>2, <1>1, <1>2, <1>3, Zenon
LEMMA EmptyLen == ASSUME NEW s \in Seq(Messages) PROVE s = <<>> <=> Len(s) = 0
  BY EmptySeq, Zenon

\* Bytes moved from the front of outputBuffer_ to the kernel leave what is

\* sent as it is (TcpConnection.cc:373-379).
LEMMA MovedSame ==
    ASSUME Core, NEW k \in 0 .. Len(outputBuffer_),
           wire' = wire \o SubSeq(outputBuffer_, 1, k),
           outputBuffer_' = SubSeq(outputBuffer_, k + 1, Len(outputBuffer_))
    PROVE  /\ wire' \in Seq(Messages) /\ outputBuffer_' \in Seq(Messages) /\ Sent' = Sent
           /\ outputBuffer_' = <<>> <=> k = Len(outputBuffer_)
<1> DEFINE w == Len(wire)
           b == Len(outputBuffer_)
           s == SubSeq(outputBuffer_, 1, k)
<1>0. /\ wire \in Seq(Messages) /\ outputBuffer_ \in Seq(Messages) /\ w \in Nat /\ b \in Nat /\ k \in Nat /\ k <= b
      /\ \A i \in 1 .. b : outputBuffer_[i] \in Messages
  BY LenProperties, ElementOfSeq, SMTT(30) DEF Core
<1>1. /\ Sent \in Seq(Messages) /\ Len(Sent) = w + b
      /\ \A i \in 1 .. w : Sent[i] = wire[i]
      /\ \A i \in 1 .. b : Sent[w + i] = outputBuffer_[i]
  BY <1>0, CatHolds, Zenon DEF Sent
<1>2. /\ s \in Seq(Messages) /\ Len(s) = k
      /\ \A i \in 1 .. k : s[i] = outputBuffer_[i]
  <2>1. \A i \in 1 .. k : outputBuffer_[i] \in Messages
    BY <1>0
  <2>2. /\ s \in Seq(Messages) /\ Len(s) = IF 1 <= k THEN k - 1 + 1 ELSE 0
        /\ \A i \in 1 .. k - 1 + 1 : s[i] = outputBuffer_[1 + i - 1]
    BY <1>0, <2>1, SubSeqProperties
  <2> HIDE DEF s
  <2>3. QED
    BY <1>0, <2>2
<1>3. /\ outputBuffer_' \in Seq(Messages) /\ Len(outputBuffer_') = b - k
      /\ \A i \in 1 .. b - k : outputBuffer_'[i] = outputBuffer_[k + i]
  <2>1. \A i \in k + 1 .. b : outputBuffer_[i] \in Messages
    BY <1>0
  <2>2. /\ outputBuffer_' \in Seq(Messages) /\ Len(outputBuffer_') = IF k + 1 <= b THEN b - (k + 1) + 1 ELSE 0
        /\ \A i \in 1 .. b - (k + 1) + 1 : outputBuffer_'[i] = outputBuffer_[(k + 1) + i - 1]
    BY <1>0, <2>1, SubSeqProperties, SMTT(30)
  <2>3. QED
    BY <1>0, <2>2
<1> HIDE DEF s
<1>4. /\ wire' \in Seq(Messages) /\ Len(wire') = w + k
      /\ \A i \in 1 .. w : wire'[i] = wire[i]
      /\ \A i \in 1 .. k : wire'[w + i] = s[i]
  <2>1. wire' = wire \o s
    BY Zenon DEF s
  <2>2. wire \in Seq(Messages) /\ s \in Seq(Messages) /\ Len(s) = k
    BY <1>0, <1>2, Zenon
  <2>3. /\ wire \o s \in Seq(Messages) /\ Len(wire \o s) = Len(wire) + Len(s)
        /\ \A i \in 1 .. Len(wire) : (wire \o s)[i] = wire[i]
        /\ \A i \in 1 .. Len(s) : (wire \o s)[Len(wire) + i] = s[i]
    BY ONLY <2>2, CatHolds, Zenon
  <2>4. QED
    BY <2>1, <2>2, <2>3, Zenon
<1>5. /\ Sent' \in Seq(Messages) /\ Len(Sent') = Len(wire') + Len(outputBuffer_')
      /\ \A i \in 1 .. Len(wire') : Sent'[i] = wire'[i]
      /\ \A i \in 1 .. Len(outputBuffer_') : Sent'[Len(wire') + i] = outputBuffer_'[i]
  BY <1>3, <1>4, CatHolds, Zenon DEF Sent
<1> HIDE DEF w, b
<1>6. Len(Sent') = Len(Sent)
  BY <1>0, <1>1, <1>3, <1>4, <1>5
<1>7. ASSUME NEW i \in 1 .. Len(Sent) PROVE Sent'[i] = Sent[i]
  <2>1. CASE i \in 1 .. w
    <3>1. i \in 1 .. Len(wire')
      BY <2>1, <1>0, <1>4
    <3>2. QED
      BY <2>1, <3>1, <1>1, <1>4, <1>5, Zenon
  <2>2. CASE i - w \in 1 .. k
    <3>1. PICK j \in 1 .. k : i = w + j
      BY <2>2, <1>0, <1>1
    <3>2. i \in 1 .. Len(wire') /\ j \in 1 .. b
      BY <3>1, <1>0, <1>4, SMTT(30)
    <3>3. Sent'[i] = wire'[w + j] /\ wire'[w + j] = outputBuffer_[j]
      BY <3>1, <3>2, <1>2, <1>4, <1>5, Zenon
    <3>4. QED
      BY <3>1, <3>2, <3>3, <1>1, Zenon
  <2>3. CASE i - (w + k) \in 1 .. b - k
    <3>1. PICK j \in 1 .. b - k : i = (w + k) + j
      BY <2>3, <1>0, <1>1
    <3>2. i = Len(wire') + j /\ j \in 1 .. Len(outputBuffer_') /\ k + j \in 1 .. b /\ i = w + (k + j)
      <4>1. i = Len(wire') + j
        BY <3>1, <1>4, Zenon
      <4>2. j \in 1 .. Len(outputBuffer_')
        BY <3>1, <1>3, Zenon
      <4>3. k + j \in 1 .. b /\ i = w + (k + j)
        BY <3>1, <1>0
      <4>4. QED
        BY <4>1, <4>2, <4>3, Zenon
    <3>3. Sent'[i] = outputBuffer_'[j] /\ outputBuffer_'[j] = outputBuffer_[k + j]
      <4>1. Sent'[Len(wire') + j] = outputBuffer_'[j]
        BY <3>2, <1>5, Zenon
      <4>2. QED
        BY <4>1, <3>1, <3>2, <1>3, Zenon
    <3>4. QED
      BY <3>2, <3>3, <1>1, Zenon
  <2>4. i \in 1 .. w \/ i - w \in 1 .. k \/ i - (w + k) \in 1 .. b - k
    <3>1. w \in Nat /\ b \in Nat /\ k \in Nat /\ k <= b /\ i \in 1 .. w + b
      BY <1>0, <1>1, Zenon
    <3>2. QED
      BY ONLY <3>1
  <2>5. QED
    BY <2>1, <2>2, <2>3, <2>4, Zenon
<1>8. Sent' = Sent
  <2>1. Sent \in Seq(Messages) /\ Sent' \in Seq(Messages) /\ Len(Sent) = Len(Sent')
    BY <1>1, <1>5, <1>6, Zenon
  <2>2. \A i \in 1 .. Len(Sent) : Sent[i] = Sent'[i]
    BY <1>7, Zenon
  <2>3. QED
    BY <2>1, <2>2, SeqEqual, Zenon
<1>9. outputBuffer_' = <<>> <=> k = b
  <2>1. outputBuffer_' = <<>> <=> Len(outputBuffer_') = 0
    BY <1>3, EmptyLen, Zenon
  <2>2. QED
    BY <1>0, <1>3, <2>1
<1>10. QED
  BY <1>3, <1>4, <1>8, <1>9, Zenon DEF b
-----------------------------------------------------------------------------

\* The numbers of what is sent are those of calls made.
LEMMA SentNumbers ==
    ASSUME NEW S \in Seq(Messages), NEW c, Whole(S, c)
    PROVE  \A i \in 1 .. Len(S) : S[i].n \in Nat /\ S[i].n <= c
<1>1. \A i \in 1 .. Len(S) : S[i] \in Messages
  BY LenProperties, ElementOfSeq, Zenon
<1>2. QED
  BY <1>1, Zenon DEF Messages, Whole

\* What is sent, and what waits, stays good when more calls are made.
LEMMA MoreCalls ==
    ASSUME NEW S \in Seq(Messages), NEW q \in Seq(Functors), NEW c \in Nat, NEW d \in Nat, c <= d
    PROVE  (Whole(S, c) => Whole(S, d)) /\ (Fresh(q, S, c) => Fresh(q, S, d))
<1>1. \A i \in 1 .. Len(S) : S[i].n \in Nat
  <2>1. \A i \in 1 .. Len(S) : S[i] \in Messages
    BY LenProperties, ElementOfSeq, Zenon
  <2>2. QED
    BY <2>1, Zenon DEF Messages
<1>2. \A i \in DOMAIN q : q[i].n \in Nat
  <2>1. \A i \in DOMAIN q : q[i] \in Functors
    BY LenProperties, ElementOfSeq, Zenon
  <2>2. QED
    BY <2>1, Zenon DEF Functors
<1>3. Whole(S, c) => Whole(S, d)
  <2>1. (\A i \in 1 .. Len(S) : S[i].n <= c) => \A i \in 1 .. Len(S) : S[i].n <= d
    BY <1>1
  <2>2. QED
    BY <2>1, Zenon DEF Whole
<1>4. Fresh(q, S, c) => Fresh(q, S, d)
  <2>1. \A i \in DOMAIN q : q[i].n <= c => q[i].n <= d
    BY <1>2
  <2>2. QED
    BY <2>1, Zenon DEF Fresh
<1>5. QED
  BY <1>3, <1>4, Zenon

LEMMA SentInSeq == ASSUME Core PROVE Sent \in Seq(Messages)
  BY CatHolds, Zenon DEF Core, Sent

LEMMA SameSent ==
    ASSUME ConnInv, UNCHANGED <<wire, outputBuffer_>>
    PROVE  wire' \in Seq(Messages) /\ outputBuffer_' \in Seq(Messages) /\ Sent' = Sent
  BY Zenon DEF ConnInv, Core, Sent

LEMMA Primed ==
    /\ Whole(Sent, calls)' <=> Whole(Sent', calls')
    /\ Fresh(tasks, Sent, calls)' <=> Fresh(tasks', Sent', calls')
  BY DEF Whole, Fresh

\* Steps that leave what is sent and the queue alone,
LEMMA SameCore ==
    ASSUME ConnInv, UNCHANGED <<tasks, userRef, bareThis>>,
           wire' \in Seq(Messages), outputBuffer_' \in Seq(Messages), Sent' = Sent,
           calls' \in Nat, calls <= calls', state_ # "kConnecting" \/ state_' = state_
    PROVE  Core' /\ (Removed(tasks)' <=> Removed(tasks))
<1> USE DEF ConnInv, Core
<1>1. Sent' = Sent /\ Sent \in Seq(Messages)
  <2>1. Sent \in Seq(Messages)
    BY CatHolds, Zenon DEF Sent
  <2>2. QED
    BY <2>1, Zenon
<1>2. Whole(Sent, calls') /\ Fresh(tasks, Sent, calls')
  BY <1>1, MoreCalls, Zenon
<1>3. Whole(Sent, calls)' /\ Fresh(tasks, Sent, calls)'
  BY <1>1, <1>2, Primed, Zenon
<1>4. Bare(tasks, Holders)' /\ First(tasks, state_)'
  BY Zenon DEF Bare, First, Holders
<1>5. QED
  BY <1>3, <1>4, Zenon DEF Removed

\* that take the next functor,
LEMMA TakenCore ==
    ASSUME ConnInv, batch > 0, tasks' = Tail(tasks),
           UNCHANGED <<wire, outputBuffer_, calls, userRef, bareThis>>
    PROVE  /\ Core' /\ Len(tasks') = Len(tasks) - 1 /\ tasks # <<>> /\ tasks[1] = Head(tasks)
           /\ Head(tasks) \in Functors
           /\ Head(tasks).f # "destroyed" => (Removed(tasks) => Removed(tasks)')
<1> USE DEF ConnInv, Core
<1>1. tasks # <<>>
  BY EmptySeq DEF ConnTypes
<1>2. /\ Tail(tasks) \in Seq(Functors) /\ Len(Tail(tasks)) = Len(tasks) - 1 /\ tasks[1] = Head(tasks)
      /\ Head(tasks) \in Functors
      /\ Fresh(Tail(tasks), Sent, calls) /\ Bare(Tail(tasks), Holders) /\ First(Tail(tasks), state_')
      /\ Head(tasks).f # "destroyed" => (Removed(tasks) => Removed(Tail(tasks)))
  BY <1>1, TailQueue, Zenon
<1>3. Sent' = Sent
  BY Zenon DEF Sent
<1>4. Whole(Sent, calls)' /\ Fresh(tasks, Sent, calls)'
  <2>1. Whole(Sent', calls') /\ Fresh(tasks', Sent', calls')
    BY <1>2, <1>3, Zenon
  <2>2. QED
    BY <2>1, Primed, Zenon
<1>5. Bare(tasks, Holders)' /\ First(tasks, state_)' /\ (Removed(tasks)' <=> Removed(Tail(tasks)))
  BY <1>2, Zenon DEF Bare, First, Removed, Holders
<1>6. QED
  BY <1>1, <1>2, <1>4, <1>5, Zenon

\* and that queue one.
LEMMA QueuedCore ==
    ASSUME ConnInv, NEW m \in Functors, tasks' = Append(tasks, m),
           UNCHANGED <<userRef, bareThis>>, wire' \in Seq(Messages), outputBuffer_' \in Seq(Messages), Sent' = Sent,
           calls' \in Nat, calls <= calls', state_ # "kConnecting" \/ state_' = state_,
           m.f = "send" => m.n = calls + 1 /\ calls' = calls + 1,
           m.f \notin Shared => m.by \in userRef, m.f # "established"
    PROVE  /\ Core' /\ Len(tasks') = Len(tasks) + 1
           /\ Removed(tasks) \/ m.f = "destroyed" => Removed(tasks)'
           /\ tasks # <<>> => tasks' # <<>> /\ tasks'[1] = tasks[1]
<1> USE DEF ConnInv, Core
<1>1. Sent' = Sent /\ Sent \in Seq(Messages)
  <2>1. Sent \in Seq(Messages)
    BY CatHolds, Zenon DEF Sent
  <2>2. QED
    BY <2>1, Zenon
<1>2. m.f = "send" => m.by # Loop /\ m.n > calls /\ m.n <= calls' /\ (\A i \in 1 .. Len(Sent) : Sent[i].n < m.n)
  <2>1. \A i \in 1 .. Len(Sent) : Sent[i].n \in Nat /\ Sent[i].n <= calls
    BY <1>1, SentNumbers, Zenon
  <2>2. m.f = "send" => m.by # Loop
    BY ConnAssumption, Zenon DEF ConnTypes, Shared
  <2>3. calls \in Nat
    BY Zenon
  <2>4. QED
    BY <2>1, <2>2, <2>3
<1>0. m.f \notin Shared => m.by \in Holders
  BY Zenon DEF Holders, ConnTypes
<1>3. /\ Append(tasks, m) \in Seq(Functors) /\ Len(Append(tasks, m)) = Len(tasks) + 1
      /\ Fresh(Append(tasks, m), Sent, calls') /\ Bare(Append(tasks, m), Holders)
      /\ First(Append(tasks, m), state_)
      /\ Removed(tasks) \/ m.f = "destroyed" => Removed(Append(tasks, m))
      /\ tasks # <<>> => Append(tasks, m) # <<>> /\ Append(tasks, m)[1] = tasks[1]
  BY <1>0, <1>2, AppendQueue, Zenon
<1>4. Whole(Sent, calls')
  BY <1>1, MoreCalls, Zenon
<1>5. Whole(Sent, calls)' /\ Fresh(tasks, Sent, calls)'
  <2>1. Whole(Sent', calls') /\ Fresh(tasks', Sent', calls')
    BY <1>1, <1>3, <1>4, Zenon
  <2>2. QED
    BY <2>1, Primed, Zenon
<1>6. Bare(tasks, Holders)' /\ First(tasks, state_)' /\ (Removed(tasks)' <=> Removed(Append(tasks, m)))
  BY <1>3, Zenon DEF Bare, First, Removed, Holders
<1>7. QED
  BY <1>3, <1>5, <1>6, Zenon

\* A queue followed by one functor or none.
LEMMA ThenQueued ==
    ASSUME NEW q \in Seq(Functors), NEW m \in Functors
    PROVE  q \o <<m>> = Append(q, m) /\ q \o <<>> = q
<1>1. q \o <<>> = q
  BY ConcatEmptySeq, Zenon
<1>2. q \o <<m>> = Append(q, m)
  OBVIOUS
<1>3. QED
  BY <1>1, <1>2, Zenon

\* sendInLoop of a message that is neither sent nor waiting keeps the

\* messages whole, and asks for write events when it leaves output waiting
\* (TcpConnection.cc:134-192).
LEMMA SendCore ==
    ASSUME ConnInv, NEW x \in Messages, NEW q \in Seq(Functors), sendInLoop(x, q),
           UNCHANGED <<userRef, bareThis, state_>>, calls' \in Nat, calls <= calls', x.n <= calls',
           Fresh(q, Sent, calls), Bare(q, Holders), First(q, state_),
           \A i \in 1 .. Len(Sent) : Sent[i] # x /\ ((Sent[i].by = Loop <=> x.by = Loop) => Sent[i].n <= x.n),
           x.by # Loop => \A i \in DOMAIN q : q[i].f = "send" => x.n < q[i].n
    PROVE  /\ Core' /\ Len(tasks') >= Len(q)
           /\ Removed(q) => Removed(tasks)'
           /\ events' \subseteq {"in", "out"} /\ registered' \in BOOLEAN /\ added' \in BOOLEAN
           /\ added => added'
           /\ state_ = "kDisconnected" => UNCHANGED <<events, registered, added>>
           /\ (isWriting <=> outputBuffer_ # <<>>) => (isWriting' <=> outputBuffer_' # <<>>)
<1> DEFINE direct == ~isWriting /\ outputBuffer_ = <<>>
           old == Len(outputBuffer_)
           complete == Functor("complete", Loop, 0)
<1> USE DEF ConnInv
<1>0. /\ Size \in Nat /\ Size > 0 /\ old \in Nat /\ calls \in Nat
      /\ complete \in Functors
      /\ \A k \in 0 .. Size : Functor("highWater", Loop, old + Size - k) \in Functors
  BY ConnAssumption, LenProperties DEF Core, Functors, Functor, Shared
<1>1. sends(x, q, direct)
  BY Zenon DEF sendInLoop
<1>2. /\ wire' \in Seq(Messages) /\ outputBuffer_' \in Seq(Messages)
      /\ Sent \in Seq(Messages) /\ Sent' \in Seq(Messages)
      /\ \/ Sent' = Sent
         \/ /\ Len(Sent') = Len(Sent) + Size
            /\ \A i \in 1 .. Len(Sent) : Sent'[i] = Sent[i]
            /\ \A i \in Len(Sent) + 1 .. Len(Sent') : Sent'[i] = x
  BY <1>1, SendsWhole, Zenon
<1>3. Whole(Sent', calls') /\ Fresh(q, Sent', calls')
  <2>1. Whole(Sent, calls') /\ Fresh(q, Sent, calls')
    BY <1>0, <1>2, MoreCalls, Zenon DEF Core
  <2>2. CASE Sent' = Sent
    BY <2>1, <2>2, Zenon
  <2>3. CASE /\ Len(Sent') = Len(Sent) + Size
             /\ \A i \in 1 .. Len(Sent) : Sent'[i] = Sent[i]
             /\ \A i \in Len(Sent) + 1 .. Len(Sent') : Sent'[i] = x
    <3>1. Whole(Sent', calls')
      BY <1>0, <1>2, <2>3, MoreWhole, Zenon DEF Core
    <3>2. \A j \in 1 .. Len(Sent') : j \in 1 .. Len(Sent) \/ j \in Len(Sent) + 1 .. Len(Sent')
      BY <1>0, <1>2, <2>3, LenProperties
    <3>3. Fresh(q, Sent', calls')
      BY <2>1, <2>3, <3>2, ZenonT(30) DEF Fresh
    <3>4. QED
      BY <3>1, <3>3, Zenon
  <2>4. QED
    BY <1>2, <2>2, <2>3, Zenon
<1>4. tasks' = q \/ \E m \in Functors : tasks' = Append(q, m) /\ m.f \in {"complete", "highWater"}
  <2>1. CASE tasks' = q
    BY <2>1, Zenon
  <2>2. ASSUME NEW k \in 0 .. Size,
               tasks' = q \o (IF k = Size THEN <<complete>>
                               ELSE IF old + Size - k >= highWaterMark_ /\ old < highWaterMark_
                               THEN <<Functor("highWater", Loop, old + Size - k)>> ELSE <<>>)
        PROVE  tasks' = q \/ \E m \in Functors : tasks' = Append(q, m) /\ m.f \in {"complete", "highWater"}
    <3>1. CASE tasks' = q \o <<complete>>
      BY <3>1, <1>0, ThenQueued, Zenon DEF Functor
    <3>2. CASE tasks' = q \o <<Functor("highWater", Loop, old + Size - k)>>
      BY <3>2, <1>0, ThenQueued, Zenon DEF Functor
    <3>3. CASE tasks' = q \o <<>>
      BY <3>3, <1>0, ThenQueued, Zenon
    <3>4. QED
      BY <2>2, <3>1, <3>2, <3>3, Zenon
  <2>3. QED
    <3>1. {0} \subseteq 0 .. Size
      BY <1>0
    <3>2. QED
      BY <2>1, <2>2, <3>1, <1>1, Zenon DEF sends
<1>5. /\ tasks' \in Seq(Functors) /\ Len(tasks') >= Len(q) /\ Fresh(tasks', Sent', calls')
      /\ Bare(tasks', Holders) /\ First(tasks', state_) /\ (Removed(q) => Removed(tasks'))
  <2>1. CASE tasks' = q
    BY <2>1, <1>3, LenProperties
  <2>2. ASSUME NEW m \in Functors, tasks' = Append(q, m), m.f \in {"complete", "highWater"}
        PROVE  <1>5!:
    <3>1. m.f # "send" /\ m.f \in Shared /\ m.f # "established"
      BY <2>2, ZenonT(30) DEF Shared
    <3>2. /\ Append(q, m) \in Seq(Functors) /\ Len(Append(q, m)) = Len(q) + 1
          /\ Fresh(Append(q, m), Sent', calls') /\ Bare(Append(q, m), Holders)
          /\ First(Append(q, m), state_) /\ (Removed(q) => Removed(Append(q, m)))
      BY <3>1, <1>0, <1>3, AppendQueue, SMTT(30)
    <3>3. QED
      BY <2>2, <3>2, LenProperties
  <2>3. QED
    BY <1>4, <2>1, <2>2, Zenon
<1>6. Core' /\ (Removed(q) => Removed(tasks)')
  BY <1>2, <1>3, <1>5, Zenon DEF Core, Whole, Fresh, Bare, First, Removed, Holders
<1>7. /\ events' \subseteq {"in", "out"} /\ registered' \in BOOLEAN /\ added' \in BOOLEAN
      /\ added => added'
      /\ state_ = "kDisconnected" => UNCHANGED <<events, registered, added>>
  <2>1. \/ UNCHANGED <<events, registered, added>>
        \/ state_ # "kDisconnected" /\ update(events \cup {"out"})
    BY <1>1, Zenon DEF sends, poller
  <2>2. events \subseteq {"in", "out"} /\ registered \in BOOLEAN /\ added \in BOOLEAN
    BY Zenon DEF ConnTypes
  <2>3. QED
    BY <2>1, <2>2, Zenon DEF update
<1>8. (isWriting <=> outputBuffer_ # <<>>) => (isWriting' <=> outputBuffer_' # <<>>)
  <2>1. CASE UNCHANGED <<outputBuffer_, events>>
    BY <2>1, Zenon DEF isWriting
  <2>2. ASSUME NEW k \in IF direct THEN 0 .. Size ELSE {0},
               outputBuffer_' = outputBuffer_ \o [i \in 1 .. Size - k |-> x],
               IF k < Size /\ ~isWriting THEN update(events \cup {"out"}) ELSE UNCHANGED poller
        PROVE  isWriting' <=> outputBuffer_' # <<>>
    <3> DEFINE m == Size - k
    <3>1. k \in 0 .. Size /\ m \in Nat
      BY <2>2, <1>0
    <3>2. Len(outputBuffer_') = old + m
      <4>1. outputBuffer_' = outputBuffer_ \o [i \in 1 .. m |-> x] /\ outputBuffer_ \in Seq(Messages)
        BY <2>2, Zenon DEF Core
      <4> HIDE DEF m
      <4>2. QED
        BY <4>1, <3>1, RunHolds
    <3>3. outputBuffer_' = <<>> <=> Len(outputBuffer_') = 0
      BY <1>2, EmptyLen, Zenon
    <3>4. outputBuffer_ = <<>> <=> old = 0
      BY EmptyLen, Zenon DEF Core
    <3>5. CASE k < Size
      <4>1. isWriting'
        BY <3>5, <2>2, Zenon DEF isWriting, update, poller
      <4>2. Len(outputBuffer_') # 0
        BY <3>1, <3>2, <3>5, <1>0
      <4>3. QED
        BY <4>1, <4>2, <3>3, Zenon
    <3>6. CASE k = Size
      <4>1. direct
        BY <3>6, <2>2, <1>0
      <4>2. ~isWriting'
        <5>1. ~(k < Size)
          BY <3>6, <1>0
        <5>2. UNCHANGED events
          BY <2>2, <5>1, Zenon DEF poller
        <5>3. QED
          BY <4>1, <5>2, Zenon DEF isWriting
      <4>3. Len(outputBuffer_') = 0
        BY <4>1, <3>2, <3>4, <3>6, <1>0
      <4>4. QED
        BY <4>2, <4>3, <3>3, Zenon
    <3>7. k < Size \/ k = Size
      BY <3>1, <1>0
    <3>8. QED
      BY <3>5, <3>6, <3>7, Zenon
  <2>3. QED
    BY <1>1, <2>1, <2>2, Zenon DEF sends, poller
<1>9. QED
  BY <1>5, <1>6, <1>7, <1>8, Zenon
-----------------------------------------------------------------------------
LapseStep == lapses' = lapses \cup {l \in Lapses : Lapse(l)}

\* A step after which there was no lapse is no lapse.
LEMMA NoLapse ==
    ASSUME ConnTypes, LapseStep
    PROVE  /\ lapses' \subseteq Lapses
           /\ lapses' = {} => /\ lapses = {}
                             /\ ~(state_ = "kDisconnected" /\ state_' = "kDisconnecting")
                             /\ ~(state_' = "kDisconnected" /\ registered')
                             /\ ~(added /\ ~added' /\ state_ = "kDisconnecting")
<1>1. lapses' \subseteq Lapses
  BY Zenon DEF ConnTypes, LapseStep
<1>2. ASSUME lapses' = {}
      PROVE  lapses = {} /\ ~Lapse("overwritten") /\ ~Lapse("rearmed") /\ ~Lapse("abandoned")
  BY <1>2, Zenon DEF LapseStep, Lapses
<1>3. QED
  BY <1>1, <1>2, Zenon DEF Lapse

\* The head of the queue, and that it is not connectEstablished later on.
LEMMA HeadHolds ==
    ASSUME ConnInv, NEW f, Next_(f)
    PROVE  /\ tasks # <<>> /\ tasks[1] = Head(tasks) /\ Head(tasks) \in Functors /\ Head(tasks).f = f
           /\ batch > 0 /\ batch' \in Int /\ batch' <= Len(tasks) - 1
           /\ callback = "none" /\ revents = {}
           /\ f = "established" <=> state_ = "kConnecting"
<1> USE DEF ConnInv, Core
<1>1. tasks # <<>> /\ Len(tasks) \in Nat
  BY EmptySeq, LenProperties DEF ConnTypes, Next_
<1>2. 1 \in DOMAIN tasks /\ tasks[1] = Head(tasks) /\ Head(tasks) \in Functors
  BY <1>1, TailHolds, Zenon
<1>3. f = "established" <=> state_ = "kConnecting"
  BY <1>1, <1>2, Zenon DEF Rest, NotYet, Next_, First
<1>4. QED
  BY <1>1, <1>2, <1>3 DEF Next_, ConnTypes, LoopIdle

\* TcpConnection::connectEstablished: the first functor (TcpConnection.cc:323-332).
LEMMA EstablishedKeeps == ASSUME ConnInv, LapseStep, UNCHANGED bareThis, connectEstablished PROVE ConnInv'
<1> USE DEF ConnInv
<1>1. /\ Next_("established") /\ tasks' = Tail(tasks) /\ state_' = "kConnected" /\ callback' = "up"
      /\ events' = {"in"} /\ added' = TRUE /\ registered' = TRUE
      /\ UNCHANGED <<outputBuffer_, wire, writeShut, timers, userAt, userRef, owner, calls, revents, downs>>
  BY Zenon DEF connectEstablished, NotTheNet, NotTheUsers, update, netVars, userVars
<1>2. /\ state_ = "kConnecting" /\ batch > 0 /\ batch' \in Int /\ batch' <= Len(tasks) - 1
      /\ Head(tasks).f = "established" /\ callback = "none"
  BY <1>1, HeadHolds, Zenon
<1>3. Core' /\ Len(tasks') = Len(tasks) - 1 /\ (Removed(tasks) => Removed(tasks)')
  BY <1>1, <1>2, TakenCore, Zenon
<1>4. ConnTypes'
  BY <1>1, <1>2, <1>3, NoLapse, Zenon DEF ConnTypes
<1>5. outputBuffer_ = <<>>
  BY <1>2, Zenon DEF Rest, NotYet
<1>6. ASSUME lapses' = {} PROVE Agreed'
  <2>1. Agreed
    BY <1>6, NoLapse, Zenon DEF Rest
  <2>2. WritesWhenNeeded'
    BY <1>1, <1>5, Zenon DEF WritesWhenNeeded, isWriting
  <2>3. QED
    BY <1>1, <1>2, <1>3, <2>1, <2>2, Zenon DEF Agreed, Open
<1>7. Rest'
  BY <1>1, <1>6, Zenon DEF Rest, NotYet
<1>8. QED
  BY <1>3, <1>4, <1>7, Zenon

\* TcpConnection::connectDestroyed: an open connection is closed first
\* (TcpConnection.cc:334-345).
LEMMA DestroyedKeeps == ASSUME ConnInv, LapseStep, UNCHANGED bareThis, connectDestroyed PROVE ConnInv'
<1> USE DEF ConnInv
<1>1. /\ Next_("destroyed") /\ tasks' = Tail(tasks)
      /\ UNCHANGED <<outputBuffer_, wire, writeShut, timers, userAt, userRef, owner, calls, revents>>
      /\ \/ /\ state_ = "kConnected" /\ state_' = "kDisconnected" /\ update({})
            /\ downs' = downs + 1 /\ callback' = "destroying"
         \/ /\ state_ # "kConnected" /\ added' = FALSE /\ registered' = FALSE
            /\ UNCHANGED <<state_, events, downs, callback>>
  BY Zenon DEF connectDestroyed, destroys, NotTheNet, NotTheUsers, netVars, userVars
<1>2. /\ state_ # "kConnecting" /\ batch > 0 /\ batch' \in Int /\ batch' <= Len(tasks) - 1
      /\ callback = "none" /\ revents = {}
  BY <1>1, HeadHolds
<1>3. Core' /\ Len(tasks') = Len(tasks) - 1
  BY <1>1, <1>2, TakenCore, Zenon
<1>4. ConnTypes'
  <2>1. /\ registered' \in BOOLEAN /\ added' \in BOOLEAN /\ events' \subseteq {"in", "out"} /\ downs' \in Nat
        /\ state_' \in {"kConnecting", "kConnected", "kDisconnecting", "kDisconnected"}
    <3>0. state_ \in {"kConnecting", "kConnected", "kDisconnecting", "kDisconnected"} /\ downs \in Nat
          /\ events \subseteq {"in", "out"}
      BY Zenon DEF ConnTypes
    <3>1. CASE state_ = "kConnected"
      <4>1. state_' = "kDisconnected" /\ events' = {} /\ added' = TRUE /\ downs' = downs + 1
        BY <1>1, <3>1, Zenon DEF update
      <4>2. registered' \in BOOLEAN
        BY <1>1, <3>1, Zenon DEF update
      <4>3. QED
        BY <3>0, <4>1, <4>2
    <3>2. CASE state_ # "kConnected"
      BY <1>1, <3>0, <3>2, Zenon
    <3>3. QED
      BY <3>1, <3>2, Zenon
  <2>2. QED
    BY <1>1, <1>2, <1>3, <2>1, NoLapse, Zenon DEF ConnTypes
<1>5. ASSUME lapses' = {} PROVE Agreed'
  <2>1. Agreed /\ ~(state_' = "kDisconnected" /\ registered') /\ ~(added /\ ~added' /\ state_ = "kDisconnecting")
    BY <1>5, NoLapse, Zenon DEF Rest
  <2>2. CASE state_ = "kConnected"
    <3>1. /\ state_' = "kDisconnected" /\ added' /\ downs' = downs + 1 /\ callback' = "destroying"
          /\ ~registered' /\ revents' = {}
      BY <1>1, <1>2, <2>1, <2>2, Zenon DEF update
    <3>2. QED
      BY <2>1, <2>2, <3>1 DEF Agreed, Open, WritesWhenNeeded
  <2>3. CASE state_ # "kConnected"
    <3>1. state_ = "kDisconnected"
      BY <1>1, <1>2, <2>1, <2>3, Zenon DEF Agreed, Open, ConnTypes
    <3>2. /\ state_' = "kDisconnected" /\ ~added' /\ downs' = downs /\ callback' = "none"
          /\ ~registered' /\ revents' = {}
      BY <1>1, <1>2, <2>3, <3>1, Zenon
    <3>3. QED
      BY <2>1, <3>1, <3>2, Zenon DEF Agreed, Open, WritesWhenNeeded
  <2>4. QED
    BY <2>2, <2>3, Zenon
<1>6. Rest'
  BY <1>1, <1>2, <1>5, Zenon DEF Rest, NotYet
<1>7. QED
  BY <1>3, <1>4, <1>6, Zenon

\* A functor that leaves state_, the channel and the output alone.
LEMMA QuietKeeps ==
    ASSUME ConnInv, LapseStep, UNCHANGED bareThis, NEW f, Next_(f), f \notin {"established", "destroyed"}, tasks' = Tail(tasks),
           callback' # "destroying", writeShut' \in BOOLEAN,
           UNCHANGED <<state_, poller, outputBuffer_, wire, userVars, revents, downs>>
    PROVE  ConnInv'
<1> USE DEF ConnInv, poller, userVars
<1>1. /\ state_ # "kConnecting" /\ batch > 0 /\ batch' \in Int /\ batch' <= Len(tasks) - 1
      /\ callback = "none" /\ revents = {} /\ Head(tasks).f # "destroyed"
  BY HeadHolds, Zenon
<1>2. Core' /\ Len(tasks') = Len(tasks) - 1 /\ (Removed(tasks) => Removed(tasks)')
  BY <1>1, TakenCore, Zenon
<1>3. ConnTypes'
  BY <1>1, <1>2, NoLapse, Zenon DEF ConnTypes
<1>4. ASSUME lapses' = {} PROVE Agreed'
  <2>1. Agreed /\ lapses = {}
    BY <1>4, NoLapse, Zenon DEF Rest
  <2>2. WritesWhenNeeded'
    BY <2>1, Zenon DEF Agreed, WritesWhenNeeded, isWriting, Open
  <2>3. QED
    BY <1>1, <1>2, <2>1, <2>2, Zenon DEF Agreed, Open
<1>5. Rest'
  BY <1>1, <1>4, Zenon DEF Rest, NotYet
<1>6. QED
  BY <1>2, <1>3, <1>5, Zenon

\* shutdownInLoop, writeCompleteCallback_ and highWaterMarkCallback_.
LEMMA RunQuietKeeps ==
    ASSUME ConnInv, LapseStep, UNCHANGED bareThis,
           runShutdown \/ \E f \in {"complete", "highWater"} : runCallback(f)
    PROVE  ConnInv'
<1>1. CASE runShutdown
  <2>1. /\ Next_("shutdown") /\ tasks' = Tail(tasks) /\ callback' = callback /\ callback = "none"
        /\ UNCHANGED <<state_, poller, outputBuffer_, wire, userVars, revents, downs>>
    BY <1>1, Zenon DEF runShutdown, NotTheUsers, Next_, LoopIdle
  <2>2. writeShut' \in BOOLEAN
    BY <1>1, Zenon DEF runShutdown, shutdownInLoop, ConnInv, ConnTypes
  <2>3. QED
    BY <2>1, <2>2, QuietKeeps, Zenon
<1>2. ASSUME NEW f \in {"complete", "highWater"}, runCallback(f) PROVE ConnInv'
  <2>1. /\ Next_(f) /\ tasks' = Tail(tasks) /\ callback' = f /\ writeShut' = writeShut
        /\ UNCHANGED <<state_, poller, outputBuffer_, wire, userVars, revents, downs>>
    BY <1>2, Zenon DEF runCallback, NotTheUsers, NotTheNet, netVars
  <2>2. writeShut' \in BOOLEAN
    BY <2>1, Zenon DEF ConnInv, ConnTypes
  <2>3. QED
    BY <2>1, <2>2, QuietKeeps, Zenon
<1>3. QED
  BY <1>1, <1>2, Zenon

\* Channel::update: a channel that was not in the interest list is now.
LEMMA UpdateHolds ==
    ASSUME NEW e, update(e)
    PROVE  events' = e /\ added' = TRUE /\ registered' \in BOOLEAN /\ (~registered => registered')
  BY Zenon DEF update

\* startReadInLoop and stopReadInLoop do not touch the interest in writing.
LEMMA ReadHolds ==
    ASSUME ConnTypes, startReadInLoop \/ stopReadInLoop
    PROVE  /\ events' \subseteq {"in", "out"} /\ registered' \in BOOLEAN /\ added' \in BOOLEAN
           /\ isWriting' <=> isWriting
           /\ added => added'
           /\ UNCHANGED <<events, registered, added>> \/ (~registered => registered')
<1>0. events \subseteq {"in", "out"} /\ registered \in BOOLEAN /\ added \in BOOLEAN
  BY Zenon DEF ConnTypes
<1>1. CASE UNCHANGED <<events, registered, added>>
  BY <1>0, <1>1, Zenon DEF isWriting
<1>2. CASE update(events \cup {"in"})
  <2>1. /\ events' = events \cup {"in"} /\ added' = TRUE /\ registered' \in BOOLEAN
        /\ ~registered => registered'
    BY <1>2, UpdateHolds, Zenon
  <2>2. events' \subseteq {"in", "out"} /\ (isWriting' <=> isWriting)
    BY <1>0, <2>1, Zenon DEF isWriting
  <2>3. QED
    BY <2>1, <2>2, Zenon
<1>3. CASE update(events \ {"in"})
  <2>1. /\ events' = events \ {"in"} /\ added' = TRUE /\ registered' \in BOOLEAN
        /\ ~registered => registered'
    BY <1>3, UpdateHolds, Zenon
  <2>2. events' \subseteq {"in", "out"} /\ (isWriting' <=> isWriting)
    BY <1>0, <2>1, Zenon DEF isWriting
  <2>3. QED
    BY <2>1, <2>2, Zenon
<1>4. QED
  BY <1>1, <1>2, <1>3, Zenon DEF startReadInLoop, stopReadInLoop, poller

\* A step that changes only the interest in reading leaves the agreement,

\* or is a lapse.
LEMMA ReadAgreed ==
    ASSUME ConnInv, LapseStep, UNCHANGED bareThis, startReadInLoop \/ stopReadInLoop, lapses' = {},
           UNCHANGED <<state_, outputBuffer_, revents, downs, callback, owner>>,
           Removed(tasks) => Removed(tasks)'
    PROVE  Agreed'
<1>1. Agreed /\ lapses = {} /\ ~(state_' = "kDisconnected" /\ registered')
  BY NoLapse, Zenon DEF ConnInv, Rest
<1>2. /\ (isWriting' <=> isWriting) /\ (added => added')
      /\ UNCHANGED <<events, registered, added>> \/ (~registered => registered')
      /\ added' \in BOOLEAN /\ added \in BOOLEAN
  BY ReadHolds, Zenon DEF ConnInv, ConnTypes
<1>3. WritesWhenNeeded'
  BY <1>1, <1>2, Zenon DEF Agreed, WritesWhenNeeded, Open
<1>4. CASE state_ = "kDisconnected"
  <2>1. ~registered /\ ~registered'
    BY <1>1, <1>4, Zenon DEF Agreed
  <2>2. UNCHANGED <<events, registered, added>>
    BY <2>1, <1>2, Zenon
  <2>3. QED
    BY <1>1, <1>3, <1>4, <2>2, Zenon DEF Agreed, Open
<1>5. CASE state_ # "kDisconnected"
  BY <1>1, <1>2, <1>3, <1>5, Zenon DEF Agreed, Open
<1>6. QED
  BY <1>4, <1>5, Zenon

\* startReadInLoop and stopReadInLoop as functors (TcpConnection.cc:298-321).
LEMMA RunReadKeeps ==
    ASSUME ConnInv, LapseStep, UNCHANGED bareThis, NEW f \in {"startRead", "stopRead"}, runRead(f) PROVE ConnInv'
<1> USE DEF ConnInv
<1>1. /\ Next_(f) /\ tasks' = Tail(tasks) /\ (startReadInLoop \/ stopReadInLoop)
      /\ UNCHANGED <<state_, callback, outputBuffer_, wire, writeShut, userAt, userRef, owner, calls, revents, downs>>
  BY Zenon DEF runRead, NotTheNet, NotTheUsers, netVars, userVars
<1>2. /\ state_ # "kConnecting" /\ batch > 0 /\ batch' \in Int /\ batch' <= Len(tasks) - 1
      /\ revents = {} /\ Head(tasks).f # "destroyed"
  BY <1>1, HeadHolds, Zenon
<1>3. Core' /\ Len(tasks') = Len(tasks) - 1 /\ (Removed(tasks) => Removed(tasks)')
  BY <1>1, <1>2, TakenCore, Zenon
<1>4. ConnTypes'
  BY <1>1, <1>2, <1>3, NoLapse, ReadHolds, Zenon DEF ConnTypes
<1>5. lapses' = {} => Agreed'
  BY <1>1, <1>3, ReadAgreed, Zenon
<1>6. Rest'
  BY <1>1, <1>2, <1>5, Zenon DEF Rest, NotYet
<1>7. QED
  BY <1>3, <1>4, <1>6, Zenon

\* sendInLoop as a functor (TcpConnection.cc:101-110).
LEMMA RunSendKeeps == ASSUME ConnInv, LapseStep, UNCHANGED bareThis, runSend PROVE ConnInv'
<1> USE DEF ConnInv
<1> DEFINE x == Message(Head(tasks).by, Head(tasks).n)
           q == Tail(tasks)
<1>1. /\ Next_("send") /\ sendInLoop(x, q)
      /\ UNCHANGED <<state_, callback, writeShut, userAt, userRef, owner, calls, revents, downs>>
  BY Zenon DEF runSend, NotTheUsers, userVars
<1>2. /\ state_ # "kConnecting" /\ batch > 0 /\ batch' \in Int /\ batch' <= Len(tasks) - 1
      /\ revents = {} /\ Head(tasks).f = "send" /\ tasks # <<>> /\ Head(tasks) \in Functors
  BY <1>1, HeadHolds
<1>3. /\ q \in Seq(Functors) /\ Len(q) = Len(tasks) - 1
      /\ Fresh(q, Sent, calls) /\ Bare(q, Holders) /\ First(q, state_)
      /\ Removed(tasks) => Removed(q)
      /\ Head(tasks).by # Loop /\ Head(tasks).n <= calls
      /\ \A j \in 1 .. Len(Sent) : Sent[j].by # Loop => Sent[j].n < Head(tasks).n
      /\ \A i \in DOMAIN q : q[i].f = "send" => Head(tasks).n < q[i].n
  BY <1>2, TailQueue, ZenonT(30) DEF Core
<1>10. x \in Messages /\ x.by = Head(tasks).by /\ x.n = Head(tasks).n /\ x.n \in Nat
  BY <1>2, Zenon DEF Messages, Functors, Message
<1> HIDE DEF x, q
<1>4. calls \in Nat /\ calls' \in Nat /\ calls <= calls' /\ x.n <= calls'
  <2>1. calls \in Nat /\ calls' = calls /\ x.n <= calls
    BY <1>1, <1>3, <1>10, Zenon DEF Core
  <2>2. QED
    BY ONLY <2>1
<1>11. \A i \in 1 .. Len(Sent) : Sent[i] # x /\ ((Sent[i].by = Loop <=> x.by = Loop) => Sent[i].n <= x.n)
  <2>1. \A i \in 1 .. Len(Sent) : Sent[i].n \in Nat
    BY SentInSeq, SentNumbers, Zenon DEF Core
  <2>2. \A i \in 1 .. Len(Sent) : Sent[i].by # Loop => Sent[i].n # x.n /\ Sent[i].n <= x.n
    <3>1. \A i \in 1 .. Len(Sent) : Sent[i].by # Loop => Sent[i].n < x.n
      BY <1>3, <1>10, Zenon
    <3>2. QED
      BY ONLY <2>1, <3>1, <1>10
  <2>3. QED
    BY <2>2, <1>3, <1>10, Zenon
<1>5. /\ Core' /\ Len(tasks') >= Len(q)
      /\ Removed(q) => Removed(tasks)'
      /\ events' \subseteq {"in", "out"} /\ registered' \in BOOLEAN /\ added' \in BOOLEAN
      /\ added => added'
      /\ state_ = "kDisconnected" => UNCHANGED <<events, registered, added>>
      /\ (isWriting <=> outputBuffer_ # <<>>) => (isWriting' <=> outputBuffer_' # <<>>)
  BY <1>1, <1>3, <1>4, <1>10, <1>11, SendCore, ZenonT(30)
<1>6. ConnTypes'
  <2>1. Len(tasks') \in Nat /\ Len(tasks) \in Nat
    BY <1>5, LenProperties, Zenon DEF Core
  <2>2. batch' <= Len(tasks')
    BY <2>1, <1>2, <1>3, <1>5
  <2>3. QED
    BY <1>1, <1>2, <1>5, <2>2, NoLapse, Zenon DEF ConnTypes
<1>7. ASSUME lapses' = {} PROVE Agreed'
  <2>1. Agreed /\ lapses = {}
    BY <1>7, NoLapse, Zenon DEF Rest
  <2>2. WritesWhenNeeded'
    BY <2>1, <1>1, <1>5, Zenon DEF Agreed, WritesWhenNeeded, Open
  <2>3. QED
    BY <1>1, <1>2, <1>3, <1>5, <2>1, <2>2, Zenon DEF Agreed, Open
<1>8. Rest'
  BY <1>1, <1>2, <1>7, Zenon DEF Rest, NotYet
<1>9. QED
  BY <1>5, <1>6, <1>8, Zenon

\* handleClose of an open connection (TcpConnection.cc:408-421).
LEMMA CloseHolds ==
    ASSUME ConnInv, LapseStep, UNCHANGED bareThis, handleClose, UNCHANGED owner,
           lapses = {} => state_ # "kDisconnected", revents' \subseteq {"error", "write"},
           Removed(tasks) => Removed(tasks)'
    PROVE  /\ state_' = "kDisconnected" /\ events' = {} /\ registered' \in BOOLEAN /\ added' = TRUE
           /\ downs' \in Nat
           /\ lapses' = {} => Agreed'
<1>1. /\ state_' = "kDisconnected" /\ events' = {} /\ registered' \in BOOLEAN /\ added' = TRUE
      /\ downs' = downs + 1 /\ downs \in Nat /\ callback' = "closing"
  BY UpdateHolds, Zenon DEF handleClose, ConnInv, ConnTypes
<1>2. ASSUME lapses' = {} PROVE Agreed'
  <2>1. Agreed /\ ~registered' /\ state_ # "kDisconnected"
    BY <1>1, <1>2, NoLapse, Zenon DEF ConnInv, Rest
  <2>2. QED
    BY <1>1, <2>1 DEF Agreed, Open, WritesWhenNeeded
<1>3. QED
  BY <1>1, <1>2

\* forceCloseInLoop (TcpConnection.cc:261-269).
LEMMA ForceCloseKeeps == ASSUME ConnInv, LapseStep, UNCHANGED bareThis, forceCloseInLoop PROVE ConnInv'
<1> USE DEF ConnInv
<1>1. /\ Next_("forceClose") /\ tasks' = Tail(tasks)
      /\ UNCHANGED <<outputBuffer_, wire, writeShut, userVars, revents>>
      /\ \/ state_ \in {"kConnected", "kDisconnecting"} /\ handleClose
         \/ UNCHANGED <<state_, poller, downs, callback>>
  BY Zenon DEF forceCloseInLoop, closes, NotTheNet, NotTheUsers, netVars
<1>2. /\ state_ # "kConnecting" /\ batch > 0 /\ batch' \in Int /\ batch' <= Len(tasks) - 1
      /\ revents = {} /\ Head(tasks).f # "destroyed" /\ callback = "none"
  BY <1>1, HeadHolds
<1>3. CASE state_ \in {"kConnected", "kDisconnecting"} /\ handleClose
  <2>1. Core' /\ Len(tasks') = Len(tasks) - 1 /\ (Removed(tasks) => Removed(tasks)')
    BY <1>1, <1>2, TakenCore, Zenon DEF userVars
  <2>2. /\ state_' = "kDisconnected" /\ events' = {} /\ registered' \in BOOLEAN /\ added' = TRUE
        /\ downs' \in Nat /\ (lapses' = {} => Agreed')
    BY <1>1, <1>2, <1>3, <2>1, CloseHolds, Zenon DEF userVars
  <2>3. ConnTypes'
    BY <1>1, <1>2, <2>1, <2>2, NoLapse, ZenonT(30) DEF ConnTypes, userVars
  <2>4. Rest'
    BY <1>1, <2>2, Zenon DEF Rest, NotYet, userVars
  <2>5. QED
    BY <2>1, <2>3, <2>4, Zenon
<1>4. CASE UNCHANGED <<state_, poller, downs, callback>>
  <2>1. writeShut' \in BOOLEAN /\ callback' # "destroying"
    BY <1>1, <1>2, <1>4, Zenon DEF ConnTypes
  <2>2. QED
    BY <1>1, <1>4, <2>1, QuietKeeps, Zenon
<1>5. QED
  BY <1>1, <1>3, <1>4, Zenon

\* A stage of handleEventWithGuard is of a connection that is established,
\* and close and read come of one that is open unless there was a lapse.
LEMMA StageHolds ==
    ASSUME ConnInv, NEW x, Stage(x)
    PROVE  /\ state_ # "kConnecting" /\ callback = "none" /\ x \in DOMAIN stages /\ x \in revents
           /\ revents' = revents \ {x} /\ UNCHANGED <<batch, userVars>>
           /\ x \in {"close", "read"} => /\ lapses = {} => state_ # "kDisconnected"
                                         /\ revents' \subseteq {"error", "write"}
<1> USE DEF ConnInv
<1>1. callback = "none" /\ x \in revents /\ revents' = revents \ {x} /\ UNCHANGED <<batch, userVars>>
  BY Zenon DEF Stage
<1>2. revents \subseteq {"close", "error", "read", "write"} /\ x \in DOMAIN stages
  BY <1>1, Zenon DEF ConnTypes, stages
<1>3. state_ # "kConnecting"
  BY <1>1, Zenon DEF Rest, NotYet
<1>4. ASSUME x \in {"close", "read"}
      PROVE  /\ lapses = {} => state_ # "kDisconnected"
             /\ revents' \subseteq {"error", "write"}
  <2>1. lapses = {} => state_ # "kDisconnected"
    BY <1>1, <1>4, Zenon DEF Rest, Agreed
  <2>2. revents' \subseteq {"error", "write"}
    BY <1>1, <1>2, <1>4, Zenon DEF Rest
  <2>3. QED
    BY <2>1, <2>2, Zenon
<1>5. QED
  BY <1>1, <1>2, <1>3, <1>4, Zenon

\* closeStage, and handleRead at the end of the input: handleClose.
LEMMA StageClosesKeeps ==
    ASSUME ConnInv, LapseStep, UNCHANGED bareThis, NEW x \in {"close", "read"}, Stage(x), handleClose,
           UNCHANGED <<tasks, outputBuffer_, wire, writeShut>>
    PROVE  ConnInv'
<1> USE DEF ConnInv
<1>1. /\ state_ # "kConnecting" /\ revents' = revents \ {x} /\ UNCHANGED <<batch, userVars>>
      /\ lapses = {} => state_ # "kDisconnected"
      /\ revents' \subseteq {"error", "write"}
  BY StageHolds, Zenon
<1>2. UNCHANGED <<userAt, userRef, owner, calls>>
  BY <1>1, Zenon DEF userVars
<1>3. Core' /\ (Removed(tasks)' <=> Removed(tasks))
  <2>1. calls' \in Nat /\ calls <= calls'
    BY <1>2 DEF Core
  <2>2. QED
    BY <1>1, <1>2, <2>1, SameCore, SameSent, Zenon
<1>4. /\ state_' = "kDisconnected" /\ events' = {} /\ registered' \in BOOLEAN /\ added' = TRUE
      /\ downs' \in Nat /\ (lapses' = {} => Agreed')
  BY <1>1, <1>2, <1>3, CloseHolds, Zenon
<1>5. ConnTypes'
  BY <1>1, <1>2, <1>4, NoLapse, Zenon DEF ConnTypes
<1>6. Rest'
  BY <1>1, <1>2, <1>4, Zenon DEF Rest, NotYet
<1>7. QED
  BY <1>3, <1>5, <1>6, Zenon

\* Steps that leave state_, the channel's interest, the output and the
\* queue alone.
LEMMA SameKeeps ==
    ASSUME ConnInv, LapseStep, UNCHANGED bareThis,
           UNCHANGED <<state_, poller, outputBuffer_, wire, writeShut, tasks, downs, owner, userRef>>,
           calls' \in Nat, calls <= calls', batch' \in Int, batch' <= Len(tasks),
           callback' = callback \/ (callback = "none" /\ callback' # "destroying" /\ state_ # "kConnecting"),
           revents' \subseteq DOMAIN stages, "close" \notin revents' \/ "read" \notin revents',
           state_ = "kConnecting" => revents' = {},
           lapses = {} /\ state_ = "kDisconnected" => revents' \subseteq {"error", "write"},
           userAt' \in [Users -> Calls \cup {"idle"}],
           \A u \in Users : userAt'[u] # "idle" => u \in userRef /\ state_ # "kConnecting"
    PROVE  ConnInv'
<1> USE DEF ConnInv, poller
<1>1. Core' /\ (Removed(tasks)' <=> Removed(tasks))
  BY SameCore, SameSent, ZenonT(30)
<1>2. ConnTypes'
  BY NoLapse, Zenon DEF ConnTypes
<1>3. ASSUME lapses' = {} PROVE Agreed'
  <2>1. Agreed /\ lapses = {}
    BY <1>3, NoLapse, Zenon DEF Rest
  <2>2. WritesWhenNeeded'
    BY <2>1, Zenon DEF Agreed, WritesWhenNeeded, isWriting, Open
  <2>3. QED
    BY <1>1, <2>1, <2>2, Zenon DEF Agreed, Open
<1>4. NotYet'
  BY Zenon DEF Rest, NotYet
<1>5. Rest'
  BY <1>3, <1>4, ZenonT(30) DEF Rest
<1>6. QED
  BY <1>1, <1>2, <1>5, Zenon

\* handleError, and handleRead of data or of an error (TcpConnection.cc:347-366,
\* 423-428).
LEMMA StageQuietKeeps ==
    ASSUME ConnInv, LapseStep, UNCHANGED bareThis, NEW x, Stage(x), callback' = callback \/ callback' = "message",
           UNCHANGED <<state_, poller, outputBuffer_, wire, writeShut, tasks, downs>>
    PROVE  ConnInv'
<1> USE DEF ConnInv
<1>1. /\ state_ # "kConnecting" /\ callback = "none" /\ revents' = revents \ {x}
      /\ UNCHANGED <<batch, userAt, userRef, owner, calls>>
  BY StageHolds, Zenon DEF userVars
<1>2. /\ revents' \subseteq DOMAIN stages /\ ("close" \notin revents' \/ "read" \notin revents')
      /\ lapses = {} /\ state_ = "kDisconnected" => revents' \subseteq {"error", "write"}
  BY <1>1, Zenon DEF ConnTypes, Rest, Agreed
<1>3. /\ calls' \in Nat /\ calls <= calls' /\ batch' \in Int /\ batch' <= Len(tasks)
      /\ userAt' \in [Users -> Calls \cup {"idle"}]
      /\ \A u \in Users : userAt'[u] # "idle" => u \in userRef
  BY <1>1 DEF ConnTypes, Core, Rest
<1>4. QED
  BY <1>1, <1>2, <1>3, SameKeeps, Zenon

LEMMA StagesKeep ==
    ASSUME ConnInv, LapseStep, UNCHANGED bareThis, closeStage \/ handleError \/ handleRead PROVE ConnInv'
<1>1. CASE closeStage
  <2>1. Stage("close") /\ handleClose /\ UNCHANGED <<tasks, outputBuffer_, wire, writeShut>>
    BY <1>1, Zenon DEF closeStage
  <2>2. QED
    BY <2>1, StageClosesKeeps, Zenon
<1>2. CASE handleError
  <2>1. Stage("error") /\ UNCHANGED <<state_, poller, outputBuffer_, wire, writeShut, tasks, downs, callback>>
    BY <1>2, Zenon DEF handleError
  <2>2. QED
    BY <2>1, StageQuietKeeps, Zenon
<1>3. CASE handleRead
  <2>1. Stage("read") /\ UNCHANGED <<tasks, outputBuffer_, wire, writeShut>>
    BY <1>3, Zenon DEF handleRead
  <2>2. \/ handleClose
        \/ UNCHANGED <<state_, poller, downs>> /\ (callback' = callback \/ callback' = "message")
    BY <1>3, Zenon DEF handleRead
  <2>3. CASE handleClose
    BY <2>1, <2>3, StageClosesKeeps, Zenon
  <2>4. CASE UNCHANGED <<state_, poller, downs>> /\ (callback' = callback \/ callback' = "message")
    BY <2>1, <2>4, StageQuietKeeps, Zenon
  <2>5. QED
    BY <2>2, <2>3, <2>4, Zenon
<1>4. QED
  BY <1>1, <1>2, <1>3, Zenon

\* handleWrite: the interest in writing ends with the output, and in
\* kDisconnecting the FIN follows (TcpConnection.cc:368-406).
LEMMA WriteKeeps == ASSUME ConnInv, LapseStep, UNCHANGED bareThis, handleWrite PROVE ConnInv'
<1> USE DEF ConnInv
<1>1. Stage("write") /\ UNCHANGED <<state_, callback, downs>>
  BY Zenon DEF handleWrite, writes
<1>2. /\ state_ # "kConnecting" /\ callback = "none" /\ revents' = revents \ {"write"}
      /\ UNCHANGED <<batch, userAt, userRef, owner, calls>>
  BY <1>1, StageHolds, Zenon DEF userVars
<1> DEFINE b == Len(outputBuffer_)
           m == Functor("complete", Loop, 0)
<1>3. PICK k \in IF isWriting /\ peer \in {"open", "fin"} THEN 1 .. b ELSE {0} :
        /\ wire' = wire \o SubSeq(outputBuffer_, 1, k)
        /\ outputBuffer_' = SubSeq(outputBuffer_, k + 1, b)
        /\ IF k > 0 /\ k = b
           THEN /\ update(events \ {"out"}) /\ Queued(Loop, "complete", 0)
                /\ writeShut' = (writeShut \/ state_ = "kDisconnecting")
           ELSE UNCHANGED <<poller, tasks, writeShut>>
  BY Zenon DEF handleWrite, writes
<1>4. b \in Nat /\ k \in 0 .. b /\ (k # 0 => isWriting)
  BY <1>3, LenProperties DEF Core
<1>5. /\ wire' \in Seq(Messages) /\ outputBuffer_' \in Seq(Messages) /\ Sent' = Sent
      /\ outputBuffer_' = <<>> <=> k = b
  BY <1>3, <1>4, MovedSame, Zenon
<1>6. outputBuffer_ = <<>> <=> b = 0
  BY EmptyLen, ZenonT(30) DEF Core
<1>7. revents' \subseteq DOMAIN stages /\ ("close" \notin revents' \/ "read" \notin revents')
      /\ (lapses = {} /\ state_ = "kDisconnected" => revents' \subseteq {"error", "write"})
  BY <1>2, Zenon DEF ConnTypes, Rest, Agreed
<1>8. calls' \in Nat /\ calls <= calls'
  BY <1>2 DEF Core
<1>9. CASE ~(k > 0 /\ k = b)
  <2>1. UNCHANGED <<poller, tasks, writeShut>>
    BY <1>3, <1>9, Zenon
  <2>2. Core' /\ (Removed(tasks)' <=> Removed(tasks))
    BY <1>1, <1>2, <1>5, <1>8, <2>1, SameCore, ZenonT(30)
  <2>3. ConnTypes'
    BY <1>1, <1>2, <1>7, <2>1, NoLapse, ZenonT(30) DEF ConnTypes, poller
  <2>4. ASSUME lapses' = {} PROVE Agreed'
    <3>1. Agreed /\ lapses = {}
      BY <2>4, NoLapse, Zenon DEF Rest
    <3>2. (isWriting <=> outputBuffer_ # <<>>) => (isWriting' <=> outputBuffer_' # <<>>)
      BY <1>4, <1>5, <1>6, <1>9, <2>1 DEF isWriting, poller
    <3>3. WritesWhenNeeded'
      BY <1>1, <3>1, <3>2, ZenonT(30) DEF Agreed, WritesWhenNeeded, Open
    <3>4. QED
      BY <1>1, <1>2, <1>7, <2>1, <2>2, <3>1, <3>3, Zenon DEF Agreed, Open, poller
  <2>5. Rest'
    BY <1>1, <1>2, <1>7, <2>4, Zenon DEF Rest, NotYet
  <2>6. QED
    BY <2>2, <2>3, <2>5, Zenon
<1>10. CASE k > 0 /\ k = b
  <2>1. /\ update(events \ {"out"}) /\ tasks' = Append(tasks, m)
        /\ writeShut' = (writeShut \/ state_ = "kDisconnecting")
    BY <1>3, <1>10, Zenon DEF Queued
  <2>2. m \in Functors /\ m.f = "complete"
    BY ZenonT(30) DEF Functors, Functor, Shared
  <2>3. /\ Core' /\ Len(tasks') = Len(tasks) + 1
        /\ Removed(tasks) => Removed(tasks)'
    BY <1>1, <1>2, <1>5, <1>8, <2>1, <2>2, QueuedCore, Zenon DEF Shared
  <2>4. events' = events \ {"out"} /\ registered' \in BOOLEAN /\ added' = TRUE /\ (~registered => registered')
    BY <2>1, UpdateHolds, ZenonT(30)
  <2>5. ConnTypes'
    <3>1. writeShut' \in BOOLEAN /\ events' \subseteq {"in", "out"} /\ Len(tasks) \in Nat
      BY <2>1, <2>4, LenProperties, Zenon DEF ConnTypes, Core
    <3>2. batch' \in Int /\ batch' <= Len(tasks')
      BY <1>2, <2>3, <3>1 DEF ConnTypes
    <3>3. QED
      BY <1>1, <1>2, <1>7, <2>4, <3>1, <3>2, NoLapse, Zenon DEF ConnTypes
  <2>6. ASSUME lapses' = {} PROVE Agreed'
    <3>1. Agreed /\ lapses = {} /\ ~(state_' = "kDisconnected" /\ registered')
      BY <2>6, NoLapse, Zenon DEF Rest
    <3>2. WritesWhenNeeded'
      BY <1>5, <1>10, <2>4, Zenon DEF WritesWhenNeeded, isWriting
    <3>3. state_ # "kDisconnected"
      BY <1>1, <2>4, <3>1, ZenonT(30) DEF Agreed
    <3>4. QED
      BY <1>1, <1>2, <2>3, <2>4, <3>1, <3>2, <3>3, Zenon DEF Agreed, Open
  <2>7. Rest'
    BY <1>1, <1>2, <1>7, <2>6, Zenon DEF Rest, NotYet
  <2>8. QED
    BY <2>3, <2>5, <2>7, Zenon
<1>11. QED
  BY <1>9, <1>10, Zenon

\* poll reports close or read, not both, and nothing for an fd that is not
\* in the interest list (Channel.cc:84-117).
LEMMA PollKeeps == ASSUME ConnInv, LapseStep, UNCHANGED bareThis, poll PROVE ConnInv'
<1> USE DEF ConnInv
<1>1. /\ callback = "none" /\ batch' = Polled
      /\ UNCHANGED <<state_, poller, outputBuffer_, wire, writeShut, tasks, downs, userVars, callback>>
  BY Zenon DEF poll, LoopIdle, NotTheNet, netVars
<1>2. /\ revents' \subseteq DOMAIN stages /\ ("close" \notin revents' \/ "read" \notin revents')
      /\ ~registered => revents' = {}
  <2> DEFINE readable == "in" \in events /\ (input > 0 \/ peer # "open")
             hup == peer \in {"reset", "dead"} \/ (peer = "fin" /\ writeShut)
             reported(out) == {x \in DOMAIN stages : \/ x = "close" /\ hup /\ ~readable
                                                     \/ x = "error" /\ peer = "reset"
                                                     \/ x = "read" /\ readable
                                                     \/ x = "write" /\ out}
  <2>1. PICK out \in {isWriting, FALSE} : revents' = IF registered /\ Alive THEN reported(out) ELSE {}
    BY Zenon DEF poll
  <2> HIDE DEF hup, readable
  <2>2. QED
    BY <2>1, Zenon
<1>3. UNCHANGED <<userAt, userRef, owner, calls>>
  BY <1>1, Zenon DEF userVars
<1>4. /\ state_ = "kConnecting" => revents' = {}
      /\ lapses = {} /\ state_ = "kDisconnected" => revents' \subseteq {"error", "write"}
  BY <1>2, Zenon DEF Rest, NotYet, Agreed
<1>5. batch' \in Int /\ batch' <= Len(tasks) /\ calls' \in Nat /\ calls <= calls'
  BY <1>1, <1>3, LenProperties DEF Core, Polled
<1>6. /\ userAt' \in [Users -> Calls \cup {"idle"}]
      /\ \A u \in Users : userAt'[u] # "idle" => u \in userRef /\ state_ # "kConnecting"
  BY <1>3, Zenon DEF ConnTypes, Rest, NotYet
<1>7. QED
  BY <1>1, <1>2, <1>3, <1>4, <1>5, <1>6, SameKeeps, Zenon

\* doPendingFunctors, and what the other end does.
LEMMA OutsideKeeps == ASSUME ConnInv, LapseStep, UNCHANGED bareThis, doPendingFunctors \/ peerActs PROVE ConnInv'
<1> USE DEF ConnInv
<1>1. UNCHANGED <<state_, poller, outputBuffer_, wire, writeShut, tasks, downs, callback, revents,
                  userAt, userRef, owner, calls>>
  BY Zenon DEF doPendingFunctors, peerActs, NotTheNet, NotTheUsers, netVars, userVars, channelVars
<1>2. batch' = batch \/ batch' = Len(tasks)
  BY Zenon DEF doPendingFunctors, peerActs
<1>3. batch' \in Int /\ batch' <= Len(tasks) /\ calls' \in Nat /\ calls <= calls'
  BY <1>1, <1>2, LenProperties, SMTT(30) DEF Core, ConnTypes
<1>4. /\ revents' \subseteq DOMAIN stages /\ ("close" \notin revents' \/ "read" \notin revents')
      /\ state_ = "kConnecting" => revents' = {}
      /\ lapses = {} /\ state_ = "kDisconnected" => revents' \subseteq {"error", "write"}
  BY <1>1, Zenon DEF ConnTypes, Rest, NotYet, Agreed
<1>5. /\ userAt' \in [Users -> Calls \cup {"idle"}]
      /\ \A u \in Users : userAt'[u] # "idle" => u \in userRef /\ state_ # "kConnecting"
  BY <1>1, ZenonT(30) DEF ConnTypes, Rest, NotYet
<1>6. QED
  BY <1>1, <1>3, <1>4, <1>5, SameKeeps, Zenon

\* send, shutdown, forceClose and forceCloseWithDelay test state_ in another
\* thread.
LEMMA TestKeeps ==
    ASSUME ConnInv, LapseStep, UNCHANGED bareThis, NEW t \in Users \cup {Loop}, NEW f \in Calls, test(t, f) PROVE ConnInv'
<1> USE DEF ConnInv
<1>1. /\ t \in Users /\ t \in userRef /\ calls' = calls /\ userAt' = [userAt EXCEPT ![t] = f]
      /\ state_ \in {"kConnected", "kDisconnecting"}
      /\ UNCHANGED <<state_, poller, outputBuffer_, wire, writeShut, tasks, downs, callback, revents,
                     userRef, owner, batch>>
  BY Zenon DEF test, CanCall, Allowed, Steady
<1>2. batch' \in Int /\ batch' <= Len(tasks) /\ calls' \in Nat /\ calls <= calls'
  BY <1>1 DEF Core, ConnTypes
<1>3. /\ revents' \subseteq DOMAIN stages /\ ("close" \notin revents' \/ "read" \notin revents')
      /\ lapses = {} /\ state_ = "kDisconnected" => revents' \subseteq {"error", "write"}
  BY <1>1, Zenon DEF ConnTypes, Rest, Agreed
<1>4. /\ userAt' \in [Users -> Calls \cup {"idle"}]
      /\ \A u \in Users : userAt'[u] # "idle" => u \in userRef
  BY <1>1, Zenon DEF ConnTypes, Rest
<1>5. QED
  BY <1>1, <1>2, <1>3, <1>4, SameKeeps, Zenon

\* A user callback returns; connectDestroyed goes on to remove the channel
\* (TcpConnection.cc:340-344, 415-420).
LEMMA ReturnsKeeps == ASSUME ConnInv, LapseStep, UNCHANGED bareThis, callbackReturns PROVE ConnInv'
<1> USE DEF ConnInv
<1>1. /\ callback # "none" /\ callback' = "none"
      /\ owner' = IF callback = "closing" /\ owner = "holds" THEN "removing" ELSE owner
      /\ IF callback = "destroying" THEN added' = FALSE /\ registered' = FALSE
                                    ELSE UNCHANGED <<added, registered>>
      /\ UNCHANGED <<state_, events, outputBuffer_, wire, writeShut, tasks, downs, revents,
                     userAt, userRef, calls, batch>>
  BY Zenon DEF callbackReturns, NotTheNet, netVars
<1>2. calls' \in Nat /\ calls <= calls'
  BY <1>1 DEF Core
<1>3. Core' /\ (Removed(tasks)' <=> Removed(tasks))
  BY <1>1, <1>2, SameCore, SameSent, Zenon
<1>4. ConnTypes'
  BY <1>1, NoLapse, Zenon DEF ConnTypes
<1>5. state_ # "kConnecting"
  BY <1>1, Zenon DEF Rest, NotYet
<1>6. ASSUME lapses' = {} PROVE Agreed'
  <2>1. Agreed /\ lapses = {} /\ (owner' = "released" <=> owner = "released")
    BY <1>1, <1>6, NoLapse, Zenon DEF Rest
  <2>2. WritesWhenNeeded'
    BY <1>1, <2>1, Zenon DEF Agreed, WritesWhenNeeded, isWriting, Open
  <2>3. CASE callback = "destroying"
    <3>1. state_' = "kDisconnected" /\ ~added' /\ ~registered'
      BY <1>1, <2>1, <2>3, Zenon DEF Agreed
    <3>2. QED
      BY <1>1, <2>1, <2>2, <3>1, Zenon DEF Agreed, Open
  <2>4. CASE callback # "destroying"
    BY <1>1, <1>3, <2>1, <2>2, <2>4, Zenon DEF Agreed, Open
  <2>5. QED
    BY <2>3, <2>4, Zenon
<1>7. Rest'
  BY <1>1, <1>5, <1>6, Zenon DEF Rest, NotYet
<1>8. QED
  BY <1>3, <1>4, <1>7, Zenon

\* Calls of public functions, the timer and the owner: state_ may become
\* kDisconnecting, and a functor may be queued.
LEMMA CallKeeps ==
    ASSUME ConnInv, LapseStep, UNCHANGED bareThis,
           UNCHANGED <<poller, outputBuffer_, wire, downs, userRef, callback, revents, batch>>,
           writeShut' \in BOOLEAN, calls' \in Nat, calls <= calls',
           userAt' \in [Users -> Calls \cup {"idle"}],
           \A u \in Users : userAt'[u] # "idle" => userAt[u] = userAt'[u],
           state_' = state_ \/ (state_' = "kDisconnecting" /\ state_ # "kConnecting"),
           \/ UNCHANGED <<tasks, owner>>
           \/ \E m \in Functors :
                 /\ tasks' = Append(tasks, m) /\ m.f # "established"
                 /\ m.f = "send" => m.n = calls + 1 /\ calls' = calls + 1
                 /\ m.f \notin Shared => m.by \in userRef
                 /\ owner' = owner \/ (owner' = "released" /\ m.f = "destroyed")
    PROVE  ConnInv'
<1> USE DEF ConnInv, poller
<1>1. /\ Core' /\ Len(tasks) \in Nat /\ Len(tasks') >= Len(tasks)
      /\ tasks # <<>> => tasks' # <<>> /\ tasks'[1] = tasks[1]
      /\ Removed(tasks) => Removed(tasks)'
      /\ owner' = owner \/ (owner' = "released" /\ Removed(tasks)')
  <2>0. Len(tasks) \in Nat
    BY LenProperties, Zenon DEF Core
  <2>1. CASE UNCHANGED <<tasks, owner>>
    BY <2>0, <2>1, SameCore, SameSent, SMTT(30)
  <2>2. ASSUME NEW m \in Functors,
               tasks' = Append(tasks, m), m.f # "established",
               m.f = "send" => m.n = calls + 1 /\ calls' = calls + 1,
               m.f \notin Shared => m.by \in userRef,
               owner' = owner \/ (owner' = "released" /\ m.f = "destroyed")
        PROVE  <1>1!:
    <3>1. /\ Core' /\ Len(tasks') = Len(tasks) + 1
          /\ Removed(tasks) \/ m.f = "destroyed" => Removed(tasks)'
          /\ tasks # <<>> => tasks' # <<>> /\ tasks'[1] = tasks[1]
      BY <2>2, QueuedCore, SameSent, Zenon
    <3>2. QED
      BY <2>0, <2>2, <3>1
  <2>3. QED
    BY <2>1, <2>2, Zenon
<1>2. ConnTypes'
  <2>1. batch' \in Int /\ batch' <= Len(tasks')
    BY <1>1, LenProperties DEF ConnTypes, Core
  <2>2. QED
    BY <1>1, <2>1, NoLapse, ZenonT(30) DEF ConnTypes
<1>3. ASSUME lapses' = {} PROVE Agreed'
  <2>1. Agreed /\ lapses = {} /\ ~(state_ = "kDisconnected" /\ state_' = "kDisconnecting")
    BY <1>3, NoLapse, ZenonT(30) DEF Rest
  <2>2. /\ state_' = "kDisconnected" <=> state_ = "kDisconnected"
        /\ Open' => Open
    BY <2>1, Zenon DEF ConnTypes, Open
  <2>3. WritesWhenNeeded'
    BY <2>1, <2>2, Zenon DEF Agreed, WritesWhenNeeded, isWriting
  <2>4. QED
    BY <1>1, <2>1, <2>2, <2>3, Zenon DEF Agreed
<1>4. NotYet'
  BY <1>1, ZenonT(30) DEF Rest, NotYet
<1>5. Rest'
  BY <1>3, <1>4, Zenon DEF Rest
<1>6. QED
  BY <1>1, <1>2, <1>5, ZenonT(30)

\* The timer of forceCloseWithDelay (TcpConnection.cc:249-259), and the
\* owner that lets go (TcpServer.cc:39-51).
LEMMA TimerAndOwnerKeep == ASSUME ConnInv, LapseStep, UNCHANGED bareThis, timerFires \/ ownerRemoves PROVE ConnInv'
<1> USE DEF ConnInv
<1>1. /\ UNCHANGED <<poller, outputBuffer_, wire, writeShut, downs, userRef, userAt, calls, callback,
                     revents, batch>>
  BY Zenon DEF timerFires, ownerRemoves, NotTheNet, netVars, userVars, channelVars
<1>2. /\ writeShut' \in BOOLEAN /\ calls' \in Nat /\ calls <= calls'
      /\ userAt' \in [Users -> Calls \cup {"idle"}]
      /\ \A u \in Users : userAt'[u] # "idle" => userAt[u] = userAt'[u]
  BY <1>1 DEF ConnTypes, Core
<1>3. CASE timerFires
  <2>1. owner' = owner
    BY <1>3, Zenon DEF timerFires, userVars
  <2>2. \/ /\ state_' = "kDisconnecting" /\ state_ # "kConnecting"
           /\ tasks' = Append(tasks, Functor("forceClose", Loop, 0))
        \/ UNCHANGED <<state_, tasks>>
    BY <1>3, Zenon DEF timerFires, Queued, Open
  <2>3. /\ Functor("forceClose", Loop, 0) \in Functors
        /\ Functor("forceClose", Loop, 0).f = "forceClose" /\ "forceClose" \in Shared
    BY Zenon DEF Functor, Functors, Shared
  <2>4. QED
    BY <1>1, <1>2, <2>1, <2>2, <2>3, CallKeeps, Zenon
<1>4. CASE ownerRemoves
  <2>1. owner' = "released" /\ tasks' = Append(tasks, Functor("destroyed", Loop, 0)) /\ state_' = state_
    BY <1>4, Zenon DEF ownerRemoves, Queued
  <2>2. /\ Functor("destroyed", Loop, 0) \in Functors
        /\ Functor("destroyed", Loop, 0).f = "destroyed" /\ "destroyed" \in Shared
    BY Zenon DEF Functor, Functors, Shared
  <2>3. QED
    BY <1>1, <1>2, <2>1, <2>2, CallKeeps, Zenon
<1>5. QED
  BY <1>3, <1>4, Zenon

\* shutdown, forceClose and forceCloseWithDelay set state_, which another
\* thread may do after the connection has closed (TcpConnection.cc:194-259).
LEMMA SetKeeps ==
    ASSUME ConnInv, LapseStep, UNCHANGED bareThis, NEW t \in Users \cup {Loop}, NEW f \in Calls, set(t, f) PROVE ConnInv'
<1> USE DEF ConnInv
<1>1. /\ UNCHANGED <<poller, outputBuffer_, wire, downs, userRef, owner, callback, revents, batch>>
      /\ state_' = "kDisconnecting"
      /\ writeShut' = (writeShut \/ ~isWriting) \/ writeShut' = writeShut
      /\ \/ /\ f = "forceClose" \/ (f = "shutdown" /\ t # Loop)
            /\ tasks' = Append(tasks, Functor(f, t, 0))
         \/ tasks' = tasks
  BY Zenon DEF set, channelVars, shutdownInLoop, Queued
<1>2. /\ calls' \in Nat /\ calls <= calls' /\ state_ # "kConnecting"
      /\ userAt' \in [Users -> Calls \cup {"idle"}]
      /\ \A u \in Users : userAt'[u] # "idle" => userAt[u] = userAt'[u]
      /\ t # Loop => t \in Users /\ t \in userRef
  <2>1. CASE t # Loop
    <3>1. t \in Users /\ userAt[t] = f /\ f # "idle"
      BY <2>1, Zenon DEF set, Tested, Calls
    <3>2. userAt' = [userAt EXCEPT ![t] = "idle"] /\ calls' = calls + 1
      BY <2>1, Zenon DEF set, Tested
    <3>3. /\ calls \in Nat /\ userAt \in [Users -> Calls \cup {"idle"}]
          /\ state_ = "kConnecting" => \A u \in Users : userAt[u] = "idle"
          /\ \A u \in Users : userAt[u] # "idle" => u \in userRef
      BY Zenon DEF Rest, NotYet, ConnTypes, Core
    <3>4. QED
      BY ONLY <2>1, <3>1, <3>2, <3>3
  <2>2. CASE t = Loop
    <3>1. calls' = calls + 1 /\ userAt' = userAt /\ state_ # "kConnecting"
      BY <2>2, Zenon DEF set, Tested, Allowed
    <3>2. QED
      BY <2>2, <3>1 DEF ConnTypes, Core
  <2>3. QED
    BY <2>1, <2>2, Zenon
<1>3. writeShut' \in BOOLEAN
  BY <1>1, ZenonT(30) DEF ConnTypes
<1>4. CASE tasks' = tasks
  BY <1>1, <1>2, <1>3, <1>4, CallKeeps, Zenon
<1>5. CASE tasks' = Append(tasks, Functor(f, t, 0)) /\ (f = "forceClose" \/ (f = "shutdown" /\ t # Loop))
  <2>1. /\ Functor(f, t, 0) \in Functors /\ Functor(f, t, 0).f = f /\ Functor(f, t, 0).by = t
        /\ f \notin {"established", "send"} /\ (f \notin Shared => t # Loop)
    BY <1>5, Zenon DEF Functor, Functors, Shared, Calls
  <2>2. QED
    BY <1>1, <1>2, <1>3, <1>5, <2>1, CallKeeps, ZenonT(30)
<1>6. QED
  BY <1>1, <1>4, <1>5, Zenon

\* startRead and stopRead (TcpConnection.cc:293-321).
LEMMA ReadCallKeeps ==
    ASSUME ConnInv, LapseStep, UNCHANGED bareThis, NEW t \in Users \cup {Loop}, NEW f \in {"startRead", "stopRead"},
           startOrStopRead(t, f)
    PROVE  ConnInv'
<1> USE DEF ConnInv
<1>1. /\ UNCHANGED <<state_, outputBuffer_, wire, writeShut, downs, userAt, userRef, owner, callback, revents, batch>>
      /\ calls' = calls + 1
      /\ IF t = Loop THEN callback # "none" ELSE t \in userRef
  BY Zenon DEF startOrStopRead, CanCall, netVars
<1>2. /\ writeShut' \in BOOLEAN /\ calls' \in Nat /\ calls <= calls'
      /\ userAt' \in [Users -> Calls \cup {"idle"}]
      /\ \A u \in Users : userAt'[u] # "idle" => userAt[u] = userAt'[u]
  BY <1>1, SMTT(30) DEF ConnTypes, Core
<1>3. CASE t # Loop
  <2>1. tasks' = Append(tasks, Functor(f, t, 0)) /\ UNCHANGED poller
    BY <1>3, Zenon DEF startOrStopRead, Queued
  <2>2. /\ Functor(f, t, 0) \in Functors /\ Functor(f, t, 0).f = f /\ Functor(f, t, 0).by = t
        /\ f \notin {"established", "send"}
    BY Zenon DEF Functor, Functors
  <2>3. QED
    BY <1>1, <1>2, <1>3, <2>1, <2>2, CallKeeps, Zenon
<1>4. CASE t = Loop
  <2>1. tasks' = tasks /\ (startReadInLoop \/ stopReadInLoop) /\ state_ # "kConnecting"
    BY <1>1, <1>4, ZenonT(30) DEF startOrStopRead, Rest, NotYet
  <2>2. Core' /\ (Removed(tasks)' <=> Removed(tasks))
    BY <1>1, <1>2, <2>1, SameCore, SameSent, Zenon
  <2>3. ConnTypes'
    BY <1>1, <1>2, <2>1, NoLapse, ReadHolds, ZenonT(30) DEF ConnTypes
  <2>4. lapses' = {} => Agreed'
    BY <1>1, <2>1, <2>2, ReadAgreed, Zenon
  <2>5. Rest'
    BY <1>1, <2>1, <2>4, Zenon DEF Rest, NotYet
  <2>6. QED
    BY <2>2, <2>3, <2>5, Zenon
<1>5. QED
  BY <1>3, <1>4, Zenon

\* send: from the loop at once, from another thread as a functor
\* (TcpConnection.cc:87-132).
LEMMA SendKeeps ==
    ASSUME ConnInv, LapseStep, UNCHANGED bareThis, NEW t \in Users \cup {Loop}, send(t) PROVE ConnInv'
<1> USE DEF ConnInv
<1>1. /\ UNCHANGED <<state_, writeShut, downs, userRef, owner, callback, revents, batch>>
      /\ calls' = calls + 1
      /\ IF t = Loop THEN callback # "none" /\ state_ = "kConnected" /\ userAt' = userAt
                     ELSE t \in Users /\ userAt[t] = "send" /\ userAt' = [userAt EXCEPT ![t] = "idle"]
  BY ZenonT(30) DEF send, Tested, CanCall, Allowed, Steady
<1>6. userAt \in [Users -> Calls \cup {"idle"}] /\ \A u \in Users : userAt[u] # "idle" => u \in userRef
  BY Zenon DEF ConnTypes, Rest
<1>2. /\ writeShut' \in BOOLEAN /\ calls \in Nat /\ calls' \in Nat /\ calls <= calls'
      /\ userAt' \in [Users -> Calls \cup {"idle"}]
      /\ \A u \in Users : userAt'[u] # "idle" => userAt[u] = userAt'[u]
      /\ t # Loop => t \in userRef
  <2>1. writeShut' \in BOOLEAN /\ calls \in Nat
    BY <1>1, Zenon DEF ConnTypes, Core
  <2>2. calls' \in Nat /\ calls <= calls'
    BY ONLY <1>1, <2>1
  <2>3. /\ userAt' \in [Users -> Calls \cup {"idle"}]
        /\ \A u \in Users : userAt'[u] # "idle" => userAt[u] = userAt'[u]
        /\ t # Loop => t \in userRef
    BY <1>1, <1>6, Zenon
  <2>4. QED
    BY <2>1, <2>2, <2>3, Zenon
<1>3. CASE t # Loop
  <2> DEFINE m == Functor("send", t, calls')
  <2>1. tasks' = Append(tasks, m) /\ UNCHANGED <<outputBuffer_, wire, poller>>
    BY <1>3, ZenonT(30) DEF send, Queued
  <2>2. m \in Functors /\ m.f = "send" /\ m.by = t /\ m.n = calls + 1
    BY <1>1, <1>2, Zenon DEF Functor, Functors
  <2> HIDE DEF m
  <2>3. QED
    BY <1>1, <1>2, <1>3, <2>1, <2>2, CallKeeps, Zenon
<1>4. CASE t = Loop
  <2> DEFINE x == Message(t, calls')
  <2>1. sendInLoop(x, tasks)
    BY <1>4, Zenon DEF send
  <2>8. x \in Messages /\ x.by = Loop /\ x.n = calls'
    BY <1>2, <1>4, Zenon DEF Messages, Message
  <2> HIDE DEF x
  <2>2. /\ \A i \in 1 .. Len(Sent) : Sent[i] # x /\ ((Sent[i].by = Loop <=> x.by = Loop) => Sent[i].n <= x.n)
        /\ tasks \in Seq(Functors) /\ Len(tasks) \in Nat
    <3>1. \A i \in 1 .. Len(Sent) : Sent[i].n \in Nat /\ Sent[i].n <= calls
      BY SentInSeq, SentNumbers, Zenon DEF Core
    <3>2. calls \in Nat /\ calls' = calls + 1
      BY <1>1, <1>2, Zenon
    <3>3. \A i \in 1 .. Len(Sent) : Sent[i].n # calls' /\ Sent[i].n <= calls'
      BY ONLY <3>1, <3>2
    <3>4. tasks \in Seq(Functors) /\ Len(tasks) \in Nat
      BY LenProperties, Zenon DEF Core
    <3>5. QED
      BY <2>8, <3>3, <3>4, Zenon
  <2>3. /\ Core' /\ Len(tasks') >= Len(tasks)
        /\ Removed(tasks) => Removed(tasks)'
        /\ events' \subseteq {"in", "out"} /\ registered' \in BOOLEAN /\ added' \in BOOLEAN
        /\ added => added'
        /\ (isWriting <=> outputBuffer_ # <<>>) => (isWriting' <=> outputBuffer_' # <<>>)
    <3>1. Fresh(tasks, Sent, calls) /\ Bare(tasks, Holders) /\ First(tasks, state_)
      BY Zenon DEF Core
    <3>2. UNCHANGED <<userRef, bareThis, state_>>
      BY <1>1, Zenon
    <3>3. calls' <= calls'
      BY ONLY <1>2
    <3>4. QED
      BY <1>2, <2>1, <2>2, <2>8, <3>1, <3>2, <3>3, SendCore, Zenon
  <2>4. ConnTypes'
    <3>1. batch' \in Int /\ batch' <= Len(tasks')
      <4>1. tasks' \in Seq(Functors) /\ batch' = batch /\ batch \in Int /\ batch <= Len(tasks)
        BY <1>1, <2>3, Zenon DEF ConnTypes, Core
      <4>2. Len(tasks') \in Nat /\ Len(tasks) \in Nat /\ Len(tasks') >= Len(tasks)
        BY <2>2, <2>3, <4>1, LenProperties, Zenon
      <4>3. QED
        BY ONLY <4>1, <4>2
    <3>2. QED
      BY <1>1, <1>2, <2>3, <3>1, NoLapse, ZenonT(30) DEF ConnTypes
  <2>5. ASSUME lapses' = {} PROVE Agreed'
    <3>1. Agreed /\ lapses = {}
      BY <2>5, NoLapse, ZenonT(30) DEF Rest
    <3>2. WritesWhenNeeded'
      BY <3>1, <1>1, <1>4, <2>3, Zenon DEF Agreed, WritesWhenNeeded, Open
    <3>3. QED
      BY <1>1, <1>4, <2>3, <3>1, <3>2, Zenon DEF Agreed, Open
  <2>6. Rest'
    BY <1>1, <1>4, <1>6, <2>5, Zenon DEF Rest, NotYet
  <2>7. QED
    BY <2>3, <2>4, <2>6, Zenon
<1>5. QED
  BY <1>3, <1>4, ZenonT(30)

\* A user lets go of its pointer, which leaves a functor of its with a bare
\* "this" an orphan; and such a functor is run without an object.
LEMMA DropKeeps ==
    ASSUME ConnInv, LapseStep, dangles \/ \E u \in Users : dropRef(u) PROVE ConnInv'
<1> USE DEF ConnInv
<1> DEFINE Goes(u) ==
             /\ (u \in Users => userAt[u] = "idle") /\ userRef' = userRef \ {u}
             /\ \/ bareThis' \in {"orphaned", "dangling"}
                \/ bareThis' = bareThis /\ \A i \in DOMAIN tasks : tasks[i].f \notin Shared => tasks[i].by # u
<1>0. /\ UNCHANGED <<state_, events, registered, added, outputBuffer_, wire, writeShut, tasks, downs,
                     callback, revents, userAt, owner, calls, batch>>
      /\ \E u \in Users \cup {Loop} : Goes(u)
  <2>1. CASE dangles
    <3>1. userRef \ {Loop} = userRef
      BY ConnAssumption, Zenon DEF ConnTypes
    <3>2. Goes(Loop)
      BY <2>1, <3>1, ConnAssumption, Zenon DEF dangles, userVars
    <3>3. QED
      BY <2>1, <3>2, Zenon DEF dangles, channelVars, poller, netVars, userVars
  <2>2. ASSUME NEW u \in Users, dropRef(u) PROVE <1>0!:
    <3>1. Goes(u)
      BY <2>2, Zenon DEF dropRef
    <3>2. QED
      BY <2>2, <3>1, Zenon DEF dropRef, channelVars, poller, netVars
  <2>3. QED
    BY <2>1, <2>2, Zenon
<1>1. PICK u \in Users \cup {Loop} :
      /\ UNCHANGED <<state_, events, registered, added, outputBuffer_, wire, writeShut, tasks, downs,
                     callback, revents, userAt, owner, calls, batch>>
      /\ Goes(u)
  BY <1>0, Zenon
<1>2. Sent' = Sent
  BY <1>1, Zenon DEF Sent
<1>8. Bare(tasks, Holders)'
  <2>1. CASE bareThis' = "safe"
    <3>1. bareThis = "safe" /\ \A i \in DOMAIN tasks : tasks[i].f \notin Shared => tasks[i].by # u
      BY <1>1, <2>1, Zenon
    <3>2. QED
      BY <1>1, <2>1, <3>1, Zenon DEF Core, Bare, Holders
  <2>2. CASE bareThis' # "safe"
    <3>1. Holders \subseteq Users /\ Holders' = Users
      BY <2>2, Zenon DEF Holders, ConnTypes
    <3>2. QED
      BY <1>1, <3>1, Zenon DEF Core, Bare
  <2>3. QED
    BY <2>1, <2>2, Zenon
<1>3. Core'
  <2>1. Whole(Sent', calls') /\ Fresh(tasks', Sent', calls')
    BY <1>1, <1>2, Zenon DEF Core
  <2>2. QED
    BY <1>1, <1>8, <2>1, Primed, Zenon DEF Core, First
<1>4. ConnTypes'
  BY <1>1, NoLapse, Zenon DEF ConnTypes
<1>5. ASSUME lapses' = {} PROVE Agreed'
  <2>1. Agreed /\ lapses = {}
    BY <1>5, NoLapse, ZenonT(30) DEF Rest
  <2>2. WritesWhenNeeded'
    BY <1>1, <2>1, Zenon DEF Agreed, WritesWhenNeeded, isWriting, Open
  <2>3. QED
    BY <1>1, <2>1, <2>2, Zenon DEF Agreed, Open, Removed
<1>6. Rest'
  BY <1>1, <1>5, Zenon DEF Rest, NotYet
<1>7. QED
  BY <1>3, <1>4, <1>6, Zenon

LEMMA InitConnInv == ConnInit => ConnInv
<1> SUFFICES ASSUME ConnInit PROVE ConnInv
  BY ZenonT(30)
<1> USE DEF ConnInit
<1>1. Functor("established", Loop, 0) \in Functors /\ Functor("established", Loop, 0).f = "established"
  BY Zenon DEF Functor, Functors, Shared
<1>2. /\ tasks \in Seq(Functors) /\ Len(tasks) = 1 /\ DOMAIN tasks = {1} /\ tasks # <<>>
      /\ tasks[1].f = "established"
  BY <1>1
<1>3. Sent = <<>> /\ Len(Sent) = 0
  BY DEF Sent
<1>4. ConnTypes
  <2>1. userAt \in [Users -> Calls \cup {"idle"}] /\ userRef \subseteq Users
    BY Zenon
  <2>2. batch \in Int /\ batch <= Len(tasks)
    BY <1>2
  <2>3. /\ events \subseteq {"in", "out"} /\ revents \subseteq DOMAIN stages /\ lapses \subseteq Lapses
        /\ downs \in Nat
    BY ZenonT(30)
  <2>4. QED
    BY <2>1, <2>2, <2>3, Zenon DEF ConnTypes
<1>5. Core
  <2>1. 1 .. Len(Sent) = {}
    BY <1>3
  <2>2. Whole(Sent, calls)
    BY <2>1, Zenon DEF Whole
  <2>3. Fresh(tasks, Sent, calls) /\ Bare(tasks, Holders) /\ First(tasks, state_)
    <3>1. \A i \in DOMAIN tasks : i = 1 /\ tasks[i].f = "established"
      BY <1>2, Zenon
    <3>2. QED
      BY <3>1, Zenon DEF Fresh, Bare, First, Shared
  <2>4. wire \in Seq(Messages) /\ outputBuffer_ \in Seq(Messages) /\ calls \in Nat
    BY EmptySeq
  <2>5. QED
    BY <1>2, <2>2, <2>3, <2>4, Zenon DEF Core
<1>6. Rest
  BY <1>2, Zenon DEF Rest, NotYet, Agreed, Open, WritesWhenNeeded
<1>7. QED
  BY <1>4, <1>5, <1>6, Zenon DEF ConnInv

LEMMA NextConnInv == ConnInv /\ [ConnNext]_connVars => ConnInv'
<1> SUFFICES ASSUME ConnInv, [ConnNext]_connVars PROVE ConnInv'
  BY Zenon
<1>1. CASE ConnNext
  <2>0. LapseStep
    BY <1>1, Zenon DEF ConnNext, LapseStep
  <2>1. CASE LoopStep /\ UNCHANGED bareThis
    BY Zenon, <2>0, <2>1, EstablishedKeeps, DestroyedKeeps, RunSendKeeps, RunQuietKeeps, ForceCloseKeeps, RunReadKeeps,
       ReturnsKeeps, TimerAndOwnerKeep, OutsideKeeps, StagesKeep, WriteKeeps DEF LoopStep
  <2>2. CASE (poll \/ ownerRemoves \/ peerActs) /\ UNCHANGED bareThis
    BY <2>0, <2>2, PollKeeps, TimerAndOwnerKeep, OutsideKeeps, Zenon
  <2>3. ASSUME NEW t \in Users \cup {Loop}, UserStep(t), UNCHANGED bareThis PROVE ConnInv'
    BY <2>0, <2>3, SendKeeps, ReadCallKeeps, TestKeeps, SetKeeps, Zenon DEF UserStep, Calls
  <2>4. CASE dangles \/ \E u \in Users : dropRef(u)
    BY <2>0, <2>4, DropKeeps, Zenon
  <2>5. QED
    BY <1>1, <2>1, <2>2, <2>3, <2>4, Zenon DEF ConnNext
<1>2. CASE UNCHANGED connVars
  <2>1. UNCHANGED <<state_, events, registered, added, outputBuffer_, wire, writeShut, tasks, downs, lapses,
                    callback, revents, userAt, userRef, owner, calls, batch, bareThis>>
    BY <1>2, Zenon DEF connVars, channelVars, poller, netVars, userVars
  <2>2. Sent' = Sent
    BY <2>1, Zenon DEF Sent
  <2>3. Core' /\ ConnTypes'
    <3>1. Whole(Sent', calls') /\ Fresh(tasks', Sent', calls')
      BY <2>1, <2>2, Zenon DEF ConnInv, Core
    <3>2. Bare(tasks, Holders)' /\ First(tasks, state_)'
      BY <2>1, Zenon DEF ConnInv, Core, Bare, First, Holders
    <3>3. QED
      BY <2>1, <3>1, <3>2, Primed, Zenon DEF ConnInv, Core, ConnTypes
  <2>4. Rest'
    BY <2>1, Zenon DEF ConnInv, Rest, NotYet, Agreed, Open, WritesWhenNeeded, isWriting, Removed
  <2>5. QED
    BY <2>3, <2>4, ZenonT(30) DEF ConnInv
<1>3. QED
  BY <1>1, <1>2, Zenon

LEMMA ConnInvariant == ConnSpec => []ConnInv
<1>1. QED
  BY InitConnInv, NextConnInv, PTL DEF ConnSpec

(***************************************************************************)
(* The output is what was sent, for any number of threads, calls and bytes *)
(* of a message: whole messages, each once and none overtaken by a later   *)
(* one, over partial writes, and write events asked for exactly while      *)
(* something waits (sendInLoop and handleWrite, TcpConnection.cc:139-192   *)
(* and 368-406).                                                           *)
(***************************************************************************)
THEOREM OutputIntactTheorem == ConnSpec => []OutputIntact
<1>1. ConnInv => OutputIntact
  <2> SUFFICES ASSUME ConnInv PROVE OutputIntact
    BY Zenon
  <2>1. MessagesWhole /\ NoneOvertaken
    BY Zenon DEF ConnInv, Core, Whole, MessagesWhole, NoneOvertaken
  <2>2. WritesWhenNeeded
    <3>1. CASE lapses = {}
      BY <3>1, Zenon DEF ConnInv, Rest, Agreed
    <3>2. CASE lapses # {}
      BY <3>2, Zenon DEF WritesWhenNeeded
    <3>3. QED
      BY <3>1, <3>2, Zenon
  <2>3. QED
    BY <2>1, <2>2, Zenon DEF OutputIntact
<1>2. QED
  BY <1>1, ConnInvariant, PTL

(***************************************************************************)
(* The asserts of ~TcpConnection (TcpConnection.cc:66-72) and ~Channel     *)
(* hold when the last pointer goes, unless there was a lapse; a functor    *)
(* that holds a bare "this" is left only if a thread let go of its pointer *)
(* before the functor was run (TcpConnection.cc:105, 127, 201).            *)
(***************************************************************************)
THEOREM DestroyedCleanTheorem == ConnSpec => []DestroyedClean
<1>1. ConnInv => DestroyedClean
  <2> SUFFICES ASSUME ConnInv, ~Alive
               PROVE  /\ lapses = {} => state_ = "kDisconnected" /\ downs = 1 /\ ~added
                      /\ tasks # <<>> => bareThis # "safe"
    BY Zenon DEF DestroyedClean
  <2>1. /\ owner = "released" /\ userRef = {} /\ callback = "none"
        /\ \A i \in DOMAIN tasks : tasks[i].f \notin Shared
    BY Zenon DEF Alive, ConnInv, ConnTypes
  <2>2. ASSUME tasks # <<>>, bareThis = "safe" PROVE FALSE
    <3>1. 1 \in DOMAIN tasks
      BY <2>2, TailHolds, Zenon DEF ConnInv, Core
    <3>2. QED
      BY <2>1, <2>2, <3>1, Zenon DEF ConnInv, Core, Bare, Holders
  <2>3. ASSUME lapses = {} PROVE state_ = "kDisconnected" /\ downs = 1 /\ ~added
    <3>1. ~Removed(tasks)
      BY <2>1, Zenon DEF Removed, Shared
    <3>2. state_ = "kDisconnected" /\ ~added
      BY <2>1, <2>3, <3>1, Zenon DEF ConnInv, Rest, Agreed
    <3>3. QED
      BY <2>3, <3>2, Zenon DEF ConnInv, Rest, Agreed
  <2>4. QED
    BY <2>2, <2>3, Zenon
<1>2. QED
  BY <1>1, ConnInvariant, PTL

\* The steps that shut the write side down find no output waiting.
LEMMA FinStep ==
    ASSUME ConnInv, ConnNext, ~writeShut, writeShut', Open, lapses = {} PROVE outputBuffer_' = <<>>
<1>0. isWriting <=> outputBuffer_ # <<>>
  BY Zenon DEF ConnInv, Rest, Agreed, WritesWhenNeeded
<1>1. CASE runShutdown \/ \E t \in Users \cup {Loop} : \E f \in Calls : set(t, f)
  <2>1. UNCHANGED outputBuffer_ /\ (writeShut' = (writeShut \/ ~isWriting) \/ writeShut' = writeShut)
    BY <1>1, Zenon DEF runShutdown, set, shutdownInLoop
  <2>2. QED
    BY <1>0, <2>1, Zenon
<1>2. CASE handleWrite
  <2>1. PICK k \in IF isWriting /\ peer \in {"open", "fin"} THEN 1 .. Len(outputBuffer_) ELSE {0} :
           /\ wire' = wire \o SubSeq(outputBuffer_, 1, k)
           /\ outputBuffer_' = SubSeq(outputBuffer_, k + 1, Len(outputBuffer_))
           /\ (k > 0 /\ k = Len(outputBuffer_)) \/ UNCHANGED writeShut
    BY <1>2, Zenon DEF handleWrite, writes
  <2>2. k = Len(outputBuffer_) /\ k \in 0 .. Len(outputBuffer_)
    <3>1. k = Len(outputBuffer_)
      BY <2>1, Zenon
    <3>2. Len(outputBuffer_) \in Nat
      BY LenProperties, Zenon DEF ConnInv, Core
    <3>3. QED
      BY <3>1, <3>2
  <2>3. QED
    BY <2>1, <2>2, MovedSame, Zenon DEF ConnInv
<1>3. CASE UNCHANGED writeShut
  BY <1>3, Zenon
<1>4. QED
  <2>1. CASE LoopStep
    <3>1. CASE connectEstablished \/ connectDestroyed \/ forceCloseInLoop
      BY <1>3, <3>1, Zenon DEF connectEstablished, connectDestroyed, destroys, forceCloseInLoop, closes, NotTheNet, netVars
    <3>2. CASE closeStage \/ handleError \/ handleRead
      BY <1>3, <3>2, Zenon DEF closeStage, handleError, handleRead
    <3>3. CASE runSend \/ callbackReturns \/ timerFires \/ doPendingFunctors
      BY <1>3, <3>3, Zenon DEF runSend, callbackReturns, timerFires, doPendingFunctors, NotTheNet, netVars
    <3>4. CASE (\E f \in {"startRead", "stopRead"} : runRead(f)) \/ \E f \in {"complete", "highWater"} : runCallback(f)
      BY <1>3, <3>4, Zenon DEF runRead, runCallback, NotTheNet, netVars
    <3>5. QED
      BY <1>1, <1>2, <2>1, <3>1, <3>2, <3>3, <3>4, Zenon DEF LoopStep
  <2>2. CASE poll \/ ownerRemoves \/ peerActs
    BY <1>3, <2>2, Zenon DEF poll, ownerRemoves, peerActs, NotTheNet, netVars
  <2>3. ASSUME NEW t \in Users \cup {Loop}, UserStep(t) PROVE outputBuffer_' = <<>>
    BY <1>1, <1>3, <2>3, Zenon DEF UserStep, send, startOrStopRead, test, netVars, Calls
  <2>4. CASE dangles \/ \E u \in Users : dropRef(u)
    BY <1>3, <2>4, Zenon DEF dangles, dropRef, netVars
  <2>5. QED
    BY <2>1, <2>2, <2>3, <2>4, Zenon DEF ConnNext

\* The steps that report the end find an open connection.
LEMMA DownStep == ASSUME ConnInv, ConnNext, lapses = {} PROVE downs' <= 1
<1>0. downs = IF state_ = "kDisconnected" THEN 1 ELSE 0
  BY Zenon DEF ConnInv, Rest, Agreed
<1>1. CASE UNCHANGED downs
  BY <1>0, <1>1
<1>2. CASE downs' = downs + 1 /\ state_ # "kDisconnected"
  BY <1>0, <1>2
<1>3. ASSUME NEW x \in {"close", "read"}, Stage(x), handleClose PROVE downs' <= 1
  <2>1. state_ # "kDisconnected"
    BY <1>3, StageHolds, Zenon
  <2>2. QED
    BY <1>2, <1>3, <2>1, Zenon DEF handleClose
<1>4. QED
  <2>1. CASE LoopStep
    <3>1. CASE closeStage \/ handleRead
      BY <1>1, <1>3, <3>1, Zenon DEF closeStage, handleRead
    <3>2. CASE connectDestroyed \/ forceCloseInLoop
      BY <1>1, <1>2, <3>2, ZenonT(30) DEF connectDestroyed, destroys, forceCloseInLoop, closes, handleClose
    <3>3. QED
      BY <1>1, <2>1, <3>1, <3>2, ZenonT(30)
         DEF LoopStep, connectEstablished, runSend, runShutdown, runRead, runCallback, callbackReturns, timerFires,
             doPendingFunctors, handleError, handleWrite, writes
  <2>2. CASE poll \/ ownerRemoves \/ peerActs
    BY <1>1, <2>2, Zenon DEF poll, ownerRemoves, peerActs
  <2>3. ASSUME NEW t \in Users \cup {Loop}, UserStep(t) PROVE downs' <= 1
    BY <1>1, <2>3, ZenonT(30) DEF UserStep, send, startOrStopRead, test, set, Steady
  <2>4. CASE dangles \/ \E u \in Users : dropRef(u)
    BY <1>1, <2>4, Zenon DEF dangles, dropRef
  <2>5. QED
    BY <2>1, <2>2, <2>3, <2>4, Zenon DEF ConnNext

(***************************************************************************)
(* A graceful close sends its FIN after the whole output, and the end of a *)
(* connection is reported at most once.                                    *)
(***************************************************************************)
THEOREM ClosesInOrderTheorem == ConnSpec => ClosesInOrder
<1> DEFINE Fin == ~writeShut /\ writeShut' /\ Open /\ lapses = {} => outputBuffer_' = <<>>
           Down == lapses = {} => downs' <= 1
<1>1. ConnInv /\ [ConnNext]_connVars => [Fin]_connVars
  BY FinStep, Zenon
<1>2. ConnInv /\ [ConnNext]_connVars => [Down]_connVars
  BY DownStep, Zenon
<1>3. ConnSpec => [][Fin]_connVars /\ [][Down]_connVars
  BY <1>1, <1>2, ConnInvariant, PTL DEF ConnSpec
<1>4. QED
  BY <1>3, Zenon DEF ClosesInOrder, FinAfterOutput, DownOnce
=============================================================================
