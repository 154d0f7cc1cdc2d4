-------------------------- MODULE TcpServerQueues --------------------------
(***************************************************************************)
(* The invariant of TcpServer, and what each operation on its connections, *)
(* on the functors waiting in its loops and on its map does to the parts   *)
(* of that invariant.                                                      *)
(***************************************************************************)
EXTENDS TcpServer, TLAPS

Steps == {"connectEstablished", "connectDestroyed", "removeConnectionInLoop"}
Functors == Steps \X Conns
States == {"none", "kConnecting", "kConnected", "kDisconnected", "destroyed", "lost"}
Open == {"kConnecting", "kConnected"}
Alive == {"kConnecting", "kConnected", "kDisconnected"}

\* Of a sequence of functors: f of c is in it, at most once, and c is
\* established before it is destroyed.
Has(s, f, c) == \E i \in 1 .. Len(s) : s[i] = <<f, c>>
Once(s, f, c) == \A i, j \in 1 .. Len(s) : s[i] = <<f, c>> /\ s[j] = <<f, c>> => i = j
Before(s, c) == \A i, j \in 1 .. Len(s) :
    s[i] = <<"connectEstablished", c>> /\ s[j] = <<"connectDestroyed", c>> => i < j

ServerTypes ==
    /\ idleFd_ \in BOOLEAN /\ stolen \in BOOLEAN /\ free \in Nat
    /\ accepting \in {"no", "accept", "again", "drop", "reopen"}
    /\ numThreads_ \in 0 .. MaxThreads
    /\ loops_ \in Seq(Nat) /\ Len(loops_) <= MaxThreads /\ \A i \in 1 .. Len(loops_) : loops_[i] = i
    /\ next_ \in Nat /\ (next_ = 0 \/ next_ < Len(loops_))
    /\ connections_ \subseteq Conns
    /\ conn \in [Conns -> States] /\ ioLoop \in [Conns -> Loops]
    /\ queue \in [Loops -> Seq(Functors)] /\ batch \in [Loops -> Seq(Functors)]
    /\ at \in [Loops -> {"starting", "poll", "handled", "functors", "ended"}]
    /\ quit_ \subseteq 1 .. MaxThreads
    /\ server \in {"new", "started", "joining", "gone", "dangling"}

\* Where the threads are.
Phases ==
    /\ accepting # "no" => server = "started" /\ at[baseLoop_] = "poll"
    /\ \A l \in Loops : at[l] # "functors" => batch[l] = <<>>
    /\ server = "new" => /\ loops_ = <<>> /\ next_ = 0
                         /\ \A c \in Conns : conn[c] = "none"
                         /\ \A l \in Loops : queue[l] = <<>> /\ batch[l] = <<>>
    /\ quit_ # {} => ~Serving

\* The descriptor in reserve, while no other thread took it.
Reserve == ~stolen => /\ accepting \in {"no", "accept", "drop"} => idleFd_
                      /\ accepting \in {"again", "reopen"} => free > 0

\* The connections are numbered from 1, and dealt in rounds.
Load(l) == Cardinality({c \in Conns : conn[c] # "none" /\ ioLoop[c] = l})

Dealt == /\ \A c \in Conns : conn[c] # "none" => \A d \in 1 .. c : conn[d] # "none"
         /\ \E r \in Nat : \A l \in 1 .. Len(loops_) : Load(l) = r + (IF l <= next_ THEN 1 ELSE 0)

\* What waits in each loop, when c is in the state k[c] and the loop io[c].
\* Each functor waits in the loop it is meant for, once; and what waits
\* agrees with the connections in cs and with the state sv of the server.
Waiting == [l \in Loops |-> Pending(l)]
Home(f, l) == IF f = "removeConnectionInLoop" THEN baseLoop_ ELSE l

Placed(P, io) == \A l \in Loops, c \in Conns, f \in Steps :
    Once(P[l], f, c) /\ (Has(P[l], f, c) => l = Home(f, io[c]))

Agrees(c, k, io, mine, base, cs, sv) ==
    /\ Has(mine, "connectEstablished", c) <=> k = "kConnecting"
    /\ Has(mine, "connectDestroyed", c) => k \in Alive /\ c \notin cs
    /\ Before(mine, c)
    /\ Has(base, "removeConnectionInLoop", c) => k \in {"kDisconnected", "destroyed", "lost"}
    /\ k = "kConnecting" => io # baseLoop_
    /\ c \in cs => k \in Alive /\ sv \in {"new", "started"}
    /\ sv \notin {"new", "started"} /\ io = baseLoop_ => k \notin Open
    /\ sv \in {"new", "started"} =>
           /\ c \in cs <=> k \in Open \/ Has(base, "removeConnectionInLoop", c)
           /\ Has(base, "removeConnectionInLoop", c) => k = "kDisconnected"

Agreed(P, k, io, cs, sv) == \A c \in Conns : Agrees(c, k[c], io[c], P[io[c]], P[baseLoop_], cs, sv)

ServerInv == /\ ServerTypes /\ Phases /\ Reserve /\ Dealt
             /\ Placed(Waiting, ioLoop) /\ Agreed(Waiting, conn, ioLoop, connections_, server)
-----------------------------------------------------------------------------
\* What the operations on queues return; SequenceTheorems has these facts and
\* many more, which would be in the context of every step below.
LEMMA EmptySeq ==
    ASSUME NEW S
    PROVE  <<>> \in Seq(S) /\ Len(<<>>) = 0 /\ \A q \in Seq(S) : q # <<>> => Len(q) \in Nat \ {0}
    OBVIOUS

LEMMA LenProperties ==
    ASSUME NEW S, NEW q \in Seq(S)
    PROVE  Len(q) \in Nat /\ DOMAIN q = 1 .. Len(q) /\ q \in [1 .. Len(q) -> S]
    OBVIOUS

LEMMA ElementOfSeq ==
    ASSUME NEW S, NEW q \in Seq(S), NEW i \in 1 .. Len(q)
    PROVE  q[i] \in S
    OBVIOUS

LEMMA HeadTailProperties ==
    ASSUME NEW S, NEW q \in Seq(S), q # <<>>
    PROVE  /\ Head(q) \in S /\ Tail(q) \in Seq(S) /\ Len(Tail(q)) = Len(q) - 1
           /\ \A i \in 1 .. Len(Tail(q)) : Tail(q)[i] = q[i + 1]
    OBVIOUS

LEMMA AppendProperties ==
    ASSUME NEW S, NEW q \in Seq(S), NEW x \in S
    PROVE  /\ Append(q, x) \in Seq(S) /\ Append(q, x) # <<>> /\ Len(Append(q, x)) = Len(q) + 1
           /\ Append(q, x)[Len(q) + 1] = x /\ \A i \in 1 .. Len(q) : Append(q, x)[i] = q[i]
    OBVIOUS

LEMMA ConcatProperties ==
    ASSUME NEW S, NEW s \in Seq(S), NEW t \in Seq(S)
    PROVE  /\ s \o t \in Seq(S) /\ Len(s \o t) = Len(s) + Len(t)
           /\ \A i \in 1 .. Len(s) + Len(t) : (s \o t)[i] = IF i <= Len(s) THEN s[i] ELSE t[i - Len(s)]
    OBVIOUS

LEMMA ConcatEmptySeq ==
    ASSUME NEW S, NEW q \in Seq(S)
    PROVE  q \o <<>> = q /\ <<>> \o q = q
    OBVIOUS
-----------------------------------------------------------------------------
(***************************************************************************)
(* Sequences of functors.                                                  *)
(***************************************************************************)
LEMMA AppendHas ==
    ASSUME NEW s \in Seq(Functors), NEW g \in Functors, NEW t, t = Append(s, g)
    PROVE  /\ t \in Seq(Functors)
           /\ \A f, c : Has(t, f, c) <=> Has(s, f, c) \/ g = <<f, c>>
           /\ \A f, c : Once(s, f, c) /\ (g = <<f, c>> => ~Has(s, f, c)) => Once(t, f, c)
           /\ \A c : Before(s, c) /\ (g = <<"connectEstablished", c>> => ~Has(s, "connectDestroyed", c))
                         => Before(t, c)
<1>1. t \in Seq(Functors) /\ Len(t) = Len(s) + 1 /\ t[Len(s) + 1] = g /\ Len(s) \in Nat
      /\ \A i \in 1 .. Len(s) : t[i] = s[i]
    BY AppendProperties, LenProperties
<1>2. 1 .. Len(t) = 1 .. Len(s) \cup {Len(s) + 1} /\ \A i \in 1 .. Len(s) : i < Len(s) + 1
    BY <1>1
<1>3. ASSUME NEW f, NEW c PROVE Has(t, f, c) <=> Has(s, f, c) \/ g = <<f, c>>
    BY <1>1, <1>2, Zenon DEF Has
<1>4. ASSUME NEW f, NEW c, Once(s, f, c), g = <<f, c>> => ~Has(s, f, c) PROVE Once(t, f, c)
    BY <1>1, <1>2, <1>4, Zenon DEF Has, Once
<1>5. ASSUME NEW c, Before(s, c),
             g = <<"connectEstablished", c>> => ~Has(s, "connectDestroyed", c)
      PROVE  Before(t, c)
  <2>1. "connectEstablished" # "connectDestroyed"
      BY Zenon
  <2>2. ~(g = <<"connectEstablished", c>> /\ g = <<"connectDestroyed", c>>)
      BY <2>1
  <2>3. QED
      BY <1>1, <1>2, <1>5, <2>2, ZenonT(30) DEF Before, Has
<1>6. QED
    BY <1>1, <1>3, <1>4, <1>5, Zenon

LEMMA TailHas ==
    ASSUME NEW s \in Seq(Functors), s # <<>>, NEW t, t = Tail(s)
    PROVE  /\ t \in Seq(Functors) /\ Head(s) \in Functors /\ Has(s, Head(s)[1], Head(s)[2])
           /\ \A f, c : Has(t, f, c) => Has(s, f, c)
           /\ \A f, c : Has(s, f, c) => Has(t, f, c) \/ Head(s) = <<f, c>>
           /\ \A f, c : Once(s, f, c) => Once(t, f, c)
           /\ \A f, c : Once(s, f, c) /\ Head(s) = <<f, c>> => ~Has(t, f, c)
           /\ \A c : Before(s, c) => Before(t, c)
<1>1. t \in Seq(Functors) /\ Len(s) \in Nat /\ Len(s) > 0 /\ Len(t) = Len(s) - 1 /\ Head(s) = s[1]
      /\ s[1] \in Functors /\ \A i \in 1 .. Len(t) : t[i] = s[i + 1]
    BY HeadTailProperties, ElementOfSeq, EmptySeq, LenProperties
<1>2. /\ \A i \in 1 .. Len(t) : i + 1 \in 1 .. Len(s) /\ i + 1 # 1
      /\ \A i \in 1 .. Len(s) : i = 1 \/ (i - 1 \in 1 .. Len(t) /\ (i - 1) + 1 = i)
      /\ \A i, j \in 1 .. Len(t) : (i + 1 = j + 1 => i = j) /\ (i + 1 < j + 1 => i < j)
      /\ 1 \in 1 .. Len(s)
    BY <1>1
<1>3. Head(s) = <<Head(s)[1], Head(s)[2]>>
    BY <1>1 DEF Functors
<1>4. Has(s, Head(s)[1], Head(s)[2])
    BY <1>1, <1>2, <1>3, Zenon DEF Has
<1>5. ASSUME NEW f, NEW c PROVE Has(t, f, c) => Has(s, f, c)
    BY <1>1, <1>2 DEF Has
<1>6. ASSUME NEW f, NEW c, Has(s, f, c) PROVE Has(t, f, c) \/ Head(s) = <<f, c>>
  <2>1. PICK i \in 1 .. Len(s) : s[i] = <<f, c>>
      BY <1>6, Zenon DEF Has
  <2>2. i # 1 => t[i - 1] = <<f, c>> /\ i - 1 \in 1 .. Len(t)
      BY <1>1, <1>2, <2>1, Zenon
  <2>3. QED
      BY <1>1, <2>1, <2>2, Zenon DEF Has
<1>7. ASSUME NEW f, NEW c, Once(s, f, c) PROVE Once(t, f, c)
  <2> SUFFICES ASSUME NEW i \in 1 .. Len(t), NEW j \in 1 .. Len(t), t[i] = <<f, c>>, t[j] = <<f, c>>
               PROVE  i = j
      BY Zenon DEF Once
  <2>1. s[i + 1] = <<f, c>> /\ s[j + 1] = <<f, c>> /\ i + 1 \in 1 .. Len(s) /\ j + 1 \in 1 .. Len(s)
      BY <1>1, <1>2, Zenon
  <2>2. i + 1 = j + 1
      BY <1>7, <2>1, Zenon DEF Once
  <2>3. QED
      BY <1>1, <1>2, <2>2, Zenon
<1>8. ASSUME NEW f, NEW c, Once(s, f, c), Head(s) = <<f, c>> PROVE ~Has(t, f, c)
    BY <1>1, <1>2, <1>8 DEF Once, Has
<1>9. ASSUME NEW c, Before(s, c) PROVE Before(t, c)
    BY <1>1, <1>2, <1>9 DEF Before
<1>10. QED
    BY <1>1, <1>4, <1>5, <1>6, <1>7, <1>8, <1>9, Zenon

LEMMA FirstDestroyed ==
    ASSUME NEW s \in Seq(Functors), s # <<>>, NEW c, Head(s) = <<"connectDestroyed", c>>, Before(s, c)
    PROVE  ~Has(s, "connectEstablished", c)
<1>1. Len(s) \in Nat /\ Len(s) > 0 /\ s[1] = <<"connectDestroyed", c>>
    BY HeadTailProperties, EmptySeq, LenProperties
<1>2. 1 \in 1 .. Len(s) /\ \A i \in 1 .. Len(s) : ~(i < 1)
    BY <1>1
<1>3. QED
    BY <1>1, <1>2, Zenon DEF Before, Has

\* t is s followed by the connectDestroyed of each connection in S, which
\* e enumerates.
Poured(s, t, S, n, e) ==
    /\ n \in Nat /\ Len(s) \in Nat /\ Len(t) = Len(s) + n
    /\ \A i \in 1 .. n : e[i] \in S
    /\ \A c \in S : \E i \in 1 .. n : e[i] = c
    /\ \A i, j \in 1 .. n : e[i] = e[j] => i = j
    /\ \A i \in 1 .. Len(s) : t[i] = s[i]
    /\ \A i \in 1 .. n : t[Len(s) + i] = <<"connectDestroyed", e[i]>>

LEMMA PouredHas ==
    ASSUME NEW s, NEW t, NEW S, NEW n, NEW e, Poured(s, t, S, n, e)
    PROVE  /\ \A f, c : Has(t, f, c) <=> Has(s, f, c) \/ (f = "connectDestroyed" /\ c \in S)
           /\ \A f, c : Once(s, f, c) /\ (c \in S => ~Has(s, "connectDestroyed", c)) => Once(t, f, c)
           /\ \A c : Before(s, c) => Before(t, c)
<1> USE DEF Poured
<1>1. /\ \A i \in 1 .. Len(t) : i \in 1 .. Len(s) \/ \E j \in 1 .. n : i = Len(s) + j
      /\ \A i \in 1 .. Len(s) : i \in 1 .. Len(t)
      /\ \A j \in 1 .. n : Len(s) + j \in 1 .. Len(t)
      /\ \A i \in 1 .. Len(s), j \in 1 .. n : i < Len(s) + j
  <2>1. ASSUME NEW i \in 1 .. Len(t), i \notin 1 .. Len(s) PROVE \E j \in 1 .. n : i = Len(s) + j
    <3>1. i - Len(s) \in 1 .. n /\ i = Len(s) + (i - Len(s))
        BY <2>1
    <3>2. QED
        BY <3>1, Zenon
  <2>2. \A i \in 1 .. Len(s) : i \in 1 .. Len(t)
      OBVIOUS
  <2>3. \A j \in 1 .. n : Len(s) + j \in 1 .. Len(t)
      OBVIOUS
  <2>4. \A i \in 1 .. Len(s), j \in 1 .. n : i < Len(s) + j
      OBVIOUS
  <2>5. QED
      BY <2>1, <2>2, <2>3, <2>4 , Zenon
<1>2. ASSUME NEW f, NEW c, NEW i \in 1 .. n, t[Len(s) + i] = <<f, c>>
      PROVE  f = "connectDestroyed" /\ e[i] = c /\ c \in S
  <2>1. t[Len(s) + i] = <<"connectDestroyed", e[i]>>
      BY Zenon
  <2>2. <<f, c>> = <<"connectDestroyed", e[i]>>
      BY <1>2, <2>1, Zenon
  <2>3. f = "connectDestroyed" /\ c = e[i]
      BY <2>2, Zenon
  <2>4. QED
      BY <2>3, Zenon
<1>3. ASSUME NEW f, NEW c
       PROVE  Has(t, f, c) <=> Has(s, f, c) \/ (f = "connectDestroyed" /\ c \in S)
  <2>1. ASSUME Has(t, f, c) PROVE Has(s, f, c) \/ (f = "connectDestroyed" /\ c \in S)
    <3>1. PICK i \in 1 .. Len(t) : t[i] = <<f, c>>
        BY <2>1, Zenon DEF Has
    <3>2. CASE i \in 1 .. Len(s)
        BY <3>1, <3>2, Zenon DEF Has
    <3>3. ASSUME NEW j \in 1 .. n, i = Len(s) + j PROVE f = "connectDestroyed" /\ c \in S
      <4>1. t[Len(s) + j] = <<f, c>>
          BY <3>1, <3>3, Zenon
      <4>2. QED
          BY <1>2, <4>1, Zenon
    <3>4. QED
        BY <1>1, <3>2, <3>3, Zenon
  <2>2. ASSUME Has(s, f, c) PROVE Has(t, f, c)
      BY <1>1, <2>2, Zenon DEF Has
  <2>3. ASSUME f = "connectDestroyed", c \in S PROVE Has(t, f, c)
    <3>1. PICK i \in 1 .. n : e[i] = c
        BY <2>3, Zenon
    <3>2. t[Len(s) + i] = <<f, c>> /\ Len(s) + i \in 1 .. Len(t)
        BY <1>1, <2>3, <3>1, Zenon
    <3>3. QED
        BY <3>2, Zenon DEF Has
  <2>4. QED
      BY <2>1, <2>2, <2>3, Zenon
<1>4. ASSUME NEW f, NEW c, Once(s, f, c), c \in S => ~Has(s, "connectDestroyed", c)
       PROVE  Once(t, f, c)
  <2> SUFFICES ASSUME NEW i \in 1 .. Len(t), NEW j \in 1 .. Len(t),
                      t[i] = <<f, c>>, t[j] = <<f, c>>
               PROVE  i = j
      BY Zenon DEF Once
  <2>1. ASSUME i \in 1 .. Len(s), j \in 1 .. Len(s) PROVE i = j
      BY <1>4, <2>1, Zenon DEF Once
  <2>2. ASSUME NEW m \in 1 .. n, NEW x \in 1 .. Len(s), t[Len(s) + m] = <<f, c>>, t[x] = <<f, c>>
        PROVE  FALSE
    <3>1. f = "connectDestroyed" /\ c \in S
        BY <1>2, <2>2, Zenon
    <3>2. s[x] = <<f, c>>
        BY <2>2, Zenon
    <3>3. QED
        BY <1>4, <2>2, <3>1, <3>2, Zenon DEF Has
  <2>3. ASSUME NEW m \in 1 .. n, NEW x \in 1 .. n, i = Len(s) + m, j = Len(s) + x PROVE i = j
    <3>1. e[m] = c /\ e[x] = c
        BY <1>2, <2>3
    <3>2. QED
        BY <2>3, <3>1, SMTT(30)
  <2>4. CASE i \in 1 .. Len(s) /\ j \notin 1 .. Len(s)
    <3>1. PICK m \in 1 .. n : j = Len(s) + m
        BY <1>1, <2>4, Zenon
    <3>2. QED
        BY <2>2, <2>4, <3>1, Zenon
  <2>5. CASE i \notin 1 .. Len(s) /\ j \in 1 .. Len(s)
    <3>1. PICK m \in 1 .. n : i = Len(s) + m
        BY <1>1, <2>5, Zenon
    <3>2. QED
        BY <2>2, <2>5, <3>1, Zenon
  <2>6. CASE i \notin 1 .. Len(s) /\ j \notin 1 .. Len(s)
    <3>1. PICK m \in 1 .. n : i = Len(s) + m
        BY <1>1, <2>6, Zenon
    <3>2. PICK x \in 1 .. n : j = Len(s) + x
        BY <1>1, <2>6, Zenon
    <3>3. QED
        BY <2>3, <3>1, <3>2, Zenon
  <2>7. QED
      BY <2>1, <2>4, <2>5, <2>6, Zenon
<1>5. ASSUME NEW c, Before(s, c) PROVE Before(t, c)
  <2> SUFFICES ASSUME NEW i \in 1 .. Len(t), NEW j \in 1 .. Len(t),
                      t[i] = <<"connectEstablished", c>>, t[j] = <<"connectDestroyed", c>>
               PROVE  i < j
      BY Zenon DEF Before
  <2>1. i \in 1 .. Len(s)
    <3>1. ASSUME NEW m \in 1 .. n, i = Len(s) + m PROVE FALSE
      <4>1. t[Len(s) + m] = <<"connectEstablished", c>>
          BY <3>1, Zenon
      <4>2. "connectEstablished" = "connectDestroyed"
          BY <1>2, <4>1, Zenon
      <4>3. QED
          BY <4>2, Zenon
    <3>2. QED
        BY <1>1, <3>1, Zenon
  <2>2. CASE j \in 1 .. Len(s)
      BY <1>5, <2>1, <2>2, Zenon DEF Before
  <2>3. QED
      BY <1>1, <2>1, <2>2
<1>6. QED
    BY <1>3, <1>4, <1>5, Zenon

\* What the proof needs of finite sets.  It is a hypothesis of the lemmas up to
\* the last section, which proves it from the theorems on finite sets.
Enumerates(e, S) ==
    /\ Cardinality(S) \in Nat /\ e \in [1 .. Cardinality(S) -> S]
    /\ \A c \in S : \E i \in 1 .. Cardinality(S) : e[i] = c
    /\ \A i, j \in 1 .. Cardinality(S) : e[i] = e[j] => i = j

SetFacts ==
    /\ IsFiniteSet(Conns)
    /\ Cardinality({}) = 0
    /\ \A x : Cardinality({x}) = 1
    /\ \A n \in Nat : IsFiniteSet(1 .. n) /\ Cardinality(1 .. n) = n
    /\ \A S : IsFiniteSet(S) =>
           /\ Cardinality(S) \in Nat
           /\ \A T \in SUBSET S : IsFiniteSet(T) /\ Cardinality(T) <= Cardinality(S)
           /\ \A x : x \notin S => Cardinality(S \cup {x}) = Cardinality(S) + 1
           /\ Enumerates(mapOrder(S), S)

LEMMA Enumerated ==
    ASSUME SetFacts, NEW S, IsFiniteSet(S)
    PROVE  Enumerates(mapOrder(S), S)
    BY Zenon DEF SetFacts

LEMMA Subsets ==
    ASSUME SetFacts, NEW S, NEW T, IsFiniteSet(S), T \subseteq S
    PROVE  IsFiniteSet(T) /\ Cardinality(T) \in Nat /\ Cardinality(T) <= Cardinality(S)
<1>1. IsFiniteSet(T) /\ Cardinality(T) <= Cardinality(S)
    BY Zenon DEF SetFacts
<1>2. QED
    BY <1>1, Zenon DEF SetFacts

LEMMA OneElement ==
    ASSUME SetFacts
    PROVE  Cardinality({}) = 0 /\ \A x : Cardinality({x}) = 1
    BY Zenon DEF SetFacts

LEMMA OneElementMore ==
    ASSUME SetFacts, NEW S, NEW x, IsFiniteSet(S), x \notin S
    PROVE  Cardinality(S \cup {x}) = Cardinality(S) + 1
    BY Zenon DEF SetFacts

LEMMA Numbers ==
    ASSUME SetFacts, NEW n \in Nat
    PROVE  IsFiniteSet(1 .. n) /\ Cardinality(1 .. n) = n
    BY Zenon DEF SetFacts

LEMMA ConnsFinite ==
    ASSUME SetFacts
    PROVE  IsFiniteSet(Conns)
    BY Zenon DEF SetFacts

\* The functors that ~TcpServer queues.
Pour(s, S) == s \o [i \in 1 .. Cardinality(S) |-> <<"connectDestroyed", mapOrder(S)[i]>>]

LEMMA PourHas ==
    ASSUME SetFacts, NEW s \in Seq(Functors), NEW S \in SUBSET Conns, IsFiniteSet(S), NEW t, t = Pour(s, S)
    PROVE  /\ t \in Seq(Functors)
           /\ \A f, c : Has(t, f, c) <=> Has(s, f, c) \/ (f = "connectDestroyed" /\ c \in S)
           /\ \A f, c : Once(s, f, c) /\ (c \in S => ~Has(s, "connectDestroyed", c)) => Once(t, f, c)
           /\ \A c : Before(s, c) => Before(t, c)
<1> DEFINE n == Cardinality(S)
           e == mapOrder(S)
           r == [i \in 1 .. n |-> <<"connectDestroyed", e[i]>>]
<1>1. n \in Nat /\ (\A i \in 1 .. n : e[i] \in S) /\ (\A c \in S : \E i \in 1 .. n : e[i] = c)
      /\ (\A i, j \in 1 .. n : e[i] = e[j] => i = j)
    BY Enumerated, Zenon DEF Enumerates
<1>2. t = s \o r
    BY Zenon DEF Pour
<1> HIDE DEF n, e
<1>3. r \in Seq(Functors) /\ Len(r) = n
  <2>1. \A i \in 1 .. n : <<"connectDestroyed", e[i]>> \in Functors
      BY <1>1, Zenon DEF Functors, Steps
  <2>2. r \in [1 .. n -> Functors]
      BY <2>1, Zenon
  <2>3. QED
      BY <1>1, <2>2
<1>4. \A i \in 1 .. n : r[i] = <<"connectDestroyed", e[i]>>
    BY Zenon
<1> HIDE DEF r
<1>5. t \in Seq(Functors) /\ Len(t) = Len(s) + n
      /\ \A i \in 1 .. Len(t) : t[i] = IF i <= Len(s) THEN s[i] ELSE r[i - Len(s)]
  <2>1. /\ s \o r \in Seq(Functors) /\ Len(s \o r) = Len(s) + Len(r)
        /\ \A i \in 1 .. Len(s) + Len(r) : (s \o r)[i] = IF i <= Len(s) THEN s[i] ELSE r[i - Len(s)]
      BY <1>3, ConcatProperties, Zenon
  <2>2. QED
      BY <1>2, <1>3, <2>1, Zenon
<1>6. Len(s) \in Nat
    BY LenProperties, Zenon
<1>7. /\ \A i \in 1 .. Len(s) : i \in 1 .. Len(t) /\ i <= Len(s)
      /\ \A i \in 1 .. n : Len(s) + i \in 1 .. Len(t) /\ ~(Len(s) + i <= Len(s)) /\ (Len(s) + i) - Len(s) = i
    BY <1>1, <1>5, <1>6
<1>8. \A i \in 1 .. Len(s) : t[i] = s[i]
    BY <1>5, <1>7, Zenon
<1>9. \A i \in 1 .. n : t[Len(s) + i] = <<"connectDestroyed", e[i]>>
    BY <1>4, <1>5, <1>7, Zenon
<1>10. QED
  <2>1. Poured(s, t, S, n, e)
      BY <1>1, <1>5, <1>6, <1>8, <1>9, Zenon DEF Poured
  <2>2. QED
      BY <1>5, <2>1, PouredHas, Zenon
LEMMA PourBoth ==
    ASSUME SetFacts, NEW a \in Seq(Functors), NEW b \in Seq(Functors), NEW S \in SUBSET Conns, IsFiniteSet(S)
    PROVE  a \o Pour(b, S) = Pour(a \o b, S)
<1> DEFINE n == Cardinality(S)
           r == [i \in 1 .. n |-> <<"connectDestroyed", mapOrder(S)[i]>>]
<1>1. n \in Nat /\ mapOrder(S) \in [1 .. n -> S]
    BY Enumerated, Zenon DEF Enumerates
<1> HIDE DEF n
<1>2. \A i \in 1 .. n : <<"connectDestroyed", mapOrder(S)[i]>> \in Functors
    BY <1>1, Zenon DEF Functors, Steps
<1>3. r \in [1 .. n -> Functors]
    BY <1>2, Zenon
<1>4. r \in Seq(Functors)
    BY <1>1, <1>3
<1>5. Pour(b, S) = b \o r /\ Pour(a \o b, S) = (a \o b) \o r
    BY Zenon DEF Pour, n
<1> HIDE DEF r
<1>6. a \o (b \o r) = (a \o b) \o r
    BY <1>4
<1>7. QED
    BY <1>5, <1>6, Zenon
-----------------------------------------------------------------------------
(***************************************************************************)
(* What a step does to the functors that wait.                             *)
(***************************************************************************)
Waits == [Loops -> Seq(Functors)]
Put(P, l, g) == [P EXCEPT ![l] = Append(@, g)]
Take(P, l) == [P EXCEPT ![l] = Tail(@)]

LEMMA BaseIsLoop == baseLoop_ \in Loops
    BY ServerAssumption DEF baseLoop_, Loops

LEMMA AppendToBoth ==
    ASSUME NEW a \in Seq(Functors), NEW b \in Seq(Functors), NEW g \in Functors
    PROVE  a \o Append(b, g) = Append(a \o b, g)
    OBVIOUS

LEMMA TailOfBoth ==
    ASSUME NEW a \in Seq(Functors), NEW b \in Seq(Functors), a # <<>>
    PROVE  /\ Tail(a) \o b = Tail(a \o b) /\ a \o b # <<>> /\ Head(a) = Head(a \o b)
           /\ Tail(a) \in Seq(Functors) /\ a \o b \in Seq(Functors)
    BY SMTT(30)

\* From P to Q, f of c enters or leaves the loop l, and nothing changes order.
Gains(P, Q, l, f, c) == \A m \in Loops : \A g, d :
    Has(Q[m], g, d) <=> Has(P[m], g, d) \/ (m = l /\ g = f /\ d = c)
Loses(P, Q, l, f, c) == \A m \in Loops : \A g, d :
    Has(Q[m], g, d) <=> Has(P[m], g, d) /\ ~(m = l /\ g = f /\ d = c)
KeepsOrder(P, Q) == \A m \in Loops : \A d : Before(P[m], d) => Before(Q[m], d)

\* A functor is queued in the loop it is meant for.
Puts(P, Q, io, l, f, c) == l = Home(f, io[c]) /\ ~Has(P[l], f, c) /\ Q = Put(P, l, <<f, c>>)

LEMMA Placing ==
    ASSUME NEW P \in Waits, NEW io \in [Conns -> Loops], Placed(P, io),
           NEW f \in Steps, NEW c \in Conns, NEW l \in Loops, NEW Q, Puts(P, Q, io, l, f, c)
    PROVE  /\ Q \in Waits /\ Placed(Q, io) /\ Gains(P, Q, l, f, c)
           /\ ~Has(P[l], "connectDestroyed", c) \/ f # "connectEstablished" => KeepsOrder(P, Q)
<1>1. <<f, c>> \in Functors
    BY Zenon DEF Functors
<1>2. P[l] \in Seq(Functors) /\ Q[l] = Append(P[l], <<f, c>>) /\ \A m \in Loops : m # l => Q[m] = P[m]
    BY Zenon DEF Waits, Put, Puts
<1>3. /\ Q[l] \in Seq(Functors)
      /\ \A g, d : Has(Q[l], g, d) <=> Has(P[l], g, d) \/ <<f, c>> = <<g, d>>
      /\ \A g, d : Once(P[l], g, d) /\ (<<f, c>> = <<g, d>> => ~Has(P[l], g, d)) => Once(Q[l], g, d)
      /\ \A d : Before(P[l], d) /\ (<<f, c>> = <<"connectEstablished", d>> => ~Has(P[l], "connectDestroyed", d))
                    => Before(Q[l], d)
    BY <1>1, <1>2, AppendHas, Zenon
<1>4. \A g, d : <<f, c>> = <<g, d>> <=> g = f /\ d = c
    BY Zenon
<1>5. \A m \in Loops : \A g, d : Has(Q[m], g, d) <=> Has(P[m], g, d) \/ (m = l /\ g = f /\ d = c)
    BY <1>2, <1>3, <1>4, Zenon
<1>6. ASSUME NEW m \in Loops, NEW d, Before(P[m], d),
             ~Has(P[l], "connectDestroyed", c) \/ f # "connectEstablished"
      PROVE  Before(Q[m], d)
    BY <1>2, <1>3, <1>4, <1>6, Zenon
<1>7. Placed(Q, io)
  <2> SUFFICES ASSUME NEW m \in Loops, NEW d \in Conns, NEW g \in Steps
               PROVE  Once(Q[m], g, d) /\ (Has(Q[m], g, d) => m = Home(g, io[d]))
      BY Zenon DEF Placed
  <2>1. Once(P[m], g, d) /\ (Has(P[m], g, d) => m = Home(g, io[d]))
      BY Zenon DEF Placed
  <2>2. Once(Q[m], g, d)
      BY <1>2, <1>3, <1>4, <2>1, Zenon DEF Puts
  <2>3. QED
      BY <1>5, <2>1, <2>2, Zenon DEF Puts
<1>8. Q \in Waits
    BY <1>2, <1>3, Zenon DEF Waits, Put, Puts
<1>9. QED
    BY <1>5, <1>6, <1>7, <1>8, Zenon DEF Gains, KeepsOrder

\* The first functor of a loop is taken out.
Takes(P, Q, l, f, c) == P[l] # <<>> /\ Q = Take(P, l) /\ Head(P[l]) = <<f, c>>

LEMMA Taking ==
    ASSUME NEW P \in Waits, NEW io \in [Conns -> Loops], Placed(P, io),
           NEW l \in Loops, NEW Q, NEW f, NEW c, Takes(P, Q, l, f, c)
    PROVE  /\ f \in Steps /\ c \in Conns /\ l = Home(f, io[c]) /\ Has(P[l], f, c)
           /\ Q \in Waits /\ Placed(Q, io) /\ Loses(P, Q, l, f, c) /\ KeepsOrder(P, Q)
<1>1. P[l] \in Seq(Functors) /\ Q[l] = Tail(P[l]) /\ \A m \in Loops : m # l => Q[m] = P[m]
    BY Zenon DEF Waits, Take, Takes
<1>2. /\ Q[l] \in Seq(Functors) /\ Head(P[l]) \in Functors /\ Has(P[l], Head(P[l])[1], Head(P[l])[2])
      /\ \A g, d : Has(Q[l], g, d) => Has(P[l], g, d)
      /\ \A g, d : Has(P[l], g, d) => Has(Q[l], g, d) \/ Head(P[l]) = <<g, d>>
      /\ \A g, d : Once(P[l], g, d) => Once(Q[l], g, d)
      /\ \A g, d : Once(P[l], g, d) /\ Head(P[l]) = <<g, d>> => ~Has(Q[l], g, d)
      /\ \A d : Before(P[l], d) => Before(Q[l], d)
    BY <1>1, TailHas, Zenon DEF Takes
<1>3. f \in Steps /\ c \in Conns /\ Head(P[l]) = <<f, c>>
    BY <1>2 DEF Functors, Takes
<1>4. Has(P[l], f, c) /\ l = Home(f, io[c]) /\ Once(P[l], f, c)
    BY <1>2, <1>3 DEF Placed
<1>5. \A g, d : Head(P[l]) = <<g, d>> <=> g = f /\ d = c
    BY <1>3
<1>6. ~Has(Q[l], f, c)
    BY <1>2, <1>3, <1>4, Zenon
<1>7. \A m \in Loops : \A g, d : Has(Q[m], g, d) <=> Has(P[m], g, d) /\ ~(m = l /\ g = f /\ d = c)
    BY <1>1, <1>2, <1>5, <1>6, ZenonT(30)
<1>8. Placed(Q, io)
    BY <1>1, <1>2, <1>7, Zenon DEF Placed
<1>9. Q \in Waits
    BY <1>1, <1>2, Zenon DEF Waits, Take, Takes
<1>10. \A m \in Loops : \A d : Before(P[m], d) => Before(Q[m], d)
    BY <1>1, <1>2, Zenon
<1>11. QED
    BY <1>3, <1>4, <1>7, <1>8, <1>9, <1>10, Zenon DEF Loses, KeepsOrder
-----------------------------------------------------------------------------
(***************************************************************************)
(* What a step does to a connection, as far as it is told here which       *)
(* functors wait before (P) and after (Q).                                 *)
(***************************************************************************)
\* newConnection of a connection that stays in the base loop,
LEMMA NewIsNowhere ==
    ASSUME NEW P, NEW k, NEW io, NEW cs, NEW sv, Placed(P, io), Agreed(P, k, io, cs, sv),
           sv = "started", NEW c \in Conns, k[c] = "none"
    PROVE  \A m \in Loops, g \in Steps : ~Has(P[m], g, c)
<1> SUFFICES ASSUME NEW m \in Loops, NEW g \in Steps, Has(P[m], g, c) PROVE FALSE
    BY Zenon
<1>1. m = Home(g, io[c])
    BY Zenon DEF Placed
<1>2. Agrees(c, k[c], io[c], P[io[c]], P[baseLoop_], cs, sv)
    BY Zenon DEF Agreed
<1>3. k[c] \notin {"kConnecting", "kConnected", "kDisconnected", "destroyed", "lost"}
    BY Zenon
<1>4. QED
    BY <1>1, <1>2, <1>3, Zenon DEF Agrees, Home, Steps, Alive

LEMMA NewHere ==
    ASSUME NEW P \in Waits, NEW k \in [Conns -> States], NEW io \in [Conns -> Loops], NEW cs, NEW sv,
           Placed(P, io), Agreed(P, k, io, cs, sv), sv = "started",
           NEW c \in Conns, k[c] = "none",
           NEW kk, kk[c] = "kConnected" /\ \A d \in Conns : d # c => kk[d] = k[d],
           NEW ii, ii[c] = baseLoop_ /\ \A d \in Conns : d # c => ii[d] = io[d]
    PROVE  Placed(P, ii) /\ Agreed(P, kk, ii, cs \cup {c}, sv)
<1>3. \A m \in Loops, g \in Steps : ~Has(P[m], g, c)
    BY NewIsNowhere, Zenon
<1>4. Placed(P, ii)
    BY <1>3, Zenon DEF Placed
<1>5. ASSUME NEW d \in Conns PROVE Agrees(d, kk[d], ii[d], P[ii[d]], P[baseLoop_], cs \cup {c}, sv)
  <2>1. Agrees(d, k[d], io[d], P[io[d]], P[baseLoop_], cs, sv)
      BY ZenonT(30) DEF Agreed
  <2>2. CASE d # c
      BY <2>1, <2>2, Zenon DEF Agrees
  <2>3. CASE d = c
    <3>1. \A g \in Steps : ~Has(P[baseLoop_], g, d)
        BY <1>3, <2>3, BaseIsLoop, Zenon
    <3>2. Before(P[baseLoop_], d)
        BY <3>1, Zenon DEF Before, Has, Steps
    <3>3. QED
        BY <2>3, <3>1, <3>2, Zenon DEF Agrees, Steps, Alive, Open
  <2>4. QED
      BY <2>2, <2>3, Zenon
<1>6. QED
    BY <1>4, <1>5, Zenon DEF Agreed

\* and of one that is dealt to another loop.
LEMMA NewAway ==
    ASSUME NEW P \in Waits, NEW k \in [Conns -> States], NEW io \in [Conns -> Loops], NEW cs, NEW sv,
           Placed(P, io), Agreed(P, k, io, cs, sv), sv = "started",
           NEW c \in Conns, k[c] = "none", NEW l \in Loops, l # baseLoop_,
           NEW Q, Q = Put(P, l, <<"connectEstablished", c>>),
           NEW kk, kk[c] = "kConnecting" /\ \A d \in Conns : d # c => kk[d] = k[d],
           NEW ii \in [Conns -> Loops], ii[c] = l /\ \A d \in Conns : d # c => ii[d] = io[d]
    PROVE  Placed(Q, ii) /\ Agreed(Q, kk, ii, cs \cup {c}, sv)
<1>3. \A m \in Loops, g \in Steps : ~Has(P[m], g, c)
    BY NewIsNowhere, Zenon
<1>4. Placed(P, ii)
    BY <1>3, ZenonT(30) DEF Placed
<1>5. "connectEstablished" \in Steps /\ l = Home("connectEstablished", ii[c])
      /\ ~Has(P[l], "connectEstablished", c) /\ ~Has(P[l], "connectDestroyed", c)
    BY <1>3, Zenon DEF Home, Steps
<1>6. Placed(Q, ii) /\ Gains(P, Q, l, "connectEstablished", c) /\ KeepsOrder(P, Q)
  <2>1. Puts(P, Q, ii, l, "connectEstablished", c)
      BY <1>5, Zenon DEF Puts
  <2>2. QED
      BY <1>4, <1>5, <2>1, Placing, Zenon
<1>7. ASSUME NEW d \in Conns PROVE Agrees(d, kk[d], ii[d], Q[ii[d]], Q[baseLoop_], cs \cup {c}, sv)
  <2>1. Agrees(d, k[d], io[d], P[io[d]], P[baseLoop_], cs, sv)
      BY Zenon DEF Agreed
  <2>2. io[d] \in Loops
      BY Zenon
  <2>3. CASE d # c
    <3>1. \A m \in Loops : \A g : Has(Q[m], g, d) <=> Has(P[m], g, d)
        BY <1>6, <2>3, ZenonT(30) DEF Gains
    <3>2. QED
        BY <1>6, <2>1, <2>2, <2>3, <3>1, BaseIsLoop, Zenon DEF Agrees, KeepsOrder
  <2>4. CASE d = c
    <3>1. /\ Has(Q[l], "connectEstablished", d) /\ ~Has(Q[l], "connectDestroyed", d)
          /\ ~Has(Q[baseLoop_], "removeConnectionInLoop", d)
        BY <1>3, <1>6, <2>4, BaseIsLoop DEF Steps, Gains
    <3>2. Before(Q[l], d)
        BY <3>1, Zenon DEF Before, Has
    <3>3. QED
        BY <2>4, <3>1, <3>2, Zenon DEF Agrees, Alive, Open
  <2>5. QED
      BY <2>3, <2>4, Zenon
<1>8. QED
    BY <1>6, <1>7, Zenon DEF Agreed

\* handleClose of a connection of the base loop,
LEMMA CloseHere ==
    ASSUME NEW P \in Waits, NEW k \in [Conns -> States], NEW io \in [Conns -> Loops], NEW cs, NEW sv,
           Placed(P, io), Agreed(P, k, io, cs, sv),
           NEW c \in Conns, k[c] = "kConnected", io[c] = baseLoop_,
           NEW Q, Q = Put(P, io[c], <<"connectDestroyed", c>>),
           NEW kk, kk[c] = "kDisconnected" /\ \A d \in Conns : d # c => kk[d] = k[d]
    PROVE  Placed(Q, io) /\ Agreed(Q, kk, io, cs \ {c}, sv)
<1>1. Agrees(c, k[c], io[c], P[io[c]], P[baseLoop_], cs, sv)
    BY Zenon DEF Agreed
<1>2. sv \in {"new", "started"} /\ c \in cs /\ ~Has(P[baseLoop_], "connectEstablished", c)
      /\ ~Has(P[baseLoop_], "connectDestroyed", c) /\ ~Has(P[baseLoop_], "removeConnectionInLoop", c)
    BY <1>1, Zenon DEF Agrees, Open
<1>3. "connectDestroyed" \in Steps
    BY Zenon DEF Steps
<1>4. Placed(Q, io) /\ Gains(P, Q, baseLoop_, "connectDestroyed", c) /\ KeepsOrder(P, Q)
  <2>1. Puts(P, Q, io, baseLoop_, "connectDestroyed", c)
      BY <1>2, Zenon DEF Puts, Home
  <2>2. QED
      BY <1>3, <2>1, BaseIsLoop, Placing, Zenon
<1>5. ASSUME NEW d \in Conns PROVE Agrees(d, kk[d], io[d], Q[io[d]], Q[baseLoop_], cs \ {c}, sv)
  <2>1. Agrees(d, k[d], io[d], P[io[d]], P[baseLoop_], cs, sv)
      BY Zenon DEF Agreed
  <2>2. io[d] \in Loops
      BY Zenon
  <2>3. CASE d # c
    <3>1. \A m \in Loops : \A g : Has(Q[m], g, d) <=> Has(P[m], g, d)
        BY <1>4, <2>3, ZenonT(30) DEF Gains
    <3>2. QED
        BY <1>4, <2>1, <2>2, <2>3, <3>1, BaseIsLoop, Zenon DEF Agrees, KeepsOrder
  <2>4. CASE d = c
    <3>1. /\ ~Has(Q[baseLoop_], "connectEstablished", d) /\ ~Has(Q[baseLoop_], "removeConnectionInLoop", d)
        BY <1>2, <1>4, <2>4, BaseIsLoop DEF Gains
    <3>2. Before(Q[baseLoop_], d)
        BY <3>1, ZenonT(30) DEF Before, Has
    <3>3. QED
        BY <1>2, <2>4, <3>1, <3>2, Zenon DEF Agrees, Alive, Open
  <2>5. QED
      BY <2>3, <2>4, Zenon
<1>6. QED
    BY <1>4, <1>5, Zenon DEF Agreed

\* and of one in another loop.
LEMMA CloseAway ==
    ASSUME NEW P \in Waits, NEW k \in [Conns -> States], NEW io \in [Conns -> Loops], NEW cs, NEW sv,
           Placed(P, io), Agreed(P, k, io, cs, sv),
           NEW c \in Conns, k[c] = "kConnected", io[c] # baseLoop_,
           NEW Q, Q = Put(P, baseLoop_, <<"removeConnectionInLoop", c>>),
           NEW kk, kk[c] = "kDisconnected" /\ \A d \in Conns : d # c => kk[d] = k[d]
    PROVE  Placed(Q, io) /\ Agreed(Q, kk, io, cs, sv)
<1>1. Agrees(c, k[c], io[c], P[io[c]], P[baseLoop_], cs, sv)
    BY Zenon DEF Agreed
<1>2. ~Has(P[io[c]], "connectEstablished", c) /\ ~Has(P[baseLoop_], "removeConnectionInLoop", c)
    BY <1>1, Zenon DEF Agrees
<1>3. "removeConnectionInLoop" \in Steps
    BY Zenon DEF Steps
<1>4. Placed(Q, io) /\ Gains(P, Q, baseLoop_, "removeConnectionInLoop", c) /\ KeepsOrder(P, Q)
  <2>1. Puts(P, Q, io, baseLoop_, "removeConnectionInLoop", c)
      BY <1>2, Zenon DEF Puts, Home
  <2>2. QED
      BY <1>3, <2>1, BaseIsLoop, Placing, Zenon
<1>5. ASSUME NEW d \in Conns PROVE Agrees(d, kk[d], io[d], Q[io[d]], Q[baseLoop_], cs, sv)
  <2>1. Agrees(d, k[d], io[d], P[io[d]], P[baseLoop_], cs, sv)
      BY Zenon DEF Agreed
  <2>2. io[d] \in Loops
      BY Zenon
  <2>3. CASE d # c
    <3>1. \A m \in Loops : \A g : Has(Q[m], g, d) <=> Has(P[m], g, d)
        BY <1>4, <2>3, Zenon DEF Gains
    <3>2. QED
        BY <1>4, <2>1, <2>2, <2>3, <3>1, BaseIsLoop, ZenonT(30) DEF Agrees, KeepsOrder
  <2>4. CASE d = c
    <3>1. /\ ~Has(Q[io[d]], "connectEstablished", d) /\ Has(Q[baseLoop_], "removeConnectionInLoop", d)
          /\ Has(Q[io[d]], "connectDestroyed", d) <=> Has(P[io[d]], "connectDestroyed", d)
        BY <1>2, <1>4, <2>2, <2>4, BaseIsLoop, Zenon DEF Gains
    <3>2. Before(Q[io[d]], d)
        BY <3>1, Zenon DEF Before, Has
    <3>3. QED
        BY <2>1, <2>4, <3>1, <3>2, Zenon DEF Agrees, Alive, Open
  <2>5. QED
      BY <2>3, <2>4, Zenon
<1>6. QED
    BY <1>4, <1>5, Zenon DEF Agreed

\* connectEstablished runs,
LEMMA Establish ==
    ASSUME NEW P \in Waits, NEW k \in [Conns -> States], NEW io \in [Conns -> Loops], NEW cs, NEW sv,
           Placed(P, io), Agreed(P, k, io, cs, sv),
           NEW l \in Loops, NEW c, NEW Q, Takes(P, Q, l, "connectEstablished", c),
           NEW kk, kk[c] = "kConnected" /\ \A d \in Conns : d # c => kk[d] = k[d]
    PROVE  k[c] = "kConnecting" /\ Placed(Q, io) /\ Agreed(Q, kk, io, cs, sv)
<1>1. /\ c \in Conns /\ l = Home("connectEstablished", io[c]) /\ Has(P[l], "connectEstablished", c)
      /\ Placed(Q, io) /\ Loses(P, Q, l, "connectEstablished", c) /\ KeepsOrder(P, Q)
    BY Taking
<1>2. l = io[c]
    BY <1>1, ZenonT(30) DEF Home
<1>3. k[c] = "kConnecting"
    BY <1>1, <1>2, Zenon DEF Agreed, Agrees
<1>4. ASSUME NEW d \in Conns PROVE Agrees(d, kk[d], io[d], Q[io[d]], Q[baseLoop_], cs, sv)
  <2>1. Agrees(d, k[d], io[d], P[io[d]], P[baseLoop_], cs, sv)
      BY Zenon DEF Agreed
  <2>2. io[d] \in Loops
      BY Zenon
  <2>3. CASE d # c
    <3>1. \A m \in Loops : \A g : Has(Q[m], g, d) <=> Has(P[m], g, d)
        BY <1>1, <2>3, Zenon DEF Loses
    <3>2. QED
        BY <1>1, <2>1, <2>2, <2>3, <3>1, BaseIsLoop, Zenon DEF Agrees, KeepsOrder
  <2>4. CASE d = c
    <3>1. /\ ~Has(Q[io[d]], "connectEstablished", d)
          /\ Has(Q[io[d]], "connectDestroyed", d) <=> Has(P[io[d]], "connectDestroyed", d)
          /\ Has(Q[baseLoop_], "removeConnectionInLoop", d) <=> Has(P[baseLoop_], "removeConnectionInLoop", d)
        BY <1>1, <1>2, <2>2, <2>4, BaseIsLoop, Zenon DEF Loses
    <3>2. Before(Q[io[d]], d)
        BY <3>1, Zenon DEF Before, Has
    <3>3. kk[d] = "kConnected" /\ k[d] = "kConnecting"
        BY <1>3, <2>4, Zenon
    <3>4. QED
        BY <2>1, <3>1, <3>2, <3>3, ZenonT(30) DEF Agrees, Alive, Open
  <2>5. QED
      BY <2>3, <2>4, Zenon
<1>5. QED
    BY <1>1, <1>3, <1>4, Zenon DEF Agreed

\* connectDestroyed,
LEMMA Destroy ==
    ASSUME NEW P \in Waits, NEW k \in [Conns -> States], NEW io \in [Conns -> Loops], NEW cs, NEW sv,
           Placed(P, io), Agreed(P, k, io, cs, sv),
           NEW l \in Loops, NEW c, NEW Q, Takes(P, Q, l, "connectDestroyed", c),
           NEW kk, kk[c] = "destroyed" /\ \A d \in Conns : d # c => kk[d] = k[d]
    PROVE  k[c] \in Alive /\ Placed(Q, io) /\ Agreed(Q, kk, io, cs, sv)
<1>1. /\ c \in Conns /\ l = Home("connectDestroyed", io[c]) /\ Has(P[l], "connectDestroyed", c)
      /\ Placed(Q, io) /\ Loses(P, Q, l, "connectDestroyed", c) /\ KeepsOrder(P, Q)
    BY Taking
<1>2. l = io[c]
    BY <1>1, ZenonT(30) DEF Home
<1>3. ~Has(P[l], "connectEstablished", c)
  <2>1. P[l] \in Seq(Functors) /\ P[l] # <<>> /\ Head(P[l]) = <<"connectDestroyed", c>> /\ Before(P[l], c)
      BY <1>1, <1>2, ZenonT(30) DEF Waits, Takes, Agreed, Agrees
  <2>2. QED
      BY <2>1, FirstDestroyed, Zenon
<1>4. k[c] \in Alive /\ c \notin cs /\ k[c] # "kConnecting"
      /\ (Has(P[baseLoop_], "removeConnectionInLoop", c) => sv \notin {"new", "started"})
      /\ (k[c] \in Open => sv \notin {"new", "started"})
    BY <1>1, <1>2, <1>3, Zenon DEF Agreed, Agrees
<1>5. ASSUME NEW d \in Conns PROVE Agrees(d, kk[d], io[d], Q[io[d]], Q[baseLoop_], cs, sv)
  <2>1. Agrees(d, k[d], io[d], P[io[d]], P[baseLoop_], cs, sv)
      BY Zenon DEF Agreed
  <2>2. io[d] \in Loops
      BY Zenon
  <2>3. CASE d # c
    <3>1. \A m \in Loops : \A g : Has(Q[m], g, d) <=> Has(P[m], g, d)
        BY <1>1, <2>3, Zenon DEF Loses
    <3>2. QED
        BY <1>1, <2>1, <2>2, <2>3, <3>1, BaseIsLoop, Zenon DEF Agrees, KeepsOrder
  <2>4. CASE d = c
    <3>1. /\ ~Has(Q[io[d]], "connectDestroyed", d) /\ ~Has(Q[io[d]], "connectEstablished", d)
          /\ Has(Q[baseLoop_], "removeConnectionInLoop", d) <=> Has(P[baseLoop_], "removeConnectionInLoop", d)
        BY <1>1, <1>2, <1>3, <2>2, <2>4, BaseIsLoop, Zenon DEF Loses
    <3>2. Before(Q[io[d]], d)
        BY <3>1, Zenon DEF Before, Has
    <3>3. kk[d] = "destroyed"
        BY <2>4, Zenon
    <3>4. QED
        BY <1>4, <2>1, <2>4, <3>1, <3>2, <3>3, ZenonT(30) DEF Agrees, Alive, Open
  <2>5. QED
      BY <2>3, <2>4, Zenon
<1>6. QED
    BY <1>1, <1>4, <1>5, Zenon DEF Agreed

\* removeConnectionInLoop while there is a server: the connection leaves
\* connections_ and its connectDestroyed is queued,
LEMMA Removed ==
    ASSUME NEW P \in Waits, NEW k \in [Conns -> States], NEW io \in [Conns -> Loops], NEW cs, NEW sv,
           Placed(P, io), Agreed(P, k, io, cs, sv), sv \in {"new", "started"},
           NEW l \in Loops, NEW c, NEW M, Takes(P, M, l, "removeConnectionInLoop", c),
           NEW Q, Q = Put(M, io[c], <<"connectDestroyed", c>>)
    PROVE  Placed(Q, io) /\ Agreed(Q, k, io, cs \ {c}, sv)
<1>1. /\ c \in Conns /\ l = Home("removeConnectionInLoop", io[c]) /\ Has(P[l], "removeConnectionInLoop", c)
      /\ M \in Waits /\ Placed(M, io) /\ Loses(P, M, l, "removeConnectionInLoop", c) /\ KeepsOrder(P, M)
    BY Taking
<1>2. l = baseLoop_ /\ io[c] \in Loops
    BY <1>1, Zenon DEF Home
<1>3. k[c] = "kDisconnected" /\ c \in cs /\ ~Has(P[io[c]], "connectDestroyed", c)
      /\ ~Has(P[io[c]], "connectEstablished", c)
    BY <1>1, <1>2, Zenon DEF Agreed, Agrees
<1>4. /\ ~Has(M[io[c]], "connectDestroyed", c) /\ ~Has(M[io[c]], "connectEstablished", c)
      /\ ~Has(M[baseLoop_], "removeConnectionInLoop", c)
    BY <1>1, <1>2, <1>3, BaseIsLoop, Zenon DEF Loses
<1>5. "connectDestroyed" \in Steps
    BY Zenon DEF Steps
<1>6. Placed(Q, io) /\ Gains(M, Q, io[c], "connectDestroyed", c) /\ KeepsOrder(M, Q)
  <2>1. Puts(M, Q, io, io[c], "connectDestroyed", c)
      BY <1>4, Zenon DEF Puts, Home
  <2>2. QED
      BY <1>1, <1>2, <1>5, <2>1, Placing, Zenon
<1>7. ASSUME NEW d \in Conns PROVE Agrees(d, k[d], io[d], Q[io[d]], Q[baseLoop_], cs \ {c}, sv)
  <2>1. Agrees(d, k[d], io[d], P[io[d]], P[baseLoop_], cs, sv)
      BY Zenon DEF Agreed
  <2>2. io[d] \in Loops
      BY ZenonT(30)
  <2>3. CASE d # c
    <3>1. \A m \in Loops : \A g : Has(Q[m], g, d) <=> Has(P[m], g, d)
        BY <1>1, <1>6, <2>3, Zenon DEF Loses, Gains
    <3>2. QED
        BY <1>1, <1>6, <2>1, <2>2, <2>3, <3>1, BaseIsLoop, Zenon DEF Agrees, KeepsOrder
  <2>4. CASE d = c
    <3>1. ~Has(Q[io[d]], "connectEstablished", d) /\ ~Has(Q[baseLoop_], "removeConnectionInLoop", d)
        BY <1>4, <1>6, <2>2, <2>4, BaseIsLoop DEF Gains
    <3>2. Before(Q[io[d]], d)
        BY <3>1, Zenon DEF Before, Has
    <3>3. QED
        BY <1>3, <2>1, <2>4, <3>1, <3>2, ZenonT(30) DEF Agrees, Alive, Open
  <2>5. QED
      BY <2>3, <2>4, Zenon
<1>8. QED
    BY <1>6, <1>7, Zenon DEF Agreed

\* and when it is gone.
LEMMA Dangle ==
    ASSUME NEW P \in Waits, NEW k \in [Conns -> States], NEW io \in [Conns -> Loops], NEW cs, NEW sv,
           Placed(P, io), Agreed(P, k, io, cs, sv), sv \notin {"new", "started"},
           NEW l \in Loops, NEW c, NEW Q, Takes(P, Q, l, "removeConnectionInLoop", c),
           NEW sw, sw \notin {"new", "started"}
    PROVE  Placed(Q, io) /\ Agreed(Q, k, io, cs, sw)
<1>1. /\ c \in Conns /\ Placed(Q, io) /\ Loses(P, Q, l, "removeConnectionInLoop", c) /\ KeepsOrder(P, Q)
    BY Taking, ZenonT(30)
<1>2. ASSUME NEW d \in Conns PROVE Agrees(d, k[d], io[d], Q[io[d]], Q[baseLoop_], cs, sw)
  <2>1. Agrees(d, k[d], io[d], P[io[d]], P[baseLoop_], cs, sv)
      BY Zenon DEF Agreed
  <2>2. io[d] \in Loops
      BY Zenon
  <2>3. /\ Has(Q[io[d]], "connectEstablished", d) <=> Has(P[io[d]], "connectEstablished", d)
        /\ Has(Q[io[d]], "connectDestroyed", d) <=> Has(P[io[d]], "connectDestroyed", d)
        /\ Has(Q[baseLoop_], "removeConnectionInLoop", d) => Has(P[baseLoop_], "removeConnectionInLoop", d)
      BY <1>1, <2>2, BaseIsLoop, Zenon DEF Loses
  <2>4. QED
      BY <1>1, <2>1, <2>2, <2>3, Zenon DEF Agrees, KeepsOrder
<1>3. QED
    BY <1>1, <1>2, Zenon DEF Agreed

\* A loop other than the base loop ends; what waits in it is lost.
Drop(P, l) == [P EXCEPT ![l] = <<>>]

LEMMA Dropping ==
    ASSUME NEW P \in Waits, NEW k \in [Conns -> States], NEW io \in [Conns -> Loops], NEW cs, NEW sv,
           Placed(P, io), Agreed(P, k, io, cs, sv), sv \notin {"new", "started"},
           NEW l \in Loops, l # baseLoop_, NEW Q, Q = Drop(P, l),
           NEW S, \A c \in Conns : c \in S <=> Has(P[l], "connectEstablished", c) \/ Has(P[l], "connectDestroyed", c),
           NEW kk, \A c \in Conns : kk[c] = IF c \in S THEN "lost" ELSE k[c]
    PROVE  (\A c \in Conns : c \in S => k[c] # "none") /\ Placed(Q, io) /\ Agreed(Q, kk, io, cs, sv)
<1>1. Q[l] = <<>> /\ \A m \in Loops : m # l => Q[m] = P[m]
    BY Zenon DEF Drop, Waits
<1>2. Len(<<>>) = 0 /\ 1 .. 0 = {}
    OBVIOUS
<1>3. \A f, c : ~Has(Q[l], f, c) /\ Once(Q[l], f, c) /\ Before(Q[l], c)
    BY <1>1, <1>2, ZenonT(30) DEF Has, Once, Before
<1>4. Placed(Q, io)
    BY <1>1, <1>3, ZenonT(30) DEF Placed
<1>5. \A c \in Conns : c \in S => io[c] = l /\ k[c] \in Alive
  <2> SUFFICES ASSUME NEW c \in Conns, c \in S PROVE io[c] = l /\ k[c] \in Alive
      BY Zenon
  <2>1. Agrees(c, k[c], io[c], P[io[c]], P[baseLoop_], cs, sv)
      BY Zenon DEF Agreed
  <2>2. Has(P[l], "connectEstablished", c) \/ Has(P[l], "connectDestroyed", c)
      BY ZenonT(30)
  <2>3. io[c] = l
      BY <2>2, Zenon DEF Placed, Home, Steps
  <2>4. QED
      BY <2>1, <2>2, <2>3, Zenon DEF Agrees, Alive
<1>6. ASSUME NEW d \in Conns PROVE Agrees(d, kk[d], io[d], Q[io[d]], Q[baseLoop_], cs, sv)
  <2>1. Agrees(d, k[d], io[d], P[io[d]], P[baseLoop_], cs, sv)
      BY ZenonT(30) DEF Agreed
  <2>2. io[d] \in Loops /\ Q[baseLoop_] = P[baseLoop_]
      BY <1>1, BaseIsLoop, Zenon
  <2>3. CASE d \in S
    <3>1. io[d] = l /\ kk[d] = "lost"
        BY <1>5, <2>3, Zenon
    <3>2. QED
        BY <1>3, <2>1, <2>2, <3>1, Zenon DEF Agrees, Open
  <2>4. CASE d \notin S /\ io[d] = l
    <3>1. kk[d] = k[d] /\ ~Has(P[io[d]], "connectEstablished", d)
        BY <2>4, ZenonT(30)
    <3>2. QED
        BY <1>3, <2>1, <2>2, <2>4, <3>1, Zenon DEF Agrees
  <2>5. CASE d \notin S /\ io[d] # l
    <3>1. kk[d] = k[d] /\ Q[io[d]] = P[io[d]]
        BY <1>1, <2>2, <2>5, Zenon
    <3>2. QED
        BY <2>1, <2>2, <3>1, ZenonT(30)
  <2>6. QED
      BY <2>3, <2>4, <2>5, Zenon
<1>7. QED
    BY <1>4, <1>5, <1>6, Zenon DEF Agreed, Alive

\* ~TcpServer destroys the connections of the base loop and queues the
\* connectDestroyed of the others.
Pours(P, Q, io, cs) == \A l \in Loops : Q[l] = Pour(P[l], {c \in cs : io[c] # baseLoop_ /\ io[c] = l})
Ends(k, kk, io, cs) ==
    \A c \in Conns : kk[c] = IF c \in cs /\ io[c] = baseLoop_ THEN "destroyed" ELSE k[c]

LEMMA Ending ==
    ASSUME SetFacts, NEW P \in Waits, NEW k \in [Conns -> States], NEW io \in [Conns -> Loops],
           NEW cs \in SUBSET Conns, NEW sv,
           Placed(P, io), Agreed(P, k, io, cs, sv), sv \in {"new", "started"},
           NEW Q, Pours(P, Q, io, cs), NEW kk, Ends(k, kk, io, cs)
    PROVE  /\ \A l \in Loops : Q[l] \in Seq(Functors)
           /\ \A c \in cs : k[c] # "none"
           /\ Placed(Q, io) /\ Agreed(Q, kk, io, {}, "joining")
<1> DEFINE last(l) == {c \in cs : io[c] # baseLoop_ /\ io[c] = l}
<1>1. IsFiniteSet(Conns)
    BY ConnsFinite, Zenon
<1>2. \A l \in Loops : last(l) \in SUBSET Conns /\ IsFiniteSet(last(l)) /\ P[l] \in Seq(Functors) /\ Q[l] = Pour(P[l], last(l))
  <2> TAKE l \in Loops
  <2>1. last(l) \subseteq Conns
      BY Zenon
  <2>2. QED
      BY <1>1, <2>1, Subsets, Zenon DEF Waits, Pours
<1>3. \A l \in Loops, c \in Conns : c \in last(l) <=> c \in cs /\ io[c] # baseLoop_ /\ io[c] = l
    BY Zenon
<1> HIDE DEF last
<1>4. ASSUME NEW l \in Loops
      PROVE  /\ Q[l] \in Seq(Functors)
             /\ \A f, c : Has(Q[l], f, c) <=> Has(P[l], f, c) \/ (f = "connectDestroyed" /\ c \in last(l))
             /\ \A f, c : Once(P[l], f, c) /\ (c \in last(l) => ~Has(P[l], "connectDestroyed", c)) => Once(Q[l], f, c)
             /\ \A c : Before(P[l], c) => Before(Q[l], c)
    BY <1>2, PourHas, Zenon
<1>5. \A c \in cs : k[c] \in Alive /\ ~Has(P[io[c]], "connectDestroyed", c)
    BY Zenon DEF Agreed, Agrees
<1>6. Placed(Q, io)
  <2> SUFFICES ASSUME NEW l \in Loops, NEW c \in Conns, NEW f \in Steps
               PROVE  Once(Q[l], f, c) /\ (Has(Q[l], f, c) => l = Home(f, io[c]))
      BY Zenon DEF Placed
  <2>1. Once(P[l], f, c) /\ (Has(P[l], f, c) => l = Home(f, io[c]))
      BY Zenon DEF Placed
  <2>2. c \in last(l) => ~Has(P[l], "connectDestroyed", c)
      BY <1>3, <1>5, Zenon
  <2>3. Once(Q[l], f, c)
      BY <1>4, <2>1, <2>2, Zenon
  <2>4. QED
      BY <1>3, <1>4, <2>1, <2>3, ZenonT(30) DEF Home
<1>7. ASSUME NEW d \in Conns PROVE Agrees(d, kk[d], io[d], Q[io[d]], Q[baseLoop_], {}, "joining")
  <2>1. Agrees(d, k[d], io[d], P[io[d]], P[baseLoop_], cs, sv)
      BY Zenon DEF Agreed
  <2>2. io[d] \in Loops /\ baseLoop_ \in Loops
      BY BaseIsLoop, Zenon
  <2>3. /\ Has(Q[io[d]], "connectEstablished", d) <=> Has(P[io[d]], "connectEstablished", d)
        /\ Has(Q[baseLoop_], "removeConnectionInLoop", d) <=> Has(P[baseLoop_], "removeConnectionInLoop", d)
        /\ Has(Q[io[d]], "connectDestroyed", d) => Has(P[io[d]], "connectDestroyed", d) \/ (d \in cs /\ io[d] # baseLoop_)
    <3>1. \A l \in Loops, f \in Steps : Has(Q[l], f, d) <=> Has(P[l], f, d) \/ (f = "connectDestroyed" /\ d \in last(l))
        BY <1>4, Zenon
    <3>2. "connectEstablished" \in Steps /\ "removeConnectionInLoop" \in Steps /\ "connectDestroyed" \in Steps
        BY Zenon DEF Steps
    <3>3. d \in last(io[d]) => d \in cs /\ io[d] # baseLoop_
        BY <1>3, <2>2, Zenon
    <3>4. QED
        BY <2>2, <3>1, <3>2, <3>3, Zenon
  <2>4. Before(P[io[d]], d) /\ (Before(P[io[d]], d) => Before(Q[io[d]], d))
      BY <1>4, <2>1, <2>2, ZenonT(30) DEF Agrees
  <2>5. CASE d \in cs /\ io[d] = baseLoop_
    <3>1. kk[d] = "destroyed" /\ k[d] # "kConnecting" /\ ~Has(P[io[d]], "connectDestroyed", d)
        BY <1>5, <2>1, <2>5, ZenonT(30) DEF Agrees, Ends
    <3>2. QED
        BY <2>1, <2>3, <2>4, <2>5, <3>1, ZenonT(30) DEF Agrees, Open
  <2>6. CASE ~(d \in cs /\ io[d] = baseLoop_)
    <3>1. kk[d] = k[d]
        BY <2>6, Zenon DEF Ends
    <3>2. io[d] = baseLoop_ => k[d] \notin Open
        BY <2>1, <2>6, Zenon DEF Agrees
    <3>3. d \in cs => k[d] \in Alive
        BY <1>5, Zenon
    <3>4. QED
        BY <2>1, <2>3, <2>4, <3>1, <3>2, <3>3, Zenon DEF Agrees
  <2>7. QED
      BY <2>5, <2>6, Zenon
<1>8. QED
    BY <1>4, <1>5, <1>6, <1>7, Zenon DEF Agreed, Alive
-----------------------------------------------------------------------------
(***************************************************************************)
(* The same of the variables.                                              *)
(***************************************************************************)
Wait(b, q) == [l \in Loops |-> b[l] \o q[l]]

LEMMA WaitPut ==
    ASSUME NEW b \in Waits, NEW q \in Waits, NEW l \in Loops, NEW g \in Functors
    PROVE  /\ Queued(q, l, g) \in Waits /\ Wait(b, q) \in Waits
           /\ Wait(b, Queued(q, l, g)) = Put(Wait(b, q), l, g)
<1>1. Queued(q, l, g) \in Waits
    BY AppendProperties, Zenon DEF Queued, Waits
<1>2. \A m \in Loops : b[m] \in Seq(Functors) /\ q[m] \in Seq(Functors) /\ b[m] \o q[m] \in Seq(Functors)
    BY ConcatProperties, Zenon DEF Waits
<1>3. Wait(b, q) \in Waits
    BY <1>2, Zenon DEF Wait, Waits
<1>4. b[l] \o Append(q[l], g) = Append(b[l] \o q[l], g)
    BY <1>2, AppendToBoth, Zenon
<1>5. \A m \in Loops : Queued(q, l, g)[m] = IF m = l THEN Append(q[l], g) ELSE q[m]
    BY Zenon DEF Queued, Waits
<1>6. \A m \in Loops : b[m] \o Queued(q, l, g)[m] = IF m = l THEN Append(b[l] \o q[l], g) ELSE b[m] \o q[m]
    BY <1>4, <1>5, Zenon
<1>7. QED
    BY <1>1, <1>3, <1>6, Zenon DEF Wait, Put

LEMMA WaitTake ==
    ASSUME NEW b \in Waits, NEW q \in Waits, NEW l \in Loops, b[l] # <<>>
    PROVE  /\ Take(b, l) \in Waits /\ Head(b[l]) \in Functors
           /\ Takes(Wait(b, q), Wait(Take(b, l), q), l, Head(b[l])[1], Head(b[l])[2])
<1>1. \A m \in Loops : b[m] \in Seq(Functors) /\ q[m] \in Seq(Functors)
    BY Zenon DEF Waits
<1>2. /\ Tail(b[l]) \o q[l] = Tail(b[l] \o q[l]) /\ b[l] \o q[l] # <<>> /\ Head(b[l]) = Head(b[l] \o q[l])
      /\ Tail(b[l]) \in Seq(Functors)
    BY <1>1, TailOfBoth, Zenon
<1>3. Head(b[l]) \in Functors
    BY <1>1, HeadTailProperties, Zenon
<1>4. Head(b[l]) = <<Head(b[l])[1], Head(b[l])[2]>>
    BY <1>3 DEF Functors
<1>5. Take(b, l) \in Waits /\ \A m \in Loops : Take(b, l)[m] = IF m = l THEN Tail(b[l]) ELSE b[m]
    BY <1>1, <1>2, Zenon DEF Take, Waits
<1>6. \A m \in Loops : Take(b, l)[m] \o q[m] = IF m = l THEN Tail(b[l] \o q[l]) ELSE b[m] \o q[m]
    BY <1>2, <1>5, Zenon
<1>7. Wait(Take(b, l), q) = Take(Wait(b, q), l)
    BY <1>6, Zenon DEF Wait, Take
<1>8. Wait(b, q)[l] = b[l] \o q[l]
    BY Zenon DEF Wait
<1>9. QED
    BY <1>2, <1>3, <1>4, <1>5, <1>7, <1>8, Zenon DEF Takes

LEMMA WaitingIs ==
    ASSUME ServerTypes
    PROVE  /\ Waiting = Wait(batch, queue) /\ batch \in Waits /\ queue \in Waits /\ Waiting \in Waits
           /\ \A l \in Loops : Waiting[l] = batch[l] \o queue[l]
<1>1. Waiting = Wait(batch, queue) /\ batch \in Waits /\ queue \in Waits
    BY Zenon DEF Waiting, Wait, Pending, ServerTypes, Waits
<1>2. \A l \in Loops : batch[l] \o queue[l] \in Seq(Functors)
    BY <1>1, ConcatProperties, Zenon DEF Waits
<1>3. QED
    BY <1>1, <1>2, Zenon DEF Wait, Waits

\* The connections stay dealt as they are.
LEMMA DealtKept ==
    ASSUME Dealt, ioLoop' = ioLoop, loops_' = loops_, next_' = next_,
           \A c \in Conns : conn'[c] # "none" <=> conn[c] # "none"
    PROVE  Dealt'
<1>1. \A l : {c \in Conns : conn'[c] # "none" /\ ioLoop'[c] = l} = {c \in Conns : conn[c] # "none" /\ ioLoop[c] = l}
    BY Zenon
<1>2. \A l : Load(l)' = Load(l)
    BY <1>1, Zenon DEF Load
<1>3. \A c \in Conns : \A d \in 1 .. c : d \in Conns
    BY ServerAssumption DEF Conns
<1>4. \A c \in Conns : conn'[c] # "none" => \A d \in 1 .. c : conn'[d] # "none"
    BY <1>3, Zenon DEF Dealt
<1>5. QED
    BY <1>2, <1>4, Zenon DEF Dealt

\* newConnection: the number in the name is new,
LEMMA NumberIsNew ==
    ASSUME SetFacts, ServerTypes, Dealt, NEW c \in Conns, c = nextConnId_
    PROVE  conn[c] = "none" /\ \A d \in 1 .. c - 1 : conn[d] # "none"
<1> DEFINE S == {d \in Conns : conn[d] # "none"}
<1>1. IsFiniteSet(S) /\ Cardinality(S) \in Nat
    BY ConnsFinite, Subsets, Zenon
<1>2. c = 1 + Cardinality(S)
    BY Zenon DEF nextConnId_
<1>3. \A d : d \in S <=> d \in Conns /\ conn[d] # "none"
    BY Zenon
<1> HIDE DEF S
<1>4. c \in Nat /\ c - 1 \in Nat /\ MaxClients \in Nat
    BY <1>1, <1>2, ServerAssumption
<1>5. ASSUME conn[c] # "none" PROVE FALSE
  <2>1. 1 .. c \subseteq S
    <3>1. \A d \in 1 .. c : d \in Conns
        BY <1>4 DEF Conns
    <3>2. QED
        BY <1>3, <1>5, <3>1, Zenon DEF Dealt
  <2>2. Cardinality(1 .. c) = c
      BY <1>4, Numbers, Zenon
  <2>3. Cardinality(1 .. c) <= Cardinality(S)
      BY <1>1, <2>1, Subsets, Zenon
  <2>4. QED
      BY <1>1, <1>2, <2>2, <2>3
<1>6. ASSUME NEW e \in 1 .. c - 1, conn[e] = "none" PROVE FALSE
  <2>1. e \in Nat /\ e - 1 \in Nat /\ e < c
      BY <1>4
  <2>2. S \subseteq 1 .. e - 1
    <3> SUFFICES ASSUME NEW d \in S PROVE d \in 1 .. e - 1
        BY Zenon
    <3>1. d \in Conns /\ \A x \in 1 .. d : conn[x] # "none"
        BY <1>3, Zenon DEF Dealt
    <3>2. d \in Nat /\ d >= 1
        BY <1>4, <3>1 DEF Conns
    <3>3. e \notin 1 .. d
        BY <1>6, <3>1, Zenon
    <3>4. QED
        BY <2>1, <3>2, <3>3
  <2>3. IsFiniteSet(1 .. e - 1) /\ Cardinality(1 .. e - 1) = e - 1
      BY <2>1, Numbers, Zenon
  <2>4. Cardinality(S) <= e - 1
      BY <2>2, <2>3, Subsets, Zenon
  <2>5. QED
      BY <1>1, <1>2, <2>1, <2>4
<1>7. QED
    BY <1>5, <1>6, Zenon

\* and the round robin goes on.
LEMMA DealtOn ==
    ASSUME SetFacts, ServerTypes, Dealt, NEW c \in Conns, c = nextConnId_, getNextLoop,
           ioLoop' = [ioLoop EXCEPT ![c] = nextLoop], conn'[c] # "none",
           \A d \in Conns : d # c => conn'[d] = conn[d]
    PROVE  Dealt'
<1>1. conn[c] = "none" /\ \A d \in 1 .. c - 1 : conn[d] # "none"
    BY NumberIsNew, Zenon
<1>2. c \in Nat /\ \A d \in 1 .. c : d = c \/ (d \in 1 .. c - 1 /\ d \in Conns)
    BY ServerAssumption DEF Conns
<1>3. \A e \in Conns : conn'[e] # "none" => \A d \in 1 .. e : conn'[d] # "none"
  <2> SUFFICES ASSUME NEW e \in Conns, conn'[e] # "none", NEW d \in 1 .. e PROVE conn'[d] # "none"
      BY Zenon
  <2>1. d \in Conns
      BY ServerAssumption DEF Conns
  <2>2. CASE e = c
      BY <1>1, <1>2, <2>1, <2>2, Zenon
  <2>3. CASE e # c
    <3>1. conn[d] # "none"
        BY <2>3, Zenon DEF Dealt
    <3>2. QED
        BY <2>1, <3>1, ZenonT(30)
  <2>4. QED
      BY <2>2, <2>3, Zenon
<1>4. PICK r \in Nat : \A l \in 1 .. Len(loops_) : Load(l) = r + (IF l <= next_ THEN 1 ELSE 0)
    BY Zenon DEF Dealt
<1>5. loops_' = loops_
    BY ZenonT(30) DEF getNextLoop
<1>6. Len(loops_) \in Nat /\ next_ \in Nat /\ (Len(loops_) # 0 => nextLoop = next_ + 1)
  <2>1. Len(loops_) \in Nat /\ (Len(loops_) # 0 => loops_ # <<>>)
      BY LenProperties, EmptySeq, Zenon DEF ServerTypes
  <2>2. next_ \in Nat /\ (Len(loops_) # 0 => next_ + 1 \in 1 .. Len(loops_))
      BY <2>1 DEF ServerTypes
  <2>3. QED
      BY <2>1, <2>2, Zenon DEF nextLoop, ServerTypes
<1>7. ASSUME NEW l, l # nextLoop PROVE Load(l)' = Load(l)
  <2>1. {d \in Conns : conn'[d] # "none" /\ ioLoop'[d] = l} = {d \in Conns : conn[d] # "none" /\ ioLoop[d] = l}
      BY <1>1, <1>7, ZenonT(30) DEF ServerTypes
  <2>2. QED
      BY <2>1, Zenon DEF Load
<1>8. ASSUME NEW l, l = nextLoop PROVE Load(l)' = Load(l) + 1
  <2> DEFINE S == {d \in Conns : conn[d] # "none" /\ ioLoop[d] = l}
             T == {d \in Conns : conn'[d] # "none" /\ ioLoop'[d] = l}
  <2>1. T = S \cup {c} /\ c \notin S
      BY <1>1, <1>8, ZenonT(30) DEF ServerTypes
  <2>2. IsFiniteSet(S)
      BY ConnsFinite, Subsets, ZenonT(30)
  <2>3. Cardinality(T) = Cardinality(S) + 1
      BY <2>1, <2>2, OneElementMore, Zenon
  <2>4. QED
      BY <2>3, Zenon DEF Load
<1>9. \E q \in Nat : \A l \in 1 .. Len(loops_) : Load(l)' = q + (IF l <= next_' THEN 1 ELSE 0)
  <2>1. ASSUME NEW l \in 1 .. Len(loops_)
        PROVE  Load(l)' = r + (IF l <= next_ + 1 THEN 1 ELSE 0)
    <3>1. nextLoop = next_ + 1
        BY <1>6
    <3>2. Load(l) = r + (IF l <= next_ THEN 1 ELSE 0)
        BY <1>4, Zenon
    <3>3. CASE l = next_ + 1
        BY <1>6, <1>8, <3>1, <3>2, <3>3
    <3>4. CASE l # next_ + 1
      <4>1. l <= next_ + 1 <=> l <= next_
          BY <1>6, <3>4
      <4>2. QED
          BY <1>7, <3>1, <3>2, <3>4, <4>1, Zenon
    <3>5. QED
        BY <3>3, <3>4, Zenon
  <2>2. CASE next_ + 1 >= Len(loops_)
    <3>1. next_' = 0
        BY <2>2, Zenon DEF getNextLoop
    <3>2. \A l \in 1 .. Len(loops_) : Load(l)' = (r + 1) + (IF l <= next_' THEN 1 ELSE 0)
      <4> TAKE l \in 1 .. Len(loops_)
      <4>1. l <= next_ + 1 /\ ~(l <= 0)
          BY <1>6, <2>2
      <4>2. QED
          BY <2>1, <3>1, <4>1
    <3>3. r + 1 \in Nat
        OBVIOUS
    <3>4. QED
        BY <3>2, <3>3, Zenon
  <2>3. CASE ~(next_ + 1 >= Len(loops_))
    <3>1. next_' = next_ + 1
        BY <2>3, Zenon DEF getNextLoop
    <3>2. QED
        BY <2>1, <3>1, Zenon
  <2>4. QED
      BY <2>2, <2>3, Zenon
<1>10. QED
    BY <1>3, <1>5, <1>9, Zenon DEF Dealt
=============================================================================
