------------------------------- MODULE Endian -------------------------------
(***************************************************************************)
(* Integers in a Buffer: appendIntN and prependIntN store a signed integer *)
(* of N bits in network byte order, peekIntN and readIntN load one.  The   *)
(* host is little-endian and has Radix values in a byte.                   *)
(***************************************************************************)
EXTENDS Buffer, SequencesExt

CONSTANT Radix      \* 256 in the code

Memory(x, n) == [i \in 1 .. n |-> (x \div Radix ^ (i - 1)) % Radix]
Unsigned(m) == FoldLeftDomain(LAMBDA u, i : u + m[i] * Radix ^ (i - 1), 0, m)
FromMemory(m) == Unsigned(m) - IF 2 * m[Len(m)] >= Radix THEN Radix ^ Len(m) ELSE 0

hostToNetwork_Same(m) == m
hostToNetwork(m) == Reverse(m)
networkToHost(m) == Reverse(m)

IntBytes(x, n) == hostToNetwork(Memory(x, n))
peekInt(n) == FromMemory(networkToHost(SubSeq(Readable, 1, n)))

appendInt(x, n) == append(IntBytes(x, n)) /\ Put(IntBytes(x, n))
readInt(n) == retrieve(n) /\ Take(n)
prependInt(x, n) == prepend(IntBytes(x, n)) /\ PutFront(IntBytes(x, n))

Ints(n) == -(Radix ^ n \div 2) .. Radix ^ n \div 2 - 1

EndianNext == \/ BufferNext
              \/ \E n \in 1 .. MaxLen :
                    \/ Small(n) /\ \E x \in Ints(n) : appendInt(x, n)
                    \/ \E x \in Ints(n) : prependInt(x, n)
                    \/ n <= readableBytes /\ readInt(n)
-----------------------------------------------------------------------------
(***************************************************************************)
(* The integer loaded is the two's complement number whose most            *)
(* significant byte was written first, negative numbers included, and      *)
(* storing it again writes the same bytes.                                 *)
(***************************************************************************)
NetworkOrder ==
    \A n \in 1 .. MaxLen : n <= Len(q) =>
        /\ IntBytes(peekInt(n), n) = SubSeq(q, 1, n)
        /\ (peekInt(n) < 0) = (2 * q[1] >= Radix)
        /\ \A k \in 1 .. n : peekInt(k) = peekInt(n) \div Radix ^ (n - k)
=============================================================================
