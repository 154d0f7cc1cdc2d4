----------------------------- MODULE ByteQueue -----------------------------
(***************************************************************************)
(* What a muduo::net::Buffer promises: a queue of bytes, written at the    *)
(* back (and taken back from there) and read at the front, where bytes may *)
(* also be put.                                                            *)
(***************************************************************************)
EXTENDS Integers, Sequences

VARIABLE q

ByteQueueInit == q = <<>>
Put(d) == q' = q \o d
PutFront(d) == q' = d \o q
Take(n) == q' = SubSeq(q, n + 1, Len(q))
Unput(n) == q' = SubSeq(q, 1, Len(q) - n)
=============================================================================
