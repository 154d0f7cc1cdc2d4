------------------------------- MODULE Buffer -------------------------------
(***************************************************************************)
(* muduo::net::Buffer: a vector with a reader and a writer index, spare    *)
(* room in front for prepend and behind for append.  append makes room by  *)
(* moving the readable bytes to the front or by growing the vector.  The   *)
(* element i + 1 of the sequence buffer_ is the vector's element i.        *)
(***************************************************************************)
EXTENDS ByteQueue

CONSTANTS kCheapPrepend, kInitialSize,
          Byte,         \* values of a byte
          MaxLen,       \* bound: bytes of one operation
          MaxSize       \* bound: size of the vector

ASSUME BufferAssumption == /\ kCheapPrepend \in Nat /\ kInitialSize \in Nat
                           /\ 0 \in Byte /\ MaxLen \in Nat

VARIABLES buffer_, readerIndex_, writerIndex_

bufferVars == <<buffer_, readerIndex_, writerIndex_, q>>

Data == UNION {[1 .. n -> Byte] : n \in 0 .. MaxLen}

readableBytes == writerIndex_ - readerIndex_
writableBytes == Len(buffer_) - writerIndex_
prependableBytes == readerIndex_
Readable == [i \in 1 .. readableBytes |-> buffer_[readerIndex_ + i]]

BufferInit == /\ buffer_ = [i \in 1 .. kCheapPrepend + kInitialSize |-> 0]
              /\ readerIndex_ = kCheapPrepend /\ writerIndex_ = kCheapPrepend
              /\ ByteQueueInit

\* append to the buffer <<b, r, w>>: makeSpace resizes the vector or moves
\* the readable bytes to the front, then the bytes of d are copied.
mustGrow(b, r, w, len) == Len(b) - w + r < len + kCheapPrepend

grown(b, size) == [i \in 1 .. size |-> IF i <= Len(b) THEN b[i] ELSE 0]
slid(b, r, w) == [i \in 1 .. Len(b) |->
                     IF i \in kCheapPrepend + 1 .. kCheapPrepend + w - r
                     THEN b[i - kCheapPrepend + r] ELSE b[i]]

makeSpace(b, r, w, len) ==
    IF Len(b) - w >= len THEN <<b, r, w>>
    ELSE IF mustGrow(b, r, w, len) THEN <<grown(b, w + len), r, w>>
    ELSE <<slid(b, r, w), kCheapPrepend, kCheapPrepend + w - r>>

copied(b, w, d) == [i \in 1 .. Len(b) |-> IF i \in w + 1 .. w + Len(d) THEN d[i - w] ELSE b[i]]

Appended(b, r, w, d) ==
    LET s == makeSpace(b, r, w, Len(d))
    IN <<copied(s[1], s[3], d), s[2], s[3] + Len(d)>>
-----------------------------------------------------------------------------
becomes(s) == buffer_' = s[1] /\ readerIndex_' = s[2] /\ writerIndex_' = s[3]

append(d) == becomes(Appended(buffer_, readerIndex_, writerIndex_, d))

\* Reading everything puts both indices back to the front.
retrieve(len) == /\ IF len < readableBytes
                    THEN readerIndex_' = readerIndex_ + len /\ UNCHANGED writerIndex_
                    ELSE readerIndex_' = kCheapPrepend /\ writerIndex_' = kCheapPrepend
                 /\ UNCHANGED buffer_

unwrite(len) == /\ writerIndex_' = writerIndex_ - len
                /\ UNCHANGED <<buffer_, readerIndex_>>

prepend(d) == /\ Len(d) <= prependableBytes
              /\ readerIndex_' = readerIndex_ - Len(d)
              /\ buffer_' = copied(buffer_, readerIndex_', d)
              /\ UNCHANGED writerIndex_

\* A new buffer with room for reserve more bytes, swapped with this one.
shrink(reserve) ==
    LET need == readableBytes + reserve
        size == kCheapPrepend + IF need > kInitialSize THEN need ELSE kInitialSize
    IN /\ buffer_' = copied([i \in 1 .. size |-> 0], kCheapPrepend, Readable)
       /\ readerIndex_' = kCheapPrepend /\ writerIndex_' = kCheapPrepend + readableBytes

\* readv fills the writable bytes first and then extrabuf, which is appended.
reads(d, n) ==
    IF Len(d) <= n
    THEN /\ buffer_' = copied(buffer_, writerIndex_, d) /\ writerIndex_' = writerIndex_ + Len(d)
         /\ UNCHANGED readerIndex_
    ELSE becomes(Appended(copied(buffer_, writerIndex_, SubSeq(d, 1, n)), readerIndex_,
                          Len(buffer_), SubSeq(d, n + 1, Len(d))))

readFd_SkipsRoom(d) == reads(d, 0)
readFd(d) == reads(d, writableBytes)

Small(len) == Len(buffer_) + len <= MaxSize

BufferNext == \/ \E d \in Data : Small(Len(d)) /\ (append(d) \/ readFd(d)) /\ Put(d)
              \/ \E d \in Data : prepend(d) /\ PutFront(d)
              \/ \E len \in 0 .. readableBytes : retrieve(len) /\ Take(len)
              \/ \E len \in 0 .. readableBytes : unwrite(len) /\ Unput(len)
              \/ \E reserve \in 0 .. MaxLen : Small(reserve) /\ shrink(reserve) /\ UNCHANGED q

BufferSpec == BufferInit /\ [][BufferNext]_bufferVars
-----------------------------------------------------------------------------
\* The asserts of the Buffer: the indices stay in order and in the vector
\* (190, 218, 406-408), also when makeSpace counts the room in front.
IndexesInOrder == /\ 0 <= readerIndex_ /\ readerIndex_ <= writerIndex_
                  /\ writerIndex_ <= Len(buffer_) /\ kCheapPrepend <= Len(buffer_)

\* The bytes read are the bytes written, in order, whatever was slid to the
\* front, resized, written back or read past the end through extrabuf.
ReadsWhatWasWritten == Readable = q

\* A Buffer is a byte queue: its asserts hold and it reads back what was
\* written, whichever of growing and sliding makeSpace chose.
BufferIsQueue == IndexesInOrder /\ ReadsWhatWasWritten
=============================================================================
