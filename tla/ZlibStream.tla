----------------------------- MODULE ZlibStream -----------------------------
(***************************************************************************)
(* muduo::net::ZlibOutputStream: strings and Buffers are compressed into   *)
(* an output Buffer.  Input is counted in bytes, each of which takes a     *)
(* byte of output; deflate keeps some of it until it has more.             *)
(***************************************************************************)
EXTENDS Integers

CONSTANTS Pieces,           \* sizes of what is written
          kBufferSize_,     \* bufferSize_ at first, and its limit
          kMaxBufferSize,
          MaxInput          \* bound: bytes given

ASSUME ZlibAssumption == /\ Pieces \subseteq Nat /\ kBufferSize_ \in Nat \ {0}
                         /\ kMaxBufferSize \in Nat /\ MaxInput \in Nat

VARIABLES zerror_, bufferSize_,
          next_in,          \* what it points into: "null", "string", "buffer", or "stale" memory
          avail_in,
          held,             \* bytes in zlib
          output_,          \* bytes compressed
          room,             \* writable bytes of the output Buffer
          input,            \* bytes in the input Buffer
          call,             \* "no", "write", "writeBuffer", "finish"; "aborted", "stale" at the end
          given,            \* history: bytes given by the caller
          kept              \* history: finish() met input that a Buffer still has

zlibVars == <<zerror_, bufferSize_, next_in, avail_in, held, output_, room, input, call, given, kept>>

ZlibInit == /\ zerror_ = "Z_OK" /\ bufferSize_ = kBufferSize_ /\ next_in = "null" /\ avail_in = 0
            /\ held = 0 /\ output_ = 0 /\ room = 0 /\ input = 0 /\ call = "no" /\ given = 0
            /\ kept = 0

\* ::deflate stops when the input is empty or the output is full; it may
\* hold back output unless it is to finish.
deflate(out, flush) ==
    {r \in [in : 0 .. avail_in, out : 0 .. out] :
        /\ r.out <= held + r.in
        /\ r.in < avail_in => r.out = out
        /\ flush => r.out = IF held + r.in < out THEN held + r.in ELSE out}

result(r, flush) == IF flush /\ r.in = avail_in /\ r.out = held + r.in THEN "Z_STREAM_END"
                    ELSE IF r.in + r.out = 0 THEN "Z_BUF_ERROR" ELSE "Z_OK"

\* compress: room for bufferSize_ bytes, and a larger one if it was filled.
compresses(r, out, flush) ==
    /\ zerror_' = result(r, flush)
    /\ avail_in' = avail_in - r.in /\ held' = held + r.in - r.out
    /\ output_' = output_ + r.out /\ room' = out - r.out
    /\ bufferSize_' = IF out = r.out /\ bufferSize_ < kMaxBufferSize THEN 2 * bufferSize_ ELSE bufferSize_

ensured == IF room < bufferSize_ THEN bufferSize_ ELSE room

\* write(StringPiece): points next_in at the string, and goes on until all of
\* it is consumed.
write(n) ==
    /\ call = "no" /\ zerror_ = "Z_OK" /\ given + n <= MaxInput
    /\ IF next_in = "null" /\ avail_in = 0
       THEN call' = "write" /\ next_in' = "string" /\ avail_in' = n /\ given' = given + n
       ELSE call' = "aborted" /\ UNCHANGED <<next_in, avail_in, given>>      \* the assert fails
    /\ UNCHANGED <<zerror_, bufferSize_, held, output_, room, input, kept>>

writes(pointer) ==
    /\ call = "write" /\ UNCHANGED <<input, given, kept>>
    /\ IF avail_in > 0 /\ zerror_ = "Z_OK"
       THEN /\ \E r \in deflate(ensured, FALSE) : compresses(r, ensured, FALSE)
            /\ UNCHANGED <<call, next_in>>
       ELSE /\ call' = "no" /\ next_in' = IF avail_in = 0 THEN pointer ELSE next_in
            /\ UNCHANGED <<zerror_, bufferSize_, avail_in, held, output_, room>>
writeLoop == writes("null")

\* write(Buffer*): compresses once and retrieves what was consumed.  The
\* caller fills the Buffer before; Buffer::append may move its bytes, and
\* next_in, which write(Buffer*) leaves set, does not follow.
fill(n) == /\ call = "no" /\ given + n <= MaxInput /\ input' = input + n /\ given' = given + n
           /\ next_in' \in IF next_in = "buffer" /\ n > 0 THEN {"buffer", "stale"} ELSE {next_in}
           /\ UNCHANGED <<zerror_, bufferSize_, avail_in, held, output_, room, call, kept>>

writeBuffer == /\ call = "no" /\ zerror_ = "Z_OK"
               /\ call' = "writeBuffer" /\ next_in' = "buffer" /\ avail_in' = input
               /\ UNCHANGED <<zerror_, bufferSize_, held, output_, room, input, given, kept>>

retrieves(remaining) ==
    /\ call = "writeBuffer" /\ call' = "no" /\ UNCHANGED <<next_in, given, kept>>
    /\ IF avail_in > 0
       THEN \E r \in deflate(ensured, FALSE) : compresses(r, ensured, FALSE)
       ELSE UNCHANGED <<zerror_, bufferSize_, avail_in, held, output_, room>>
    /\ input' = remaining
compressBuffer_RetrievesAll == retrieves(0)
compressBuffer == retrieves(avail_in')

\* finish, which the destructor calls too.  What deflate makes of bytes that
\* have moved away is undefined: the model ends there.
finish == /\ call = "no" /\ zerror_ = "Z_OK"
          /\ call' = IF next_in = "stale" /\ avail_in > 0 THEN "stale" ELSE "finish"
          /\ kept' = avail_in
          /\ UNCHANGED <<zerror_, bufferSize_, next_in, avail_in, held, output_, room, input, given>>
finishes(flush) == /\ call = "finish" /\ UNCHANGED <<next_in, input, given, kept>>
                   /\ IF zerror_ = "Z_OK"
                      THEN /\ \E r \in deflate(ensured, flush) : compresses(r, ensured, flush)
                           /\ UNCHANGED call
                      ELSE /\ zerror_' = "Z_STREAM_END" /\ call' = "no"
                           /\ UNCHANGED <<bufferSize_, avail_in, held, output_, room>>
finishLoop == finishes(TRUE)

ZlibNext == \/ writeLoop \/ writeBuffer \/ compressBuffer \/ finish \/ finishLoop
            \/ \E n \in Pieces : write(n) \/ fill(n)
ZlibSpec == ZlibInit /\ [][ZlibNext]_zlibVars
-----------------------------------------------------------------------------
\* Between calls every byte given is compressed, held by zlib or still in
\* the input Buffer; only finish() consumes bytes that write(Buffer*) left
\* there.
BytesConserved ==
    call = "no" => output_ + held + input = given + IF zerror_ = "Z_STREAM_END" THEN kept ELSE 0

\* finish() leaves nothing behind in zlib.
FinishedIsWhole == zerror_ = "Z_STREAM_END" /\ call = "no" => held = 0

\* The assert of write(StringPiece) holds after any calls of its own kind;
\* after a write(Buffer*), which leaves next_in set, it fails.
NextInReset == call = "aborted" => next_in \in {"buffer", "stale"}

\* finish() reads memory that its Buffer no longer has in one case only: a
\* write(Buffer*) did not consume all ("not guarantee consuming all data",
\* ZlibStream.h:91), and the caller then appended to the same Buffer.
StaleRead == call = "stale" => 0 < avail_in /\ avail_in < input

\* No byte is lost or compressed twice between the caller's Buffer, zlib and
\* the output, finish() included, next_in is set only after a write(Buffer*),
\* and only then can finish() follow it to bytes that have moved.
StreamConserves == BytesConserved /\ FinishedIsWhole /\ NextInReset /\ StaleRead
=============================================================================
