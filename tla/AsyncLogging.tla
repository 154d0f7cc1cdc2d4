---------------------------- MODULE AsyncLogging ----------------------------
(***************************************************************************)
(* muduo::AsyncLogging: any thread appends lines to a large buffer, and    *)
(* one thread takes the full buffers, or a partly filled one when its wait *)
(* times out, and writes them to a LogFile.  Four buffers go round between *)
(* the two sides; a fifth is allocated only in a flood.  Lines are         *)
(* numbered as they are appended and are one unit long.                    *)
(***************************************************************************)
EXTENDS Integers, SequencesExt

CONSTANTS
    kLargeBuffer,   \* size of a buffer, in lines
    MaxQueued,      \* buffers that are written; with more, all but two are dropped
    MaxLines        \* bound: lines appended

VARIABLES
    loggerRunning_, currentBuffer_, buffers_,
    nextBuffer_,    \* whether this and the next two pointers hold a buffer
    newBuffer1, newBuffer2,
    buffersToWrite,
    logger,         \* where threadFunc is: "test", "lock", "wait", "write" or "ended"
    notified,       \* cond_ was notified during the wait
    stopping,       \* where stop() is: "no", "notify", "join", "done"
    lines,          \* history: number of lines appended
    written,        \* lines in the log file, in order
    dropped         \* history: lines dropped in a flood

front == <<currentBuffer_, buffers_, nextBuffer_>>
back == <<newBuffer1, newBuffer2, buffersToWrite, written, dropped>>
asyncVars == <<front, back, loggerRunning_, logger, notified, stopping, lines>>

AsyncInit == /\ loggerRunning_ = TRUE /\ currentBuffer_ = <<>> /\ buffers_ = <<>> /\ nextBuffer_ = TRUE
             /\ newBuffer1 = TRUE /\ newBuffer2 = TRUE /\ buffersToWrite = <<>>
             /\ logger = "test" /\ notified = FALSE /\ stopping = "no"
             /\ lines = 0 /\ written = <<>> /\ dropped = {}

\* FixedBuffer::append leaves out what does not fit.
avail(b) == kLargeBuffer - Len(b)
FixedAppend(b, line) == IF avail(b) > 1 THEN Append(b, line) ELSE b

appends(fits) ==
    /\ lines < MaxLines /\ lines' = lines + 1
    /\ IF fits THEN /\ currentBuffer_' = FixedAppend(currentBuffer_, lines')
                    /\ UNCHANGED <<buffers_, nextBuffer_, notified>>
       ELSE /\ buffers_' = Append(buffers_, currentBuffer_)
            /\ currentBuffer_' = FixedAppend(<<>>, lines')
            /\ nextBuffer_' = FALSE /\ notified' = (logger = "wait")
    /\ UNCHANGED <<back, loggerRunning_, logger, stopping>>

append == appends(avail(currentBuffer_) > 1)

\* threadFunc: loggerRunning_ is tested without mutex_; then, with it and no
\* full buffer, the thread waits
test == /\ logger = "test" /\ logger' = IF loggerRunning_ THEN "lock" ELSE "ended"
        /\ UNCHANGED <<front, back, loggerRunning_, notified, stopping, lines>>
waits == /\ logger = "lock" /\ buffers_ = <<>> /\ logger' = "wait" /\ notified' = FALSE
         /\ UNCHANGED <<front, back, loggerRunning_, stopping, lines>>

\* until it is notified or the time is over.  The buffers are swapped ...
swaps(awake) ==
    /\ (logger = "lock" /\ buffers_ # <<>>) \/ (logger = "wait" /\ awake)
    /\ logger' = "write"
    /\ buffersToWrite' = Append(buffers_, currentBuffer_) /\ buffers_' = <<>>
    /\ currentBuffer_' = <<>> /\ newBuffer1' = FALSE
    /\ nextBuffer_' = TRUE /\ newBuffer2' = (newBuffer2 /\ nextBuffer_)
    /\ UNCHANGED <<loggerRunning_, notified, stopping, lines, written, dropped>>

swap_NoTimeout == swaps(notified)
swap == swaps(TRUE)

\* ... and written outside the lock; two are kept as the new spares.
writesBuffers(kept) ==
    LET n == Len(buffersToWrite)
        w == IF n > MaxQueued THEN SubSeq(buffersToWrite, 1, 2) ELSE buffersToWrite
        lost == FlattenSeq(SubSeq(buffersToWrite, Len(w) + 1, n))
        spares == IF Len(w) > kept THEN kept ELSE Len(w)
    IN /\ logger = "write" /\ logger' = "test"
       /\ written' = written \o FlattenSeq(w) /\ dropped' = dropped \cup Range(lost)
       /\ newBuffer1' = (newBuffer1 \/ spares >= 1)
       /\ newBuffer2' = (newBuffer2 \/ spares >= IF newBuffer1 THEN 1 ELSE 2)
       /\ buffersToWrite' = <<>>
       /\ UNCHANGED <<front, loggerRunning_, notified, stopping, lines>>

writeBuffers_OneSpare == writesBuffers(1)
writeBuffers == writesBuffers(2)

\* stop() clears loggerRunning_, notifies and joins, without mutex_.
stopLogging == /\ \/ stopping = "no" /\ stopping' = "notify" /\ loggerRunning_' = FALSE /\ UNCHANGED notified
                  \/ /\ stopping = "notify" /\ stopping' = "join"
                     /\ notified' = (notified \/ logger = "wait") /\ UNCHANGED loggerRunning_
                  \/ stopping = "join" /\ logger = "ended" /\ stopping' = "done" /\ UNCHANGED <<loggerRunning_, notified>>
               /\ UNCHANGED <<front, back, logger, lines>>

threadFunc == test \/ waits \/ swap \/ writeBuffers
AsyncNext == append \/ threadFunc \/ stopLogging
AsyncFairness == WF_asyncVars(threadFunc) /\ WF_asyncVars(stopping # "no" /\ stopLogging)
-----------------------------------------------------------------------------
\* The file, the buffers being written, the full ones and the current one
\* hold, in this order, every line that was appended except those dropped
\* in a flood: none is lost, repeated or overtaken while buffers change hands.
LinesConserved == written \o FlattenSeq(buffersToWrite \o buffers_) \o currentBuffer_
                  = SelectSeq([i \in 1 .. lines |-> i], LAMBDA i : i \notin dropped)

\* The asserts at the head of the loop: both spares are back, however many
\* buffers the other threads have filled meanwhile.
SparesReturn == logger \in {"test", "lock", "wait"} => newBuffer1 /\ newBuffer2 /\ buffersToWrite = <<>>

\* A line of a logger that is not stopped reaches the file or is dropped.
LineIsWritten == \A i \in 1 .. MaxLines :
    lines >= i ~> i \in Range(written) \cup dropped \/ ~loggerRunning_

\* stop() returns, although its notify may come before the wait.
StopLoggingReturns == stopping # "no" ~> stopping = "done"

\* Buffers change hands between the front end and the back end without loss
\* of a line or of a spare buffer.
BuffersConserved == LinesConserved /\ SparesReturn

\* The back end keeps up: lines reach the file, and stop() returns.
BackEndKeepsUp == LineIsWritten /\ StopLoggingReturns
=============================================================================
