------------------------------ MODULE LogFile ------------------------------
(***************************************************************************)
(* muduo::LogFile: appends to a file and starts another when the file is   *)
(* large or a new period (day) has begun; the clock is read only for every *)
(* checkEveryN_-th line.  The clock counts seconds and does not go back.   *)
(***************************************************************************)
EXTENDS Integers

CONSTANTS rollSize_, checkEveryN_, flushInterval_,
          kRollPerSeconds_,     \* length of a period
          MaxNow                \* bound: the clock

ASSUME FileAssumption == /\ rollSize_ \in Nat /\ flushInterval_ \in Nat /\ MaxNow \in Nat
                         /\ checkEveryN_ \in Nat \ {0} /\ kRollPerSeconds_ \in Nat \ {0}

VARIABLES lineCount_, startOfPeriod_, lastRoll_, lastFlush_, writtenBytes_, now,
          lastAppend,   \* history: when the last line was appended
          overdue       \* history: lines since a roll or flush was due

fileVars == <<lineCount_, startOfPeriod_, lastRoll_, lastFlush_, writtenBytes_, now, lastAppend, overdue>>

StartOf(t) == (t \div kRollPerSeconds_) * kRollPerSeconds_

FileInit == /\ now \in 1 .. 2 /\ lineCount_ = 0 /\ writtenBytes_ = 0 /\ lastAppend = 0 /\ overdue = 0
            /\ startOfPeriod_ = StartOf(now) /\ lastRoll_ = now /\ lastFlush_ = now

\* No second file in one second.
rollFile == IF now > lastRoll_
            THEN /\ lastRoll_' = now /\ lastFlush_' = now /\ startOfPeriod_' = StartOf(now)
                 /\ writtenBytes_' = 0
            ELSE UNCHANGED <<lastRoll_, lastFlush_, startOfPeriod_>>

\* AppendFile::append goes on after a short write and gives up on an error:
\* the bytes it counts.
fileAppend(len) == 0 .. len

\* append_unlocked rolls or flushes after it.
logs(len, isFull, n) ==
    /\ lastAppend' = now
    /\ IF isFull
       THEN /\ rollFile /\ UNCHANGED lineCount_
            /\ now <= lastRoll_ => writtenBytes_' = writtenBytes_ + len
       ELSE IF lineCount_ + 1 < n
       THEN /\ lineCount_' = lineCount_ + 1 /\ writtenBytes_' = writtenBytes_ + len
            /\ UNCHANGED <<lastRoll_, lastFlush_, startOfPeriod_>>
       ELSE /\ lineCount_' = 0
            /\ IF StartOf(now) # startOfPeriod_
               THEN rollFile /\ (now <= lastRoll_ => writtenBytes_' = writtenBytes_ + len)
               ELSE /\ lastFlush_' = IF now - lastFlush_ > flushInterval_ THEN now ELSE lastFlush_
                    /\ writtenBytes_' = writtenBytes_ + len
                    /\ UNCHANGED <<lastRoll_, startOfPeriod_>>
    /\ overdue' = IF StartOf(now) # startOfPeriod_' \/ now - lastFlush_' > flushInterval_
                  THEN overdue + 1 ELSE 0
    /\ UNCHANGED now

append_unlocked_SizeBefore(line) == \E len \in fileAppend(line) : logs(len, writtenBytes_ > rollSize_, checkEveryN_)
append_unlocked(line) == \E len \in fileAppend(line) : logs(len, writtenBytes_ + len > rollSize_, checkEveryN_)

tick == now < MaxNow /\ now' = now + 1
        /\ UNCHANGED <<lineCount_, startOfPeriod_, lastRoll_, lastFlush_, writtenBytes_, lastAppend, overdue>>

\* A bound: no more bytes than this within one second.
FileNext == tick \/ \E line \in 1 .. 2 : writtenBytes_ <= 2 * rollSize_ /\ append_unlocked(line)
FileSpec == FileInit /\ [][FileNext]_fileVars
-----------------------------------------------------------------------------
\* A file exceeds rollSize_ only in the second it was begun in: a later line
\* makes rollFile succeed.
OverfullForASecond == writtenBytes_ > rollSize_ => lastAppend = lastRoll_

\* A new period, and lines that have waited longer than flushInterval_, are
\* noticed within checkEveryN_ lines.
NoticedInTime == overdue < checkEveryN_

\* A log file is rolled and flushed in time: it stays too large for at most
\* its first second, and what is due is noticed within checkEveryN_ lines.
RolledInTime == OverfullForASecond /\ NoticedInTime
=============================================================================
