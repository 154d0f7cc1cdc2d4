------------------------------ MODULE TimeZone ------------------------------
(***************************************************************************)
(* muduo::TimeZone: zone files are read into a list of local time types    *)
(* and a list of transitions, and times are converted to local time and    *)
(* back.  Times are small numbers, and a local time is the number of       *)
(* seconds that fromUtcTime gives for it.  Indices start at 1.             *)
(***************************************************************************)
EXTENDS Date, Sequences

CONSTANTS Offsets,          \* utcOffset of the local time types, a sequence
          MaxTransitions,   \* bound: transitions of a zone
          Spaces,           \* times between two transitions
          Near              \* times looked at before and after a transition

VARIABLES transitions,      \* of the zone: utctime and localtimeIdx
          file              \* a zone file

zoneVars == <<transitions, file>>

utctime(i) == transitions[i][1]
offset(i) == Offsets[transitions[i][2]]
localtime(i) == utctime(i) + offset(i)
FirstOffset == Offsets[1]
N == Len(transitions)

\* std::upper_bound in the transitions, by their UTC or their local times
utctimes == [i \in 1 .. N |-> utctime(i)]
localtimes == [i \in 1 .. N |-> localtime(i)]
upper_bound(keys, t) ==
    IF \A i \in 1 .. N : keys[i] <= t THEN N + 1
    ELSE CHOOSE i \in 1 .. N : keys[i] > t /\ \A j \in 1 .. i - 1 : keys[j] <= t

\* findLocalTime of a UTC time, and of a local time
findLocalTime(t) == IF N = 0 \/ t < utctime(1) THEN FirstOffset
                    ELSE offset(upper_bound(utctimes, t) - 1)

prior_second_Late(i) == utctime(i) + offset(i - 1)
prior_second(i) == utctime(i) - 1 + offset(i - 1)

findLocal(l, postTransition) ==
    IF N = 0 \/ l < localtime(1) THEN FirstOffset
    ELSE LET i == upper_bound(localtimes, l)
         IN IF i > N THEN offset(N)
            ELSE IF prior_second(i) < l                             \* a skip
            THEN offset(IF postTransition THEN i ELSE i - 1)
            ELSE IF i > 2 /\ l <= prior_second(i - 1) /\ ~postTransition   \* a repeat
            THEN offset(i - 2) ELSE offset(i - 1)

toLocalTime(t) == t + findLocalTime(t)
fromLocalTime(l, postTransition) == l - findLocal(l, postTransition)

\* BreakTime: the division of C++ is towards zero.
kSecondsPerDay == 10
quotient(t) == IF t < 0 THEN -((-t) \div kSecondsPerDay) ELSE t \div kSecondsPerDay
BreakTime(t) ==
    LET r == t - quotient(t) * kSecondsPerDay
    IN IF r < 0 THEN <<quotient(t) - 1, r + kSecondsPerDay>> ELSE <<quotient(t), r>>
fromUtcTime(dt) == dt[1] * kSecondsPerDay + dt[2]
-----------------------------------------------------------------------------
\* A zone file: a header and a data block with times of 4 bytes, and from
\* version 2 on another header and a block with times of 8 bytes; its end may
\* be missing, and the types of its transitions may not exist.
Counts == [isutc : {0, 1}, isstd : {0, 1}, leap : {0, 1}, time : {0, MaxTransitions},
           type : {1, Len(Offsets)}, char : {0, 4}]
HeaderSize == 44
\* What readDataBlock reads of a block, and all of it.
ReadSize(c, timeSize) == c.time * (timeSize + 1) + c.type * 6 + c.char
BlockSize(c, timeSize) == ReadSize(c, timeSize) + c.leap * (timeSize + 4) + c.isstd + c.isutc
FileSize(f) == HeaderSize + BlockSize(f.v1, 4)
               + IF f.version > 1 THEN HeaderSize + BlockSize(f.v2, 8) ELSE 0

\* readDataBlock, for a block whose counts end at pos: whether the code
\* gets through all it reads.
readDataBlock(f, c, timeSize, pos) ==
    /\ c.leap = 0 /\ c.isutc \in {0, c.type} /\ c.isstd \in {0, c.type}
    /\ pos + ReadSize(c, timeSize) <= FileSize(f) - f.missing
    /\ f.knownTypes \/ c.time = 0

skip(c) == 4 * c.time + c.time + 6 * c.type + c.char + 8 * c.leap + c.isstd + c.isutc

\* readTimeZoneFile: the block that is loaded, or "null" without one.  Only
\* version 2 has its first block skipped.
readTimeZoneFile(f) ==
    LET second == HeaderSize + skip(f.v1)
    IN IF f.version = 2
       THEN IF /\ second = HeaderSize + BlockSize(f.v1, 4)         \* "TZif" is there
               /\ second + HeaderSize <= FileSize(f) - f.missing
               /\ readDataBlock(f, f.v2, 8, second + HeaderSize)
            THEN "v2" ELSE "null"
       ELSE IF HeaderSize <= FileSize(f) - f.missing /\ readDataBlock(f, f.v1, 4, HeaderSize) THEN "v1" ELSE "null"
-----------------------------------------------------------------------------
Files == {f \in [version : {1, 2, 3}, v1 : Counts, v2 : Counts, missing : {0, 1, 3},
                 knownTypes : BOOLEAN] : f.version # 2 => f.v2 = f.v1}

\* The file whose transitions are added, in order, each later than the
\* last by more than any change of offset.
Whole == LET c == [isutc |-> 0, isstd |-> 0, leap |-> 0, time |-> MaxTransitions,
                   type |-> Len(Offsets), char |-> 4]
         IN [version |-> 2, v1 |-> c, v2 |-> c, missing |-> 0, knownTypes |-> TRUE]

ZoneInit == transitions = <<>> /\ file \in Files

addTransition(t, localtimeIdx) == /\ transitions' = Append(transitions, <<t, localtimeIdx>>)
                                  /\ UNCHANGED file

ZoneNext == /\ file = Whole /\ readTimeZoneFile(file) = "v2" /\ N < file.v2.time
            /\ \E t \in Spaces, k \in DOMAIN Offsets :
                  addTransition(t + IF N = 0 THEN 0 ELSE utctime(N), k)

LocalTimes == UNION {localtime(i) - Near .. localtime(i) + Near : i \in 1 .. N}
-----------------------------------------------------------------------------
(***************************************************************************)
(* fromLocalTime undoes toLocalTime: a local time that exists once gives   *)
(* its UTC time, one that is repeated gives the first or, with             *)
(* postTransition, the second, and one that is skipped is counted in the   *)
(* offset before or after the skip.  Without a known rule before the first *)
(* and after the last transition, their own skip or repeat has one answer. *)
(***************************************************************************)
LocalTimesInvert ==
    \A l \in LocalTimes :
        LET utcs == {t \in {l - Offsets[k] : k \in DOMAIN Offsets} : toLocalTime(t) = l}
            answers == {fromLocalTime(l, FALSE), fromLocalTime(l, TRUE)}
        IN /\ utcs # {} => answers \cap utcs # {}
           /\ (\E i \in 2 .. N - 1 : l \in localtime(i) - Near .. localtime(i) + Near) =>
                 /\ utcs # {} => answers = utcs /\ fromLocalTime(l, FALSE) <= fromLocalTime(l, TRUE)
                 /\ utcs = {} => fromLocalTime(l, TRUE) < fromLocalTime(l, FALSE)

\* Broken-down times convert back, also before 1970, and their seconds are
\* within the day.
BrokenTimesInvert ==
    \A t \in LocalTimes \cup {-l : l \in LocalTimes} :
        fromUtcTime(BreakTime(t)) = t /\ BreakTime(t)[2] \in 0 .. kSecondsPerDay - 1

(***************************************************************************)
(* A whole file with known types and no leap seconds is loaded: a version  *)
(* 2 file from its second block, whatever the counts of the block skipped, *)
(* and any other from its first, also a version 3 file, whose second block *)
(* is then not used.  A file that ends before what is not used is refused. *)
(***************************************************************************)
WholeFilesLoad ==
    LET f == file
        block == IF f.version = 2 THEN "v2" ELSE "v1"
        c == f[block]
        good == /\ c.leap = 0 /\ {c.isutc, c.isstd} \subseteq {0, c.type}
                /\ f.knownTypes \/ c.time = 0
        unused == c.isutc + c.isstd + IF f.version = 3 THEN HeaderSize + BlockSize(f.v2, 8) ELSE 0
    IN readTimeZoneFile(f) = IF good /\ f.missing <= unused THEN block ELSE "null"

\* Times convert and convert back, over days, leap days, skipped and repeated
\* hours, with the zone that a file describes.
TimesInvert == DatesAgree /\ LocalTimesInvert /\ BrokenTimesInvert /\ WholeFilesLoad
=============================================================================
