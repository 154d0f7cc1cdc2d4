------------------------------ MODULE FileUtil ------------------------------
(***************************************************************************)
(* muduo::FileUtil::ReadSmallFile: reads a file that others may append to  *)
(* meanwhile.  Contents are counted in bytes; a read may be short or fail, *)
(* and gives nothing only at the end of the file.                          *)
(***************************************************************************)
EXTENDS Integers

CONSTANTS kBufferSize,      \* of buf_
          MaxSizes,         \* the maxSize arguments
          MaxFile           \* bound: size of the file

ASSUME ReadAssumption == kBufferSize \in Nat \ {0} /\ MaxSizes \subseteq Nat /\ MaxFile \in Nat

VARIABLES disk,             \* size of the file
          fd_,              \* "open", "failed" (open set err_) or "directory"
          reading,          \* "no", "read" or "done": where readToString is
          maxSize, content, err,
          atStart,          \* history: disk when readToString began
          nul               \* where readToBuffer put the NUL in buf_, or -1

readVars == <<disk, fd_, reading, maxSize, content, err, atStart, nul>>

ReadInit == /\ disk \in 0 .. MaxFile /\ fd_ \in {"open", "failed", "directory"} /\ maxSize \in MaxSizes
            /\ reading = "no" /\ content = 0 /\ err = FALSE /\ atStart = 0 /\ nul = -1

\* The file is appended to.
grow == /\ disk < MaxFile /\ disk' = disk + 1
        /\ UNCHANGED <<fd_, reading, maxSize, content, err, atStart, nul>>

\* readToString: without fd_ the error of open is returned; a directory is
\* an error of fstat's answer.
readToString == /\ reading = "no" /\ atStart' = disk
                /\ reading' = IF fd_ = "failed" THEN "done" ELSE "read"
                /\ err' = (fd_ # "open")
                /\ UNCHANGED <<disk, fd_, maxSize, content, nul>>

toRead == IF maxSize - content < kBufferSize THEN maxSize - content ELSE kBufferSize
ends_Short(n) == n < toRead
ends(n) == n <= 0

\* One turn of the loop: read gives n bytes, or fails with -1.
readLoop ==
    /\ reading = "read"
    /\ IF content >= maxSize THEN reading' = "done" /\ UNCHANGED <<content, err>>
       ELSE LET left == disk - content
                most == IF left < toRead THEN left ELSE toRead
            IN \E n \in IF fd_ = "directory" THEN {-1}
                        ELSE {-1} \cup (IF most = 0 THEN {0} ELSE 1 .. most) :
                  /\ content' = IF n > 0 THEN content + n ELSE content
                  /\ err' = (err \/ n < 0)
                  /\ reading' = IF ends(n) THEN "done" ELSE "read"
    /\ UNCHANGED <<disk, fd_, maxSize, atStart, nul>>

\* readToBuffer: one pread that leaves a byte for the NUL.
readsToBuffer(room) ==
    /\ fd_ = "open"
    /\ \E n \in 0 .. IF disk < room THEN disk ELSE room : nul' = n
    /\ UNCHANGED <<disk, fd_, reading, maxSize, content, err, atStart>>
readToBuffer == readsToBuffer(kBufferSize - 1)

ReadNext == grow \/ readToString \/ readLoop \/ readToBuffer
ReadSpec == ReadInit /\ [][ReadNext]_readVars
-----------------------------------------------------------------------------
\* Without an error readToString gives maxSize bytes or the whole file, as
\* long as it was at the call at least, however short the reads are.
ReadsToTheEnd == reading = "done" /\ ~err => content = maxSize \/ content >= atStart

\* The NUL of readToBuffer lies within buf_.
EndsInBuffer == nul < kBufferSize

\* Files are read whole up to the limit, and the text ends in the buffer.
FilesReadWhole == ReadsToTheEnd /\ EndsInBuffer
=============================================================================
