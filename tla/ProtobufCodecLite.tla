------------------------- MODULE ProtobufCodecLite -------------------------
(***************************************************************************)
(* muduo::net::ProtobufCodecLite over a byte stream: send() frames a       *)
(* message as size, tag, payload and checksum, onMessage() takes the       *)
(* frames out of the input buffer as the bytes come in, in pieces of any   *)
(* length.  An integer takes one byte, bytes are numbers, and the stream   *)
(* may damage one of them.                                                 *)
(***************************************************************************)
EXTENDS Integers, SequencesExt

CONSTANTS
    tag_, OtherTag,     \* this codec's tag and the one of another codec
    kMaxMessageLen,
    Payloads,           \* the serialized messages
    Unparsable,         \* those that the prototype cannot parse
    RawOnly,            \* those for which rawCb_ returns false
    MaxMessages         \* bound: messages sent

ASSUME CodecAssumption == Unparsable \cup RawOnly \subseteq Payloads

VARIABLES
    sent,               \* history: tags and payloads given to send
    wire,               \* bytes in the stream
    inputBuffer,
    handed,             \* history: payloads given to messageCallback_
    shut,               \* defaultErrorCallback has shut the connection down
    noisy               \* history: a byte was damaged

codecVars == <<sent, wire, inputBuffer, handed, shut, noisy>>

kHeaderLen == 1
kChecksumLen == 1
kMinMessageLen == 1 + kChecksumLen

\* adler32: a number for a string of bytes, without collisions.
checksum(d) == FoldLeft(LAMBDA a, x : 8 * a + x, 1, d)

fillEmptyBuffer(tag, payload) ==
    LET body == <<tag>> \o payload
    IN <<Len(body) + kChecksumLen>> \o body \o <<checksum(body)>>

validateChecksum(d) == d[Len(d)] = checksum(SubSeq(d, 1, Len(d) - kChecksumLen))

PayloadOf(d) == SubSeq(d, 2, Len(d) - kChecksumLen)

parse(d) == IF ~validateChecksum(d) THEN "kCheckSumError"
            ELSE IF d[1] # tag_ THEN "kUnknownMessageType"
            ELSE IF PayloadOf(d) \in Unparsable THEN "kParseError" ELSE "kNoError"

\* The application's rawCb_ keeps intact frames only.
rawCb_(d) == ~(validateChecksum(d) /\ PayloadOf(d) \in RawOnly)

enough_OneMore(b) == Len(b) > kMinMessageLen + kHeaderLen
enough(b) == Len(b) >= kMinMessageLen + kHeaderLen

\* What onMessage leaves in the buffer b, got with what it hands over, and
\* whether it calls errorCallback_.
RECURSIVE onMessage(_, _)
onMessage(b, got) ==
    IF ~enough(b) THEN <<b, got, FALSE>>
    ELSE LET len == b[1]
             frame == SubSeq(b, kHeaderLen + 1, kHeaderLen + len)
             rest == SubSeq(b, kHeaderLen + len + 1, Len(b))
         IN IF len > kMaxMessageLen \/ len < kMinMessageLen THEN <<b, got, TRUE>>
            ELSE IF Len(b) < kHeaderLen + len THEN <<b, got, FALSE>>
            ELSE IF ~rawCb_(frame) THEN onMessage(rest, got)
            ELSE IF parse(frame) = "kNoError" THEN onMessage(rest, Append(got, PayloadOf(frame)))
            ELSE <<b, got, TRUE>>
-----------------------------------------------------------------------------
CodecInit == /\ sent = <<>> /\ wire = <<>> /\ inputBuffer = <<>> /\ handed = <<>>
             /\ shut = FALSE /\ noisy = FALSE

send(tag, payload) == /\ Len(sent) < MaxMessages
                      /\ sent' = Append(sent, <<tag, payload>>)
                      /\ wire' = wire \o fillEmptyBuffer(tag, payload)
                      /\ UNCHANGED <<inputBuffer, handed, shut, noisy>>

noise == /\ ~noisy /\ noisy' = TRUE
         /\ \E i \in DOMAIN wire, x \in -1 .. kMaxMessageLen + 1 :
               wire[i] # x /\ wire' = [wire EXCEPT ![i] = x]
         /\ UNCHANGED <<sent, inputBuffer, handed, shut>>

defaultErrorCallback(called) == shut' = (shut \/ called)

receive == \E n \in 1 .. Len(wire) :
    LET b == onMessage(inputBuffer \o SubSeq(wire, 1, n), handed)
    IN /\ inputBuffer' = b[1] /\ handed' = b[2] /\ defaultErrorCallback(b[3])
       /\ wire' = SubSeq(wire, n + 1, Len(wire))
       /\ UNCHANGED <<sent, noisy>>

CodecNext == noise \/ receive \/ \E t \in {tag_, OtherTag}, p \in Payloads : send(t, p)

-----------------------------------------------------------------------------
\* The messages that ought to be handed over: those before the first one
\* that the receiver refuses, without the ones that rawCb_ keeps.
Refused(m) == \/ Len(m[2]) + kMinMessageLen > kMaxMessageLen
              \/ m[2] \notin RawOnly /\ (m[1] # tag_ \/ m[2] \in Unparsable)
Expected == LET n == SelectInSeq(sent, Refused)
                good == IF n = 0 THEN sent ELSE SubSeq(sent, 1, n - 1)
            IN SelectSeq([i \in DOMAIN good |-> good[i][2]], LAMBDA p : p \notin RawOnly)

(***************************************************************************)
(* messageCallback_ gets the messages sent, whole and in order, whatever   *)
(* the pieces they come in; after a damaged or refused frame it gets none, *)
(* because the frame stays in the buffer (ProtobufCodecLite.cc:87-90).     *)
(***************************************************************************)
HandedInOrder == IsPrefix(handed, Expected)

\* When all bytes have come in undamaged, every message has been handed
\* over, as onMessage leaves no whole frame behind (62, 70, 91-94), and the
\* connection is shut down if and only if a message was refused.
NothingWaits == wire = <<>> /\ ~noisy =>
                    handed = Expected /\ shut = (SelectInSeq(sent, Refused) # 0)

\* Framing is exact: no message is handed over early, changed or out of
\* order, and none waits once its last byte is in.
FramingExact == HandedInOrder /\ NothingWaits
=============================================================================
