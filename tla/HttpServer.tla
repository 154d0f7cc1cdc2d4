----------------------------- MODULE HttpServer -----------------------------
(***************************************************************************)
(* muduo::net::HttpServer on one connection: onMessage parses the lines    *)
(* that have come in with the connection's HttpContext and answers a       *)
(* request when its headers end.  A line is its kind; it comes in          *)
(* two halves, the second with the CRLF, and in pieces of any length.      *)
(***************************************************************************)
EXTENDS Integers, SequencesExt

CONSTANTS MaxLines,     \* bound: lines the client sends
          MaxHalves     \* bound: half lines under way

\* Well-formed request lines of the two versions, lines without a known
\* method, and lines with a known method that are wrong after it.  A line
\* without a colon ends the headers, the empty line or another one.
RequestLines == {"http11", "http10", "noMethod", "badRest"}
Headers == {"close", "Keep-Alive", "other"}

VARIABLES
    written,            \* history: lines the client has sent
    coming,             \* halves of lines under way
    inBuf,              \* the connection's input buffer
    state_, request_,   \* the HttpContext
    connected,          \* the connection is in kConnected
    responses_,         \* responses sent: the value of their Connection header
    called,             \* history: requests given to httpCallback_
    busy,               \* history: the last onMessage answered a request
    failed              \* history: the assert of setMethod has failed

httpVars == <<written, coming, inBuf, state_, request_, connected, responses_, called, busy, failed>>

NewRequest == [method |-> "kInvalid", version |-> "kUnknown", Connection |-> ""]

HttpInit == /\ written = <<>> /\ coming = <<>> /\ inBuf = <<>>
            /\ state_ = "kExpectRequestLine" /\ request_ = NewRequest
            /\ connected = TRUE /\ responses_ = <<>> /\ called = <<>>
            /\ busy = FALSE /\ failed = FALSE

setMethod(r, line) == [r EXCEPT !.method = IF line = "noMethod" THEN "kInvalid" ELSE "kGet"]
setVersion(r, line) == [r EXCEPT !.version = IF line = "http11" THEN "kHttp11" ELSE "kHttp10"]
addHeader(r, line) == IF line = "other" THEN r ELSE [r EXCEPT !.Connection = line]

\* Whether the line is well formed, and the request after it.
processRequestLine(r, line) ==
    IF line \in {"http11", "http10"} THEN <<TRUE, setVersion(setMethod(r, line), line)>>
    ELSE <<FALSE, setMethod(r, line)>>

findCRLF(b) == Len(b) >= 2

\* A header line is followed by the next one at once.
hasMore(line) == line # "noColon"

\* What parseRequest returns, leaves in the buffer and makes of the context.
RECURSIVE parseRequest(_, _, _)
parseRequest(b, s, r) ==
    IF ~findCRLF(b) THEN <<TRUE, b, s, r>>
    ELSE LET line == b[1][1]
             rest == SubSeq(b, 3, Len(b))
         IN IF s = "kExpectRequestLine"
            THEN LET p == processRequestLine(r, line)
                 IN IF p[1] THEN parseRequest(rest, "kExpectHeaders", p[2])
                            ELSE <<FALSE, b, s, p[2]>>
            ELSE IF hasMore(line) THEN parseRequest(rest, s, addHeader(r, line))
            ELSE <<TRUE, rest, IF line = "noColon" THEN "kGotAll" ELSE s, r>>

Closes(r) == \/ r.Connection = "close"
             \/ r.version = "kHttp10" /\ r.Connection # "Keep-Alive"

\* send() and shutdown() of the connection, after which it sends nothing.
sendsAndShuts(response, close) ==
    /\ responses_' = IF connected THEN Append(responses_, response) ELSE responses_
    /\ connected' = (connected /\ ~close)

context_reset_Keeps(r) == [r EXCEPT !.method = "kInvalid"]
context_reset(r) == NewRequest

\* assert(method_ == kInvalid) of setMethod, which a request line reaches; a
\* build with NDEBUG goes on where it fails, and overwrites the method.
setMethod_asserts(b) ==
    state_ = "kExpectRequestLine" /\ findCRLF(b) => request_.method = "kInvalid"

\* onMessage, when the bytes b are in the buffer.
onMessage_http(b) ==
    LET p == parseRequest(b, state_, request_)
    IN /\ inBuf' = p[2]
       /\ busy' = (p[3] = "kGotAll")
       /\ failed' = (failed \/ ~setMethod_asserts(b))
       /\ \/ /\ ~p[1] /\ sendsAndShuts("400", TRUE)
             /\ state_' = p[3] /\ request_' = p[4] /\ UNCHANGED called
          \/ /\ p[1] /\ p[3] # "kGotAll"
             /\ state_' = p[3] /\ request_' = p[4] /\ UNCHANGED <<called, responses_, connected>>
          \/ /\ p[3] = "kGotAll"
             /\ state_' = "kExpectRequestLine" /\ request_' = context_reset(p[4])
             /\ called' = Append(called, p[4])
             \* httpCallback_ may have the connection closed
             /\ \E close \in {Closes(p[4]), TRUE} :
                   sendsAndShuts(IF close THEN "close" ELSE "Keep-Alive", close)

receiveHalves == \E n \in 1 .. Len(coming) :
                    /\ coming' = SubSeq(coming, n + 1, Len(coming))
                    /\ onMessage_http(inBuf \o SubSeq(coming, 1, n))
                    /\ UNCHANGED written

\* The client sends a request line, or goes on with its request.
writeLine == /\ Len(written) < MaxLines /\ Len(coming) + 2 <= MaxHalves
             /\ \E line \in IF written = <<>> \/ Last(written) = "noColon" THEN RequestLines
                            ELSE Headers \cup {"noColon"} :
                   written' = Append(written, line) /\ coming' = coming \o <<<<line, 1>>, <<line, 2>>>>
             /\ UNCHANGED <<inBuf, state_, request_, connected, responses_, called, busy, failed>>

HttpNext == receiveHalves \/ writeLine
-----------------------------------------------------------------------------
\* The requests that the client has sent, up to the first malformed one:
\* each from a request line to the next line without a colon.
Malformed == {i \in DOMAIN written : written[i] \in {"noMethod", "badRest"}}
Ends == {i \in DOMAIN written : written[i] = "noColon" /\ \A j \in Malformed : i < j}
ConnectionIn(i, j) == LET vs == {k \in i .. j : written[k] \in {"close", "Keep-Alive"}}
                      IN IF vs = {} THEN "" ELSE written[CHOOSE k \in vs : \A l \in vs : l <= k]

\* httpCallback_ gets the requests in order, each with its own version and
\* the last of its own Connection headers, and nothing of the one before it.
RequestsIntact ==
    LET ends == SetToSortSeq(Ends, <)
    IN /\ Len(called) <= Len(ends)
       /\ \A n \in DOMAIN called :
             LET start == IF n = 1 THEN 1 ELSE ends[n - 1] + 1
             IN /\ called[n].version = IF written[start] = "http11" THEN "kHttp11" ELSE "kHttp10"
                /\ called[n].Connection = ConnectionIn(start, ends[n])

\* Every request is answered in turn until a response closes the connection:
\* it is the last one, and the connection is shut down exactly then.
ResponsesEnd ==
    /\ \A n \in DOMAIN responses_ : (n < Len(responses_) \/ connected) = (responses_[n] = "Keep-Alive")
    /\ connected => Len(responses_) = Len(called)

\* The assert of setMethod (HttpRequest.h:61) fails in one case only: a line
\* with a known method was malformed after it, the connection has been shut
\* down for it, and more bytes come, so that the line, which is still first in
\* the buffer, is parsed again.  Until such a line a context that waits for a
\* request line has no method yet.
MethodUnset ==
    LET malformed == /\ state_ = "kExpectRequestLine" /\ ~connected
                     /\ findCRLF(inBuf) /\ inBuf[1][1] = "badRest"
    IN /\ failed => malformed
       /\ state_ = "kExpectRequestLine" /\ request_.method # "kInvalid" => malformed

\* An onMessage that answers no request has parsed every whole line it has,
\* unless the first is malformed (HttpContext.cc:51-85).
ParsesWhatCame ==
    ~busy => \/ ~findCRLF(inBuf)
             \/ state_ = "kExpectRequestLine" /\ inBuf[1][1] \in {"noMethod", "badRest"}

\* Requests are answered as they were sent: parsed whole from any pieces,
\* none mixed with the one before, each answered in turn until the close.
RequestsAnswered == RequestsIntact /\ ResponsesEnd /\ MethodUnset /\ ParsesWhatCame
=============================================================================
