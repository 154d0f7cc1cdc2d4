----------------------------- MODULE Inspector ------------------------------
(***************************************************************************)
(* muduo::net::Inspector: commands are added and removed by any thread and *)
(* run by the loop thread of the HTTP server, with mutex_ held during the  *)
(* callback.  A command is a pair of a module and a name; a path is a      *)
(* sequence of "/" and letters, and split cuts it into segments.           *)
(***************************************************************************)
EXTENDS Integers, Sequences

CONSTANTS Modules, Names,   \* of commands
          Favicon,          \* the segment favicon.ico
          Paths             \* paths requested

VARIABLES modules_, helps_, \* module -> names, for the modules that have an entry
          empty,            \* commands of modules_ with a null Callback
          started,          \* server_.start() has run in the loop
          lock,             \* "free", or "loop" while a callback runs
          request,          \* "idle", or the command whose callback runs
          path,             \* of the last request
          reply,            \* status of the last response
          removed           \* history: commands removed and not added again

inspectVars == <<modules_, helps_, empty, started, lock, request, path, reply, removed>>

\* The characters of a segment are those from one place to another.
segment(s, from, to) == IF to >= from THEN <<SubSeq(s, from, to)>> ELSE <<>>

splitFrom(s, start, pos) == segment(s, start, pos - 1)

\* split: the loop over the slashes, and what is left after the last one.
split(s) ==
    LET slash(from) == IF \E p \in from .. Len(s) : s[p] = "/"
                       THEN CHOOSE p \in from .. Len(s) : s[p] = "/" /\ \A q \in from .. p - 1 : s[q] # "/"
                       ELSE 0
        loop[start \in 1 .. Len(s) + 1] ==
            IF slash(start) = 0 THEN segment(s, start, Len(s))
            ELSE splitFrom(s, start, slash(start)) \o loop[slash(start) + 1]
    IN loop[1]

\* The entry of a module, made by operator[] when there is none.
Entry(map, m) == IF m \in DOMAIN map THEN map[m] ELSE {}
With(map, m, names) == [x \in DOMAIN map \cup {m} |-> IF x = m THEN names ELSE map[x]]

InspectInit == /\ modules_ = <<>> /\ helps_ = <<>> /\ empty = {} /\ started = FALSE /\ lock = "free"
               /\ request = "idle" /\ path = <<>> /\ reply = 0 /\ removed = {}

\* The constructor leaves it to the loop to start the server.
start == ~started /\ started' = TRUE /\ UNCHANGED <<modules_, helps_, empty, lock, request, path, reply, removed>>

\* add, with a Callback or a null one
add(m, c, null) == /\ lock = "free"
                   /\ modules_' = With(modules_, m, Entry(modules_, m) \cup {c})
                   /\ helps_' = With(helps_, m, Entry(helps_, m) \cup {c})
                   /\ empty' = IF null THEN empty \cup {<<m, c>>} ELSE empty \ {<<m, c>>}
                   /\ removed' = removed \ {<<m, c>>}
                   /\ UNCHANGED <<started, lock, request, path, reply>>

removesCommand(m, c, free) ==
    /\ free
    /\ IF m \in DOMAIN modules_
       THEN /\ modules_' = With(modules_, m, modules_[m] \ {c})
            /\ helps_' = With(helps_, m, Entry(helps_, m) \ {c})
            /\ empty' = empty \ {<<m, c>>}
       ELSE UNCHANGED <<modules_, helps_, empty>>
    /\ removed' = removed \cup {<<m, c>>}
    /\ UNCHANGED <<started, lock, request, path, reply>>
removeCommand_Unlocked(m, c) == removesCommand(m, c, TRUE)
removeCommand(m, c) == removesCommand(m, c, lock = "free")

\* onRequest: the list of all commands, a 404, or the callback of one.
answer(status) == reply' = status /\ UNCHANGED <<lock, request>>
onRequest(p) ==
    LET result == split(p)
        known == /\ Len(result) > 1 /\ result[2] \in Entry(modules_, result[1])
                 /\ <<result[1], result[2]>> \notin empty
    IN /\ started /\ request = "idle" /\ lock = "free" /\ path' = p
       /\ \/ p = <<"/">> /\ answer(200)
          \/ p # <<"/">> /\ ~known /\ answer(IF result = <<Favicon>> THEN 200 ELSE 404)
          \/ known /\ lock' = "loop" /\ request' = <<result[1], result[2]>> /\ UNCHANGED reply
       /\ UNCHANGED <<modules_, helps_, empty, started, removed>>

\* The callback returns the body of the response.
callbackReturns == /\ request # "idle" /\ request' = "idle" /\ lock' = "free" /\ reply' = 200
                   /\ UNCHANGED <<modules_, helps_, empty, started, path, removed>>

InspectNext == \/ start \/ callbackReturns
               \/ \E m \in Modules, c \in Names : removeCommand(m, c) \/ \E null \in BOOLEAN : add(m, c, null)
               \/ \E p \in Paths : onRequest(p)
InspectSpec == InspectInit /\ [][InspectNext]_inspectVars
-----------------------------------------------------------------------------
\* Once remove() has returned, the callback is not running and does not run
\* again, whatever the loop thread was doing: while a callback runs, the entry
\* that onRequest calls it through stays in modules_, and it is not null.
RemovedIsSilent ==
    request # "idle" => /\ request \notin removed /\ request \notin empty
                        /\ request[2] \in Entry(modules_, request[1])

(***************************************************************************)
(* split gives the longest runs of other characters between the slashes,   *)
(* in order, however the slashes stand (the code says "Looks buggy").      *)
(***************************************************************************)
SplitIsExact ==
    LET places == [j \in 1 .. Len(path) |-> j]
        begins == SelectSeq(places, LAMBDA i : path[i] # "/" /\ (i = 1 \/ path[i - 1] = "/"))
        stops == SelectSeq(places, LAMBDA i : path[i] # "/" /\ (i = Len(path) \/ path[i + 1] = "/"))
    IN split(path) = [k \in DOMAIN begins |-> SubSeq(path, begins[k], stops[k])]

\* The callback that runs is that of the first two segments of the path.
PathNamesCommand == request # "idle" => request = SubSeq(split(path), 1, 2)

\* A request runs the command its path names, and never one that was removed.
RequestsDispatched == RemovedIsSilent /\ PathNamesCommand /\ SplitIsExact
=============================================================================
