----------------------------- MODULE RpcChannel -----------------------------
(***************************************************************************)
(* muduo::net::RpcChannel at both ends of a connection: threads of the     *)
(* client call methods and get their closure run when the response comes;  *)
(* the channel that RpcServer makes for a connection finds the service,    *)
(* which answers when and in whichever order it likes.  The codec carries  *)
(* whole messages in order.                                                *)
(***************************************************************************)
EXTENDS Integers, Sequences

CONSTANTS Callers,      \* threads of the client
          MaxId         \* bound: calls made

ASSUME RpcAssumption == MaxId \in Nat

Outcomes == {"NO_ERROR", "NO_SERVICE", "NO_METHOD", "INVALID_REQUEST"}
Ids == 1 .. MaxId

VARIABLES
    id_, outstandings_,
    calling,        \* each thread's place in CallMethod, and its id
    requests, responses,    \* in the two directions of the connection
    serving,        \* ids whose closure doneCallback a service holds
    channel,        \* the server's channel: "alive", or "destroyed"
    client,         \* the client's channel: "alive", or "destroyed"
    ran,            \* history: ids whose closure was run
    lateDone        \* history: a service ran doneCallback of a destroyed channel

rpcVars == <<id_, outstandings_, calling, requests, responses, serving, channel, client,
             ran, lateDone>>

RpcInit == /\ id_ = 0 /\ outstandings_ = {} /\ calling = [t \in Callers |-> <<"idle", 0>>]
           /\ requests = <<>> /\ responses = <<>> /\ serving = {}
           /\ channel = "alive" /\ client = "alive" /\ ran = {} /\ lateDone = FALSE

AtStep(t, pc) == calling[t][1] = pc
Goes(t, pc) == calling' = [calling EXCEPT ![t][1] = pc]
sends(m) == requests' = IF channel = "alive" THEN Append(requests, m) ELSE requests
replies(id) == responses' = IF channel = "alive" THEN Append(responses, id) ELSE responses
-----------------------------------------------------------------------------
CallMethod(t) == /\ AtStep(t, "idle") /\ client = "alive" /\ id_ < MaxId
                 /\ id_' = id_ + 1
                 /\ calling' = [calling EXCEPT ![t] = <<"id", id_ + 1>>]
                 /\ UNCHANGED <<outstandings_, requests, responses, serving, channel, client,
                                ran, lateDone>>

registers(t, from, to) == /\ AtStep(t, from) /\ Goes(t, to)
                          /\ outstandings_' = outstandings_ \cup {calling[t][2]}
                          /\ UNCHANGED <<requests>>
codec_send(t, from, to) == /\ AtStep(t, from) /\ Goes(t, to)
                           /\ \E o \in Outcomes : sends(<<calling[t][2], o>>)
                           /\ UNCHANGED outstandings_

\* CallMethod registers the call, and then sends it.
proceeds(t) == \/ registers(t, "id", "registered") \/ codec_send(t, "registered", "idle")

CallMethod_rest(t) == /\ proceeds(t)
                      /\ UNCHANGED <<id_, responses, serving, channel, client, ran, lateDone>>

\* The response of a call that is not outstanding is ignored.
onRpcMessage_RESPONSE ==
    /\ responses # <<>> /\ client = "alive"
    /\ responses' = Tail(responses)
    /\ outstandings_' = outstandings_ \ {Head(responses)}
    /\ ran' = ran \cup ({Head(responses)} \cap outstandings_)
    /\ UNCHANGED <<id_, calling, requests, serving, channel, client, lateDone>>

\* A request that no service takes is answered with the error at once.
onRpcMessage_Silent(id, error) ==
    /\ serving' = IF error = "NO_ERROR" THEN serving \cup {id} ELSE serving
    /\ UNCHANGED responses
answers(id, error) ==
    IF error = "NO_ERROR" THEN serving' = serving \cup {id} /\ UNCHANGED responses
                          ELSE replies(id) /\ UNCHANGED serving

onRpcMessage_REQUEST ==
    /\ requests # <<>> /\ channel = "alive"
    /\ requests' = Tail(requests)
    /\ answers(Head(requests)[1], Head(requests)[2])
    /\ UNCHANGED <<id_, outstandings_, calling, channel, client, ran, lateDone>>

doneCallback(id) ==
    /\ id \in serving /\ serving' = serving \ {id}
    /\ replies(id)
    /\ lateDone' = (lateDone \/ channel = "destroyed")
    /\ UNCHANGED <<id_, outstandings_, calling, requests, channel, client, ran>>

\* The connection goes down, and RpcServer::onConnection drops its channel.
onConnection_down == /\ channel = "alive" /\ channel' = "destroyed"
                     /\ requests' = <<>> /\ responses' = <<>>
                     /\ UNCHANGED <<id_, outstandings_, calling, serving, client, ran, lateDone>>

\* ~RpcChannel of the client deletes the outstanding closures.
destroy == /\ client = "alive" /\ client' = "destroyed"
           /\ \A t \in Callers : AtStep(t, "idle")
           /\ outstandings_' = {}
           /\ UNCHANGED <<id_, calling, requests, responses, serving, channel, ran, lateDone>>

RpcNext == \/ onRpcMessage_RESPONSE \/ onRpcMessage_REQUEST \/ onConnection_down \/ destroy
           \/ \E t \in Callers : CallMethod(t) \/ CallMethod_rest(t)
           \/ \E id \in Ids : doneCallback(id)

RpcSpec == RpcInit /\ [][RpcNext]_rpcVars
-----------------------------------------------------------------------------
(***************************************************************************)
(* A response on its way finds its call outstanding, and there is one      *)
(* response for a call, whatever the order of threads and answers: the map *)
(* is written before the request is sent (RpcChannel.cc:64-69, 95-100).    *)
(***************************************************************************)
ResponseFindsCall ==
    client = "alive" =>
        \A i \in DOMAIN responses :
            /\ responses[i] \in outstandings_
            /\ \A j \in DOMAIN responses : responses[i] = responses[j] => i = j

(***************************************************************************)
(* While the connection is up no call is forgotten: an outstanding call is *)
(* about to be sent, a request, in the hands of a service, or a response,  *)
(* one of these; a call whose closure was run is none of them.             *)
(***************************************************************************)
CallsAccounted ==
    channel = "alive" /\ client = "alive" => \A id \in 1 .. id_ :
        LET places == {p \in {"caller", "request", "service", "response"} :
                \/ p = "caller" /\ \E t \in Callers : ~AtStep(t, "idle") /\ calling[t][2] = id
                \/ p = "request" /\ \E i \in DOMAIN requests : requests[i][1] = id
                \/ p = "service" /\ id \in serving
                \/ p = "response" /\ \E i \in DOMAIN responses : responses[i] = id}
        IN IF id \in ran THEN places = {} ELSE \E p \in places : places = {p}

\* Every call is in one place until its closure runs, and its one response
\* finds it there.
OneResponsePerCall == ResponseFindsCall /\ CallsAccounted
=============================================================================
