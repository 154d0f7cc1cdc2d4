------------------------------ MODULE Acceptor ------------------------------
(***************************************************************************)
(* muduo::net::Acceptor: the listening socket and the descriptor it keeps  *)
(* in reserve.  When accept fails for want of descriptors, handleRead      *)
(* gives up the reserve, accepts and closes the waiting connection and     *)
(* takes the reserve back: four system calls with other threads between    *)
(* them.  The action that accepts hands the connection to                  *)
(* newConnectionCallback_, which TcpServer.tla conjoins.                   *)
(***************************************************************************)
EXTENDS Integers

CONSTANTS MaxClients,   \* bound: clients that ever connect
          MaxFree       \* bound: descriptors left for connections

VARIABLES
    listening_,
    idleFd_,        \* whether the reserve is an open descriptor
    accepting,      \* where handleRead is, "no" outside it
    free,           \* descriptors the process may still open
    backlog,        \* clients waiting in the listen queue
    clients,        \* history: clients that have connected
    stolen          \* history: another thread opened a descriptor amid handleRead

acceptorVars == <<listening_, idleFd_, accepting, free, backlog, clients, stolen>>

AcceptorInit == /\ listening_ = FALSE /\ idleFd_ = TRUE /\ accepting = "no"
                /\ free = MaxFree /\ backlog = 0 /\ clients = 0 /\ stolen = FALSE

listen == listening_' = TRUE
          /\ UNCHANGED <<idleFd_, accepting, free, backlog, clients, stolen>>

\* An accept that fails with EMFILE is only logged.
handleRead_emfile_Ignored == /\ accepting = "accept" /\ free = 0 /\ accepting' = "no"
                             /\ UNCHANGED <<listening_, idleFd_, free, backlog, clients, stolen>>

\* accept succeeds ...
handleRead_accept == /\ accepting = "accept" /\ free > 0
                     /\ backlog' = backlog - 1 /\ free' = free - 1 /\ accepting' = "no"
                     /\ UNCHANGED <<listening_, idleFd_, clients, stolen>>

\* ... or fails with EMFILE, and the reserve is closed,
handleRead_emfile == /\ accepting = "accept" /\ free = 0 /\ accepting' = "again"
                     /\ free' = IF idleFd_ THEN free + 1 ELSE free
                     /\ idleFd_' = FALSE
                     /\ UNCHANGED <<listening_, backlog, clients, stolen>>

\* the connection is accepted into its place,
handleRead_again == /\ accepting = "again" /\ accepting' = "drop"
                    /\ IF free > 0 THEN idleFd_' = TRUE /\ free' = free - 1 /\ backlog' = backlog - 1
                                   ELSE UNCHANGED <<idleFd_, free, backlog>>
                    /\ UNCHANGED <<listening_, clients, stolen>>

\* closed,
handleRead_drop == /\ accepting = "drop" /\ accepting' = "reopen"
                   /\ free' = IF idleFd_ THEN free + 1 ELSE free
                   /\ idleFd_' = FALSE
                   /\ UNCHANGED <<listening_, backlog, clients, stolen>>

\* and the reserve is opened again.
handleRead_reopen == /\ accepting = "reopen" /\ accepting' = "no"
                     /\ idleFd_' = (free > 0) /\ free' = IF free > 0 THEN free - 1 ELSE free
                     /\ UNCHANGED <<listening_, backlog, clients, stolen>>

handleRead == handleRead_emfile \/ handleRead_again \/ handleRead_drop \/ handleRead_reopen

\* A client connects; another part of the process opens or closes a file.
connects == /\ clients < MaxClients /\ clients' = clients + 1 /\ backlog' = backlog + 1
            /\ UNCHANGED <<listening_, idleFd_, accepting, free, stolen>>

opens == /\ free > 0 /\ free' = free - 1
         /\ stolen' = (stolen \/ accepting # "no")
         /\ UNCHANGED <<listening_, idleFd_, accepting, backlog, clients>>
-----------------------------------------------------------------------------
\* Between two calls of handleRead the reserve is open, however often the
\* process has run out of descriptors, unless another thread took a
\* descriptor while the reserve was given up.
ReserveKept == accepting = "no" /\ ~stolen => idleFd_
=============================================================================
