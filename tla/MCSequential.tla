---------------------------- MODULE MCSequential ----------------------------
(***************************************************************************)
(* The parts of the library with no thread of their own, one at a time: a  *)
(* behaviour uses one of the two pollers, a Buffer, a codec, an RPC        *)
(* channel, an HTTP connection, the Inspector, a compressed stream, a file *)
(* read, a log line, a log file or a calendar, and nothing else moves.     *)
(***************************************************************************)
EXTENDS PollPoller, Endian, ProtobufCodecLite, RpcChannel, HttpServer,
        Inspector, ZlibStream, FileUtil, LogFile, Logging, LogStream, TimeZone

VARIABLES
    eStage, eFd, eEvents, eIndex, eActive, eToHandle, eCurrent, eChannels, epoll,
    which           \* the one that moves

\* EPollPoller with channels of its own.
E == INSTANCE EPollPoller WITH
        stage <- eStage, fd <- eFd, events_ <- eEvents, index_ <- eIndex,
        activeChannels_ <- eActive, toHandle <- eToHandle,
        currentActiveChannel_ <- eCurrent, channels_ <- eChannels

epollVars == <<eStage, eFd, eEvents, eIndex, eActive, eToHandle, eCurrent, eChannels, epoll>>
pollerVars == <<vars, epollVars>>
netVars == <<bufferVars, codecVars, rpcVars, httpVars, inspectVars, zlibVars>>
loggingVars == <<readVars, fileVars, logVars, streamVars>>
timeVars == <<dateVars, zoneVars>>
allVars == <<pollerVars, netVars, loggingVars, timeVars, which>>

MCPayloads == {<<>>, <<1>>, <<2>>, <<3>>, <<1, 2, 3>>}
MCUnparsable == {<<2>>}
MCRawOnly == {<<3>>}

\* Numbers at the edges of their widths and digits, and counts at the
\* thresholds of formatSI and formatIEC.
MCIntegers == {-128, -100, -9, 0, 9, 10, 16, 127, 255}
MCNumbers == [x : {1, 9, 10, 99, 999, 1000, 1001, 1023, 1024, 9994, 9995, 10234, 10235, 99949, 99950,
                   102348, 102349, 999499, 999500, 1048063, 1048064, 1500000},
              j : 0 .. 4, less : {FALSE}]
             \cup [x : {9995, 99950, 999500, 1048064}, j : 1 .. 4, less : {TRUE}]
MCModules == {<<"a">>}
MCNames == {<<"a">>, <<"a", "a">>}
MCFavicon == <<"a", "a", "a">>
MCPaths == UNION {[1 .. n -> {"/", "a"}] : n \in 1 .. 5}
\* The turns of centuries with and without a leap day.
MCFirstDays == {<<1899, 2414656>>, <<1999, 2451180>>, <<2099, 2487705>>, <<2399, 2597277>>}
MCOffsets == <<0, 1, -1, 2>>

AllInit == /\ which \in {"poll", "epoll", "buffer", "codec", "rpc", "http", "inspect", "zlib", "read",
                         "file", "log", "stream", "date", "zone"}
           /\ Init /\ E!Init /\ BufferInit /\ CodecInit /\ RpcInit /\ HttpInit
           /\ InspectInit /\ ZlibInit /\ LogInit /\ StreamInit
           /\ ReadInit /\ (which # "read" => disk = 0 /\ fd_ = "open" /\ maxSize = 0)
           /\ FileInit /\ (which # "file" => now = 1)
           /\ DateInit /\ (which # "date" => today[1] = 1999)
           /\ ZoneInit /\ (which # "zone" => file = Whole)

PollerNext == \/ which = "poll" /\ Next /\ UNCHANGED epollVars
              \/ which = "epoll" /\ E!Next /\ UNCHANGED vars

NetNext == \/ which = "buffer" /\ EndianNext /\ UNCHANGED <<codecVars, rpcVars, httpVars, inspectVars, zlibVars>>
           \/ which = "codec" /\ CodecNext /\ UNCHANGED <<bufferVars, rpcVars, httpVars, inspectVars, zlibVars>>
           \/ which = "rpc" /\ RpcNext /\ UNCHANGED <<bufferVars, codecVars, httpVars, inspectVars, zlibVars>>
           \/ which = "http" /\ HttpNext /\ UNCHANGED <<bufferVars, codecVars, rpcVars, inspectVars, zlibVars>>
           \/ which = "inspect" /\ InspectNext /\ UNCHANGED <<bufferVars, codecVars, rpcVars, httpVars, zlibVars>>
           \/ which = "zlib" /\ ZlibNext /\ UNCHANGED <<bufferVars, codecVars, rpcVars, httpVars, inspectVars>>

LoggingNext == \/ which = "read" /\ ReadNext /\ UNCHANGED <<fileVars, logVars, streamVars>>
               \/ which = "file" /\ FileNext /\ UNCHANGED <<readVars, logVars, streamVars>>
               \/ which = "log" /\ LogNext /\ UNCHANGED <<readVars, fileVars, streamVars>>
               \/ which = "stream" /\ StreamNext /\ UNCHANGED <<readVars, fileVars, logVars>>

TimeNext == \/ which = "date" /\ nextDay /\ UNCHANGED zoneVars
            \/ which = "zone" /\ ZoneNext /\ UNCHANGED dateVars

AllNext == /\ UNCHANGED which
           /\ \/ PollerNext /\ UNCHANGED <<netVars, loggingVars, timeVars>>
              \/ NetNext /\ UNCHANGED <<pollerVars, loggingVars, timeVars>>
              \/ LoggingNext /\ UNCHANGED <<pollerVars, netVars, timeVars>>
              \/ TimeNext /\ UNCHANGED <<pollerVars, netVars, loggingVars>>

AllSpec == AllInit /\ [][AllNext]_allVars

Symmetry == Permutations(Channels)
-----------------------------------------------------------------------------
\* EPollPoller.EpollAgrees: the kernel's list, the marks and the channels
\* agree, and no epoll_ctl call fails.
EpollAgrees == E!EpollAgrees
=============================================================================
