------------------------------ MODULE Logging ------------------------------
(***************************************************************************)
(* The time stamp of a log line: Logger::Impl::formatTime keeps the text   *)
(* of the last second it formatted, t_time, per thread, and appends the    *)
(* microseconds and, without a time zone, a "Z".  Another thread may set   *)
(* g_logTimeZone at any time.                                              *)
(***************************************************************************)
EXTENDS Integers

CONSTANTS LogThreads, MaxSecond \* bound: the clock

ASSUME LogAssumption == MaxSecond \in Nat

VARIABLES second,           \* the clock
          g_logTimeZone,    \* "invalid" or the name of a zone
          t_lastSecond, t_time,
          stamping,         \* the second of the line whose text is formatted, or 0
          line,             \* the last line of each thread: its second, text and suffix
          zoneSet           \* history: the second g_logTimeZone was last set in

logVars == <<second, g_logTimeZone, t_lastSecond, t_time, stamping, line, zoneSet>>
NoLine == [at |-> 0, text |-> <<0, "invalid">>, suffix |-> "invalid", zoneSet |-> 0]

LogInit == /\ second = 1 /\ g_logTimeZone = "invalid" /\ zoneSet = 0
           /\ t_lastSecond = [t \in LogThreads |-> 0]
           /\ t_time = [t \in LogThreads |-> <<0, "invalid">>]
           /\ stamping = [t \in LogThreads |-> 0]
           /\ line = [t \in LogThreads |-> NoLine]

\* The text of the second, from the cache or fresh, ...
formats(t, fresh) ==
    /\ stamping[t] = 0 /\ stamping' = [stamping EXCEPT ![t] = second]
    /\ t_time' = [t_time EXCEPT ![t] = IF fresh THEN <<second, g_logTimeZone>> ELSE @]
    /\ t_lastSecond' = [t_lastSecond EXCEPT ![t] = second]
    /\ UNCHANGED <<second, g_logTimeZone, line, zoneSet>>

formatTime_Once(t) == formats(t, t_lastSecond[t] = 0)
formatTime(t) == formats(t, second # t_lastSecond[t])

\* ... and the suffix, for which g_logTimeZone is read once more.
formatSuffix(t) ==
    /\ stamping[t] # 0 /\ stamping' = [stamping EXCEPT ![t] = 0]
    /\ line' = [line EXCEPT ![t] = [at |-> stamping[t], text |-> t_time[t],
                                    suffix |-> g_logTimeZone, zoneSet |-> zoneSet]]
    /\ UNCHANGED <<second, g_logTimeZone, t_lastSecond, t_time, zoneSet>>

setTimeZone == \E z \in {"invalid", "zone"} :
                  /\ g_logTimeZone' = z /\ zoneSet' = second
                  /\ UNCHANGED <<second, t_lastSecond, t_time, stamping, line>>

clock == second < MaxSecond /\ second' = second + 1
         /\ UNCHANGED <<g_logTimeZone, t_lastSecond, t_time, stamping, line, zoneSet>>

LogNext == setTimeZone \/ clock \/ \E t \in LogThreads : formatTime(t) \/ formatSuffix(t)
LogSpec == LogInit /\ [][LogNext]_logVars
-----------------------------------------------------------------------------
\* The cached text is that of the line's own second, and in the zone that
\* the suffix implies unless the zone was set within this very second or
\* while the line was being made.
StampIsCurrent == \A t \in LogThreads : LET l == line[t] IN
    /\ l.text[1] = l.at
    /\ l.zoneSet < l.at => l.text[2] = l.suffix
=============================================================================
