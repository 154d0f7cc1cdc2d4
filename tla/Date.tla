-------------------------------- MODULE Date --------------------------------
(***************************************************************************)
(* muduo::Date: a Gregorian date as a Julian day number.  The model counts *)
(* the days of a calendar, from the year FirstYear on, and compares.       *)
(***************************************************************************)
EXTENDS Integers

CONSTANTS FirstDays,        \* January 1st of some years: year and day number
          MaxDays           \* bound: days counted from each

VARIABLES julianDayNumber_,
          today             \* the date: year, month, day

dateVars == <<julianDayNumber_, today>>

getJulianDayNumber(ymd) ==
    LET a == (14 - ymd[2]) \div 12
        y == ymd[1] + 4800 - a
        m == ymd[2] + 12 * a - 3
    IN ymd[3] + (153 * m + 2) \div 5 + y * 365 + y \div 4 - y \div 100 + y \div 400 - 32045

getYearMonthDay(julianDayNumber) ==
    LET a == julianDayNumber + 32044
        b == (4 * a + 3) \div 146097
        c == a - (b * 146097) \div 4
        d == (4 * c + 3) \div 1461
        e == c - (1461 * d) \div 4
        m == (5 * e + 2) \div 153
    IN <<b * 100 + d - 4800 + m \div 10, m + 3 - 12 * (m \div 10), e - (153 * m + 2) \div 5 + 1>>

\* The calendar.
DaysIn(y, m) == IF m \in {4, 6, 9, 11} THEN 30
                ELSE IF m # 2 THEN 31
                ELSE IF y % 4 = 0 /\ (y % 100 # 0 \/ y % 400 = 0) THEN 29 ELSE 28

DateInit == \E f \in FirstDays : julianDayNumber_ = f[2] /\ today = <<f[1], 1, 1>>

nextDay == /\ \E f \in FirstDays : julianDayNumber_ \in f[2] .. f[2] + MaxDays - 1
           /\ julianDayNumber_' = julianDayNumber_ + 1
           /\ today' = IF today[3] < DaysIn(today[1], today[2])
                       THEN [today EXCEPT ![3] = @ + 1]
                       ELSE IF today[2] < 12 THEN <<today[1], today[2] + 1, 1>>
                       ELSE <<today[1] + 1, 1, 1>>
-----------------------------------------------------------------------------
\* Both conversions agree with the calendar on every day, leap days and
\* centuries included.
DatesAgree == /\ getJulianDayNumber(today) = julianDayNumber_
              /\ getYearMonthDay(julianDayNumber_) = today
=============================================================================
