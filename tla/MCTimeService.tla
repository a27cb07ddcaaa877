----------------------------- MODULE MCTimeService -----------------------------
(* The time service for TLC: a clock that starts two seconds before midnight   *)
(* of days around which the calendar is irregular.                             *)
EXTENDS TimeService

Midnight(days) == [days |-> days, second |-> DaySeconds - 2]

\* 2100-02-28, which no leap day follows, and 9999-12-31
MCOrigins == {Midnight(47540), Midnight(LastDay)}

\* A year of every kind, and the days around the turn of each of its months:
\* the run is over the seconds above, this over the dates
ASSUME DatesAreCalendar ==
    \A y \in {1970, 1999, 2000, 2004, 2100, 2399, 2400, 9999} : \A k \in 0..365 :
        LET days == DaysBeforeYear(y) - DaysBeforeYear(1970) + k
        IN days <= LastDay => IsDateOf(Date(days), days)
===============================================================================
