------------------------------- MODULE Calendar -------------------------------
(* The arithmetic of UpdateTimeString (Time.cpp:230-262): days since 1970 and  *)
(* seconds of a day as a date and a time of day; and the calendar itself.      *)
EXTENDS Integers

LastDay == 2932896      \* 9999-12-31
DaySeconds == 86400

\* Years are counted from March: a year whose day number is negative is one
\* too late, and the days from 306 on belong to January and February
MonthFrom(dayOfYear) == ((dayOfYear + 31) * 10) \div 306

Date(days) ==
    LET d == days - (31 + 28) + 719527
        guess == ((d + 2) * 400) \div (365 * 400 + 100 - 4 + 1)
        rest == d - (365 * guess + guess \div 4 - guess \div 100 + guess \div 400)
        leap == guess % 4 = 0 /\ (guess % 100 # 0 \/ guess % 400 = 0)
        dayOfYear == IF rest < 0 THEN 365 + (IF leap THEN 1 ELSE 0) + rest ELSE rest
        year == IF rest < 0 THEN guess - 1 ELSE guess
        month == MonthFrom(dayOfYear)
        late == dayOfYear >= 306
    IN [year |-> IF late THEN year + 1 ELSE year,
        month |-> IF late THEN month - 10 ELSE month + 2,
        day |-> dayOfYear - ((367 * month) \div 12 - 30) + 1,
        weekday |-> (4 + days) % 7]

TimeOfDay(second) ==
    [hour |-> second \div 3600, minute |-> (second % 3600) \div 60, second |-> (second % 3600) % 60]

\* After the last day of the year 9999 the clock of the texts stands still
Capped(moment) == IF moment.days > LastDay THEN [days |-> LastDay, second |-> DaySeconds - 1] ELSE moment

-------------------------------------------------------------------------------
\* The Gregorian calendar, written independently
IsLeap(y) == y % 4 = 0 /\ (y % 100 # 0 \/ y % 400 = 0)
DaysIn(y, m) == IF m = 2 THEN IF IsLeap(y) THEN 29 ELSE 28 ELSE IF m \in {4, 6, 9, 11} THEN 30 ELSE 31
DaysBeforeYear(y) == LET z == y - 1 IN 365 * z + z \div 4 - z \div 100 + z \div 400
DaysBeforeMonth(y, m) ==
    LET past[k \in 1..12] == IF k = 1 THEN 0 ELSE past[k - 1] + DaysIn(y, k - 1) IN past[m]

\* date is the day that is days days after 1970-01-01, a Thursday
IsDateOf(date, days) ==
    /\ date.month \in 1..12
    /\ date.day \in 1..DaysIn(date.year, date.month)
    /\ days = DaysBeforeYear(date.year) - DaysBeforeYear(1970)
              + DaysBeforeMonth(date.year, date.month) + date.day - 1
    /\ date.weekday = (days + 4) % 7
===============================================================================
