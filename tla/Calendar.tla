------------------------------ MODULE Calendar ------------------------------
(***************************************************************************)
(* The dates of a backtest.  The program stores a date as the number       *)
(* yyyymmdd and converts it to a gregorian day to walk the calendar; only  *)
(* the order of the days and the day of the week matter to the scheduler,  *)
(* so a date is here its day number, day 0 being a Sunday.                 *)
(***************************************************************************)
EXTENDS Integers

Sunday   == 0
Friday   == 5
Saturday == 6

DayOfWeek(d) == d % 7

\* The days the producer and the fetch thread do not skip.
IsWeekday(d) == DayOfWeek(d) # Sunday /\ DayOfWeek(d) # Saturday

\* Mutants of getNextWorkingDay: the weekend forgotten, and only the Saturday,
\* which is where an instance stands before a period that starts on a Sunday.
NextDayNoWeekend(d)     == d + 1
NextDayNoSaturday(d)    == IF DayOfWeek(d) = Friday THEN d + 3 ELSE d + 1

\* TestFixture::getNextWorkingDay.
getNextWorkingDay(d) ==
  CASE DayOfWeek(d) = Friday   -> d + 3
    [] DayOfWeek(d) = Saturday -> d + 2
    [] OTHER                   -> d + 1
=============================================================================
