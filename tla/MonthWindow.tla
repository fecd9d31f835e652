----------------------------- MODULE MonthWindow -----------------------------
(***************************************************************************)
(* The windows of time every cost is computed from: defaultStartEnd, the   *)
(* hours that are left of the month, and the multiplier that extrapolates  *)
(* requests, as time goes by and the year turns.                           *)
(*                                                                         *)
(* A time is a number of hours since the beginning of the first year in    *)
(* UTC.  The process runs in a zone of its own: time.Now().Month() is the  *)
(* zone's month, while time.Date(..., time.UTC) makes a time of UTC.       *)
(***************************************************************************)
EXTENDS Integers, Functions

CONSTANTS
  Zones,     \* offsets from UTC in hours
  LeapYears, \* the years with a February 29, of years counted from 0
  FirstHour, \* when the clock starts: from the second month on, and
  LastHour   \* when it stops

VARIABLES
  now,   \* hours, UTC
  zone   \* the offset of time.Local

vars == <<now, zone>>

-----------------------------------------------------------------------------
(* The calendar                                                            *)

DaysIn(year, month) ==
  IF month = 2 THEN IF year \in LeapYears THEN 29 ELSE 28
  ELSE IF month \in {4, 6, 9, 11} THEN 30 ELSE 31

\* time.Date normalises a month above 12.
YearOf(year, month) == year + (month - 1) \div 12
MonthOf(month) == ((month - 1) % 12) + 1

\* The days before the first of a month, months counted from year 0.
daysBefore(n) ==
  SumFunction([m \in 0..n - 1 |-> DaysIn(m \div 12, (m % 12) + 1)])

\* time.Date(year, month, day, 0, 0, 0, 0, time.UTC): day 0 is the last day
\* of the month before.
Date(year, month, day) ==
  24 * (daysBefore(12 * YearOf(year, month) + MonthOf(month) - 1) + day - 1)

\* The number of months since the beginning that a time is in.
MonthsAt(hour) ==
  CHOOSE n \in 0..(hour \div (24 * 28)) :
    /\ 24 * daysBefore(n) <= hour
    /\ hour < 24 * daysBefore(n + 1)

Year(hour) == MonthsAt(hour) \div 12
Month(hour) == (MonthsAt(hour) % 12) + 1

\* time.Now().Year() and time.Now().Month().
LocalYear == Year(now + zone)
LocalMonth == Month(now + zone)

-----------------------------------------------------------------------------
(* The windows                                                             *)

\* Bug: the window starts with the first day of the month.
StartOnFirst == Date(LocalYear, LocalMonth, 1)

\* defaultStartEnd
Start == Date(LocalYear, LocalMonth, 0)
End == now

\* Bug: December's month after is of the same year.
EndOfMonthSameYear == Date(LocalYear, ((LocalMonth % 12) + 1), 0)

endOfMonth == Date(LocalYear, LocalMonth + 1, 0)

durationPassed == End - Start
durationRemaining == endOfMonth - now

-----------------------------------------------------------------------------
(* Time goes by                                                            *)

Init ==
  /\ now = FirstHour
  /\ zone \in Zones

Tick ==
  /\ now < LastHour
  /\ now' = now + 1
  /\ UNCHANGED zone

Next == Tick

Spec == Init /\ [][Next]_vars

-----------------------------------------------------------------------------
(* Properties                                                              *)

\* The window is never empty, in any zone, so that Prometheus is never asked
\* for a range of zero and no multiplier divides by zero; and it spans the
\* zone's month up to now, starting not more than a day and the zone's
\* offset before the month does.
WindowCoversMonth ==
  LET firstOfMonth == 24 * daysBefore(MonthsAt(now + zone)) - zone
  IN /\ durationPassed > 0
     /\ Start <= firstOfMonth
     /\ firstOfMonth - Start <= 24 + 12

\* multiplier = (nextMonth - start) / (end - start) shrinks what has been
\* counted only within a day and a half (a day, and the zone's offset) of
\* the month's end; before, an extrapolation is never below its month.
ShrinksAtMonthsEndOnly ==
  durationRemaining < 0 => Month(now + zone + 24 + 12) # LocalMonth
=============================================================================
