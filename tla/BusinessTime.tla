----------------------------- MODULE BusinessTime -----------------------------
(***************************************************************************)
(* @haizel/lib-business-time: adding business days to a date and counting  *)
(* those between two dates, on the calendar of US federal holidays.  Both  *)
(* functions walk day by day; an action below is a turn of such a loop.    *)
(* The caller here counts back from the date it was given.                 *)
(*                                                                         *)
(* A date is the number of its day since 1970-01-01 in the time zone of    *)
(* the call; the time of day, which addBusinessDays keeps, is left out.    *)
(* Calls that throw at once, on a date, an amount or a calendar that is    *)
(* not one, are left out too.                                              *)
(***************************************************************************)
EXTENDS Integers, FiniteSets

CONSTANTS
  DateCalls,  \* the calls: add `by` business days, or count up to date + by
  Years,      \* the years around those dates
  additionalHolidays

DateCall == [op : {"add", "between"}, date : Nat, by : Int]

ASSUME BusinessTimeAssumption ==
  /\ DateCalls \subseteq DateCall
  /\ Years \subseteq Int
  /\ additionalHolidays \subseteq Nat

VARIABLES
  dateCall,
  doing,   \* the loop that runs: "add", "between", or "done"
  cursor,  \* the day it has reached
  count,   \* remaining, or days
  end      \* the last day of businessDaysBetween

dateVars == <<dateCall, doing, cursor, count, end>>

-----------------------------------------------------------------------------
(* Dates, as luxon has them *)

\* The day of a date of the Gregorian calendar.
DayOf(year, month, day) ==
  LET y == IF month <= 2 THEN year - 1 ELSE year
      dayOfYear == (153 * ((month + 9) % 12) + 2) \div 5 + day - 1
  IN  365 * y + (y \div 4) - (y \div 100) + (y \div 400) + dayOfYear - 719468

Weekday(d) == ((d + 3) % 7) + 1

YearOf(d) == CHOOSE y \in Years : DayOf(y, 1, 1) <= d /\ d < DayOf(y + 1, 1, 1)

-----------------------------------------------------------------------------
(* The calendar *)

applyWeekendObservation(d) ==
  CASE Weekday(d) = 6 -> d - 1 [] Weekday(d) = 7 -> d + 1 [] OTHER -> d

nthWeekdayOfMonth(year, month, weekday, nth) ==
  LET first == DayOf(year, month, 1)
  IN  (CHOOSE d \in first..(first + 6) : Weekday(d) = weekday) + 7 * (nth - 1)

lastWeekdayOfMonth(year, month, weekday) ==
  LET next == DayOf(year, month + 1, 1)
  IN  CHOOSE d \in (next - 7)..(next - 1) : Weekday(d) = weekday

computeUsFederalHolidays(year) ==
  {applyWeekendObservation(DayOf(year, date[1], date[2])) :
     date \in {<<1, 1>>, <<6, 19>>, <<7, 4>>, <<11, 11>>, <<12, 25>>}}
  \cup {nthWeekdayOfMonth(year, rule[1], rule[2], rule[3]) :
          rule \in {<<1, 1, 3>>, <<2, 1, 3>>, <<9, 1, 1>>, <<10, 1, 2>>, <<11, 4, 4>>}}
  \cup {lastWeekdayOfMonth(year, 5, 1)}

\* calendarCache: the holidays of a year, computed once.
getHolidaySet == [year \in Years |-> computeUsFederalHolidays(year)]

\* Mutant: only the holidays of the date's own year are looked at.
isHolidayMutant(d) == d \in getHolidaySet[YearOf(d)]

isHoliday(d) ==
  \E year \in {YearOf(d) - 1, YearOf(d), YearOf(d) + 1} : d \in getHolidaySet[year]

isBusinessDay(d) ==
  Weekday(d) \notin {6, 7} /\ d \notin additionalHolidays /\ ~isHoliday(d)

-----------------------------------------------------------------------------
(* The calls *)

Abs(n) == IF n < 0 THEN -n ELSE n

Sign(n) == IF n > 0 THEN 1 ELSE -1

CallInit(calls) ==
  /\ dateCall \in calls
  /\ doing = dateCall.op
  /\ cursor = dateCall.date
  /\ count = IF dateCall.op = "between" THEN 0 ELSE Abs(dateCall.by)
  /\ end = dateCall.date + IF dateCall.op = "between" THEN dateCall.by ELSE 0

\* A turn of the loop of addBusinessDays.  A count of zero has none: the date
\* comes back as it is, even when it is a holiday.
addBusinessDays ==
  /\ doing = "add" /\ count > 0
  /\ cursor' = cursor + Sign(dateCall.by)
  /\ count' = count - IF isBusinessDay(cursor') THEN 1 ELSE 0
  /\ UNCHANGED <<dateCall, doing, end>>

\* The caller counts the days between the date and the result.
CountBack ==
  /\ doing = "add" /\ count = 0
  /\ doing' = "between" /\ end' = cursor /\ cursor' = dateCall.date
  /\ UNCHANGED <<dateCall, count>>

\* A turn of the loop of businessDaysBetween, which leaves out its first day
\* and counts its last one, downwards when it walks back.
businessDaysBetween ==
  LET direction == IF dateCall.date <= end THEN 1 ELSE -1
  IN  /\ doing = "between" /\ cursor # end
      /\ cursor' = cursor + direction
      /\ count' = count + IF isBusinessDay(cursor') THEN direction ELSE 0
      /\ UNCHANGED <<dateCall, doing, end>>

ReturnDays ==
  /\ doing = "between" /\ cursor = end
  /\ doing' = "done"
  /\ UNCHANGED <<dateCall, cursor, count, end>>

DateNext == addBusinessDays \/ CountBack \/ businessDaysBetween \/ ReturnDays

-----------------------------------------------------------------------------
(* What the calls promise, with the calendar in words of its own *)

\* d is one of those days of that month.
On(d, month, days) == \E day \in days : d = DayOf(YearOf(d), month, day)

FixedHoliday(d) ==
  \/ On(d, 1, {1}) \/ On(d, 6, {19}) \/ On(d, 7, {4}) \/ On(d, 11, {11}) \/ On(d, 12, {25})

\* Holidays of a fixed date are kept on the Friday before or the Monday after
\* when they fall on a weekend; the others belong to a week of a month.
Observed(d) ==
  \/ FixedHoliday(d)
  \/ Weekday(d) = 5 /\ FixedHoliday(d + 1)
  \/ Weekday(d) = 1 /\ FixedHoliday(d - 1)
  \/ Weekday(d) = 1 /\ \/ On(d, 1, 15..21) \/ On(d, 2, 15..21) \/ On(d, 5, 25..31)
                       \/ On(d, 9, 1..7) \/ On(d, 10, 8..14)
  \/ Weekday(d) = 4 /\ On(d, 11, 22..28)

Working(d) == Weekday(d) \in 1..5 /\ ~Observed(d) /\ d \notin additionalHolidays

WorkingDays(from, to) == Cardinality({d \in from..to : Working(d)})

\* Adding n business days ends n working days away from the date, forwards or
\* backwards, over weekends, holidays that are kept in another year and days
\* added to the calendar, and on a working day unless n is zero.  The days between
\* two dates are the working days after the first, up to and with the second, or
\* minus those passed on the way back; so counting back from the result gives n.
DaysAreWorkingDays ==
  LET n == dateCall.by
  IN  /\ dateCall.op = "add" /\ doing = "between" =>
           /\ n >= 0 => end >= dateCall.date /\ WorkingDays(dateCall.date + 1, end) = n
           /\ n < 0 => end < dateCall.date /\ WorkingDays(end, dateCall.date - 1) = -n
           /\ n # 0 => Working(end)
      /\ doing = "done" =>
           /\ count = IF dateCall.date <= end THEN WorkingDays(dateCall.date + 1, end)
                      ELSE -WorkingDays(end, dateCall.date - 1)
           /\ dateCall.op = "add" => count = n
=============================================================================
