------------------------------ MODULE Calendar ------------------------------
(***************************************************************************)
(* The two conversions of a recall between days and dates: the date that   *)
(* the brief prints for a time, and the day that a date hint stands for.   *)
(* Both count days of UTC from 1970-01-01 with closed formulas. Here they  *)
(* are compared with a calendar that is walked day by day.                 *)
(***************************************************************************)
EXTENDS Integers

CONSTANT Walks  \* walks: a day's number and date, and how many days to go on

VARIABLES
  number,  \* days since the epoch
  date,    \* the date of that day
  left     \* days still to walk

calendarVars == <<number, date, left>>

Date(y, m, d) == [year |-> y, month |-> m, day |-> d]

\* Walks begin at the epoch, or at the first day of the year 0.
ASSUME WalksOK ==
  \A w \in Walks :
    /\ w.days \in Nat
    /\ \/ w.number = 0 /\ w.date = Date(1970, 1, 1)
       \/ w.number = -719528 /\ w.date = Date(0, 1, 1)

-----------------------------------------------------------------------------
(* The formulas                                                            *)

\* Division of i64 rounds towards zero.
Quotient(x, y) == IF x >= 0 THEN x \div y ELSE -((-x) \div y)

\* The era of a number of years or days.
Era(x, size) == Quotient(IF x >= 0 THEN x ELSE x - (size - 1), size)

\* Fault: the last day of an era is not accounted for.
YearOfEraShort(d) == Quotient((d - Quotient(d, 1460)) + Quotient(d, 36524), 365)

YearOfEra(d) ==
  Quotient(((d - Quotient(d, 1460)) + Quotient(d, 36524)) - Quotient(d, 146096), 365)

\* The days of an era before one of its years, which begin in March.
DaysBefore(year) == (year * 365 + Quotient(year, 4)) - Quotient(year, 100)

\* utc_date_from_unix_ms for a number of days.
UtcDate(days) ==
  LET z == days + 719468
      era == Era(z, 146097)
      dayOfEra == z - era * 146097
      year == YearOfEra(dayOfEra)
      dayOfYear == dayOfEra - DaysBefore(year)
      monthPrime == Quotient(5 * dayOfYear + 2, 153)
      month == monthPrime + (IF monthPrime < 10 THEN 3 ELSE -9)
  IN Date((year + era * 400) + (IF month <= 2 THEN 1 ELSE 0),
          month,
          (dayOfYear - Quotient(153 * monthPrime + 2, 5)) + 1)

Leap(y) == y % 4 = 0 /\ (y % 100 # 0 \/ y % 400 = 0)

MonthDays(y, m) ==
  CASE m = 2 -> IF Leap(y) THEN 29 ELSE 28
    [] m \in {4, 6, 9, 11} -> 30
    [] OTHER -> 31

\* A hint that is no date is not a window: parse_recall_date_hint is None.
Accepted(d) == d.month \in 1 .. 12 /\ d.day >= 1 /\ d.day <= MonthDays(d.year, d.month)

\* The day that begins the window of a hint.
DayOfHint(d) ==
  LET year == d.year - (IF d.month <= 2 THEN 1 ELSE 0)
      era == Era(year, 400)
      monthPrime == d.month + (IF d.month > 2 THEN -3 ELSE 9)
      dayOfYear == (Quotient(153 * monthPrime + 2, 5) + d.day) - 1
  IN (era * 146097 + (DaysBefore(year - era * 400) + dayOfYear)) - 719468

-----------------------------------------------------------------------------
(* The walk. The lengths of the months are those of the calendar.          *)

LastOfFebruary(y) ==
  IF y % 400 = 0 \/ (y % 4 = 0 /\ y % 100 # 0) THEN 29 ELSE 28

LengthOf(y, m) ==
  IF m = 2 THEN LastOfFebruary(y)
  ELSE <<31, 28, 31, 30, 31, 30, 31, 31, 30, 31, 30, 31>>[m]

Tomorrow(d) ==
  IF d.day < LengthOf(d.year, d.month) THEN [d EXCEPT !.day = @ + 1]
  ELSE IF d.month < 12 THEN Date(d.year, d.month + 1, 1)
  ELSE Date(d.year + 1, 1, 1)

CalendarInit ==
  \E w \in Walks : number = w.number /\ date = w.date /\ left = w.days

NextDay ==
  /\ left > 0
  /\ number' = number + 1
  /\ date' = Tomorrow(date)
  /\ left' = left - 1

CalendarSpec == CalendarInit /\ [][NextDay]_calendarVars

-----------------------------------------------------------------------------
(* Properties                                                              *)

\* The brief prints the date of the day of a message: no message is older than
\* the epoch.
BriefDateRight == number >= 0 => UtcDate(number) = date

\* The hint of a date is the window of that day.
HintDayRight == Accepted(date) /\ DayOfHint(date) = number

\* A day that the month does not have is no hint.
NoSuchDay ==
  \A d \in {0} \cup (LengthOf(date.year, date.month) + 1) .. 32 :
    ~Accepted([date EXCEPT !.day = d])

\* The two conversions agree with the calendar, and so with each other.
DatesAgree == BriefDateRight /\ HintDayRight /\ NoSuchDay

=============================================================================
