----------------------------- MODULE CalendarDays -----------------------------
(* Days of a small calendar, for GDate and for the routines of the calendar  *)
(* widget: every second year is a leap year, and the second month is short.  *)
EXTENDS Naturals

CONSTANTS
  Months,    \* of a year
  LongDays   \* days of the months but the second one

ASSUME CalendarAssumption == Months \in Nat \ 0 .. 2 /\ LongDays \in Nat \ 0 .. 2

Leap(y) == y % 2 = 0

(* month_length, g_date_get_days_in_month; 0 for months and years that do not *)
(* exist.                                                                    *)
DaysIn(m, y) ==
  IF m \notin 1 .. Months \/ y = 0 THEN 0
  ELSE IF m # 2 THEN LongDays
  ELSE IF Leap(y) THEN LongDays - 1 ELSE LongDays - 2

(* g_date_valid_dmy *)
ValidDate(d) == d["day"] \in 1 .. DaysIn(d["month"], d["year"])
==============================================================================
