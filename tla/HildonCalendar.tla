----------------------------- MODULE HildonCalendar -----------------------------
(***************************************************************************)
(* The calendar of libhildon1 and the popup that shows it: the month, the  *)
(* selected day and the focused cell of a grid that also has days of the   *)
(* months before and after.  Cells are numbered row by row; months count   *)
(* from 1.  The display option that forbids changes of the month is left    *)
(* out.                                                                    *)
(***************************************************************************)
EXTENDS Integers, CalendarDays, NullPointer

CONSTANTS
  WeekDays,  \* columns
  Weeks,     \* rows: any month, the first days of the next one, and never all of them
  CalYears,  \* years set
  Todays     \* dates of today: year, month, day

CalDates == [year : CalYears, month : 1 .. Months, day : 1 .. LongDays]
Arrows == {"year prev", "year next", "month prev", "month next"}

ASSUME CalendarGridAssumption ==
  /\ WeekDays \in Nat \ {0} /\ Weeks \in Nat
  /\ WeekDays * Weeks \in WeekDays + LongDays .. 2 * (LongDays - 2)
  /\ CalYears \subseteq Nat \ {0} /\ \A y, z \in CalYears : y .. z \subseteq CalYears
  /\ Todays \subseteq {d \in CalDates : ValidDate(d)} /\ None \notin Arrows

VARIABLE cal

calVars == <<cal>>

Cells == 0 .. WeekDays * Weeks - 1

(* A press, by the words of the calendar read for it, and the year and if it *)
(* was on a day of the month that is shown (history).                        *)
Presses == [day : 0 .. LongDays, month : 0 .. Months, year : {0} \union CalYears, own : BOOLEAN]
NoPress == [day |-> 0, month |-> 0, year |-> 0, own |-> FALSE]

CalendarTypeOK ==
  /\ cal.month \in 1 .. Months /\ {cal.year, cal.min, cal.max} \subseteq CalYears
  /\ cal.min <= cal.year /\ cal.year <= cal.max
  /\ cal.selected \in 1 .. LongDays /\ cal.focus \in Cells /\ cal.today \in Todays
  /\ cal.pressed \in Presses
  /\ cal.spin \in {None} \union Arrows
  /\ {cal.keys, cal.bad, cal.pending} \subseteq BOOLEAN

(* days of the years before and of the months before: calc_days *)
DaysBefore(m, y) ==
  (y - 1) * (Months * LongDays - 2) + (y - 1) \div 2
  + (m - 1) * LongDays - (IF m <= 2 THEN 0 ELSE IF Leap(y) THEN 1 ELSE 2)

FirstCell(x) == DaysBefore(x.month, x.year) % WeekDays
Length(x) == DaysIn(x.month, x.year)

(* hildon_calendar_compute_days *)
CellKind(x, k) ==
  IF k < FirstCell(x) THEN "prev" ELSE IF k < FirstCell(x) + Length(x) THEN "current" ELSE "next"

CellDay(x, k) ==
  CASE CellKind(x, k) = "prev" ->
         DaysIn(IF x.month > 1 THEN x.month - 1 ELSE Months, x.year) - FirstCell(x) + 1 + k
    [] CellKind(x, k) = "current" -> k - FirstCell(x) + 1
    [] OTHER -> k - FirstCell(x) - Length(x) + 1

CellOf(x, day) == FirstCell(x) + day - 1

(* Mutant: the focus is left where it is. *)
SelectDayOnly(x, day) ==
  [x EXCEPT !.selected = day, !.pending = @ /\ day \notin 1 .. Length(x)]

(* hildon_calendar_select_day; a day that the month has not has no cell. *)
SelectDay(x, day) ==
  LET has == day \in 1 .. Length(x)
  IN IF day > LongDays THEN x
     ELSE [x EXCEPT !.selected = day, !.pending = @ /\ ~has,
                    !.focus = IF has THEN CellOf(x, day) ELSE @]

(* Mutant: a day that does not exist in the month stays. *)
KeepDayAlways(x) == SelectDay(x, x.selected)

KeepDay(x) == SelectDay(x, IF Length(x) < x.selected THEN Length(x) ELSE x.selected)

(* Mutant: no year is the last. *)
MonthPrevUnlimited(x) ==
  KeepDay(IF x.month > 1 THEN [x EXCEPT !.month = @ - 1]
          ELSE [x EXCEPT !.month = Months, !.year = @ - 1])

(* hildon_calendar_set_month_prev *)
MonthPrev(x) ==
  KeepDay(IF x.month > 1 THEN [x EXCEPT !.month = @ - 1]
          ELSE IF x.year > x.min THEN [x EXCEPT !.month = Months, !.year = @ - 1] ELSE x)

(* hildon_calendar_set_month_next *)
MonthNext(x) ==
  KeepDay(IF x.month < Months THEN [x EXCEPT !.month = @ + 1]
          ELSE IF x.year < x.max THEN [x EXCEPT !.month = 1, !.year = @ + 1] ELSE x)

(* hildon_calendar_set_year_prev, hildon_calendar_set_year_next *)
YearPrev(x) == KeepDay(IF x.min < x.year THEN [x EXCEPT !.year = @ - 1] ELSE x)
YearNext(x) == KeepDay(IF x.max > x.year THEN [x EXCEPT !.year = @ + 1] ELSE x)

(* arrow_action *)
ArrowAction(x, a) ==
  CASE a = "year prev" -> YearPrev(x)
    [] a = "year next" -> YearNext(x)
    [] a = "month prev" -> MonthPrev(x)
    [] OTHER -> MonthNext(x)

(* Days of the neighbouring months, from a cell of theirs. *)
OutOfYears(x, k) ==
  \/ x.year = x.min /\ x.month = 1 /\ CellKind(x, k) = "prev"
  \/ x.year = x.max /\ x.month = Months /\ CellKind(x, k) = "next"

(* hildon_calendar_select_month *)
SelectMonth(x, m, y) ==
  [x EXCEPT !.month = m, !.pending = TRUE,
            !.year = LET low == IF y > x.max THEN x.max ELSE y
                     IN IF low < x.min THEN x.min ELSE low]

---------------------------------------------------------------------------
(* Keys, with hildon-keyboard-navigation or (keys FALSE) without: then they  *)
(* move the focus only.  Days are compared on the grid, out of which the     *)
(* checks for the first and last month read at its edge: to the left the     *)
(* selected day, which is taken for a day of the month, above and below      *)
(* anything.                                                                 *)
LastOfPrev(x) == DaysIn(IF x.month > 1 THEN x.month - 1 ELSE Months, x.year)

KeyLeft(x) ==
  LET y == [x EXCEPT !.focus = IF @ > 0 THEN @ - 1 ELSE @]
  IN IF x.focus > 0 /\ x.year = x.min /\ x.month = 1 /\ CellKind(x, x.focus - 1) = "prev" THEN x
     ELSE IF ~x.keys THEN y
     ELSE IF CellKind(y, y.focus) = "current" /\ x.selected # 1 THEN SelectDay(y, x.selected - 1)
     ELSE MonthPrev([y EXCEPT !.selected = LastOfPrev(x)])

(* Mutant: the day stays when the month ends. *)
KeyRightSameDay(x) ==
  LET y == [x EXCEPT !.focus = IF @ + 1 \in Cells THEN @ + 1 ELSE @]
  IN IF ~x.keys THEN y
     ELSE IF CellKind(y, y.focus) = "current" THEN SelectDay(y, x.selected + 1)
     ELSE MonthNext(y)

KeyRight(x) ==
  LET y == [x EXCEPT !.focus = IF @ + 1 \in Cells THEN @ + 1 ELSE @]
  IN IF x.focus + 1 \in Cells /\ x.year = x.max /\ x.month = Months
        /\ CellKind(x, x.focus + 1) = "next" THEN x
     ELSE IF ~x.keys THEN y
     ELSE IF CellKind(y, y.focus) = "current" THEN SelectDay(y, x.selected + 1)
     ELSE MonthNext([y EXCEPT !.selected = 1])

KeyUp(x) ==
  LET y == [x EXCEPT !.focus = IF @ >= WeekDays THEN @ - WeekDays ELSE @]
  IN IF ~x.keys THEN y
     ELSE IF CellKind(y, y.focus) = "current"
     THEN IF x.selected > WeekDays THEN SelectDay(y, x.selected - WeekDays)
          ELSE MonthPrev([y EXCEPT !.selected = LastOfPrev(x)])
     ELSE MonthPrev([y EXCEPT !.selected = CellDay(y, y.focus)])

KeyDown(x) ==
  LET y == [x EXCEPT !.focus = IF @ + WeekDays \in Cells THEN @ + WeekDays ELSE @]
  IN IF ~x.keys THEN y
     ELSE IF CellKind(y, y.focus) = "current"
     THEN IF x.selected + WeekDays <= Length(x) THEN SelectDay(y, x.selected + WeekDays)
          ELSE MonthNext([y EXCEPT !.selected = 1])
     ELSE MonthNext([y EXCEPT !.selected = CellDay(y, y.focus)])

UpStops(x) == x.year = x.min /\ x.month = 1
DownStops(x) == x.year = x.max /\ x.month = Months

VerticalKey ==
  \/ /\ ~(UpStops(cal) /\ cal.focus >= WeekDays /\ CellKind(cal, cal.focus - WeekDays) = "prev")
     /\ cal' = KeyUp(cal)
  \/ /\ ~(DownStops(cal) /\ cal.focus + WeekDays \in Cells
            /\ CellKind(cal, cal.focus + WeekDays) = "next")
     /\ cal' = KeyDown(cal)

SpaceKey ==
  LET kind == CellKind(cal, cal.focus)
      y == CASE kind = "prev" -> MonthPrev(cal) [] kind = "next" -> MonthNext(cal) [] OTHER -> cal
  IN cal' = SelectDay(y, CellDay(cal, cal.focus))

---------------------------------------------------------------------------
(* The stylus is at the index row * WeekDays + column of both arrays, where   *)
(* row_from_y and column_from_x give -1 out of the rows and the columns: left *)
(* of a row are the last words of the row before, above the first row those   *)
(* that stand before the array in the calendar.                               *)
Before == -WeekDays - 1 .. -1
StylusPlaces == Cells \union Before
OutOfGrid == Before \union {r * WeekDays - 1 : r \in 1 .. Weeks - 1}

KindWord(kind) == CASE kind = "prev" -> 0 [] kind = "current" -> 1 [] OTHER -> 2
WordKind(n) == CASE n = 0 -> "prev" [] n = 1 -> "current" [] n = 2 -> "next" [] OTHER -> "other"

(* day[row][col]: the array of the kinds stands before that of the days. *)
DayAt(x, n) == IF n \in Cells THEN CellDay(x, n) ELSE KindWord(CellKind(x, n + WeekDays * Weeks))

(* day_month[row][col]: the month, the year and the selected day stand before *)
(* that array, and before them pointers, which may be null.                   *)
KindsAt(x, n) ==
  CASE n \in Cells -> {CellKind(x, n)}
    [] n = -1 -> {WordKind(x.selected)}
    [] n = -2 -> {WordKind(x.year)}
    [] n = -3 -> {WordKind(x.month - 1)}
    [] OTHER -> {"prev", "other"}

(* hildon_calendar_button_press *)
PressAt(n) ==
  /\ cal.pressed.month = 0 /\ cal.spin = None
  /\ \E kind \in KindsAt(cal, n) :
       LET x == IF kind = "current" THEN SelectDay(cal, DayAt(cal, n)) ELSE cal
           own == kind = "current" /\ n \in Cells
       IN cal' = [x EXCEPT !.pressed = [day |-> DayAt(cal, n), month |-> cal.month,
                                        year |-> cal.year, own |-> own]]

(* hildon_calendar_motion_notify; that a motion in the same cell or with none *)
(* under the pointer is passed over is left out.                              *)
SlideTo(n) ==
  /\ cal.pressed.month # 0 /\ \E kind \in KindsAt(cal, n) : kind \notin {"prev", "next"}
  /\ cal' = SelectDay(cal, DayAt(cal, n))

(* hildon_calendar_main_button *)
Released(x, k) ==
  LET kind == CellKind(x, k)
      y == CASE kind = "prev" -> MonthPrev(x) [] kind = "next" -> MonthNext(x) [] OTHER -> x
  IN IF OutOfYears(x, k) THEN [x EXCEPT !.bad = TRUE] ELSE SelectDay(y, CellDay(x, k))

(* Mutant: the same number is taken for the same day. *)
SameDayShown(x, n) == x.pressed.day = DayAt(x, n)

(* Is the day pressed at the place of the release, in the month shown now? *)
SameDay(x, n) == x.pressed.day = DayAt(x, n) /\ x.pressed.month = x.month

(* The signal "selected-date" is sent. *)
Announces(x, n) == SameDay(x, n) /\ ~x.bad

(* hildon_calendar_button_release: out of the grid nothing is selected. *)
ReleaseAt(n, inside) ==
  /\ cal.pressed.month # 0
  /\ LET x == IF inside THEN Released(cal, n) ELSE cal
     IN cal' = [x EXCEPT !.bad = @ /\ ~SameDay(x, n), !.pressed = NoPress]

(* An arrow is pressed and acts again by calendar_timer until the release. *)
PressArrow(a) ==
  /\ cal.pressed.month = 0 /\ cal.spin = None
  /\ cal' = [ArrowAction(cal, a) EXCEPT !.spin = a]

CalendarTimer == cal.spin # None /\ cal' = ArrowAction(cal, cal.spin)

ReleaseArrow == cal.spin # None /\ cal' = [cal EXCEPT !.spin = None]

---------------------------------------------------------------------------
(* The properties: hildon_calendar_set_property *)
AppSelectsMonth(m, y) == cal' = SelectMonth(cal, m, y)

AppSelectsDay(day) == day \in 1 .. Length(cal) /\ cal' = SelectDay(cal, day)

SetYears(min, max) ==
  /\ min <= max
  /\ LET x == [cal EXCEPT !.min = min, !.max = max]
     IN cal' = IF cal.year \in min .. max THEN x ELSE SelectMonth(x, x.month, x.year)

(* init_dmy *)
OrToday(today, d) == IF ValidDate(d) THEN d ELSE today

(* Mutant: the day is set first. *)
PopupNewDayFirst(today, d) ==
  LET m == OrToday(today, [today EXCEPT !["day"] = d["day"]])
      y == OrToday(today, [m EXCEPT !["month"] = d["month"]])
  IN OrToday(today, [y EXCEPT !["year"] = d["year"]])

(* hildon_calendar_popup_new: the properties year, month and day are set one *)
(* after the other, each to a date that exists or to that of today.          *)
PopupNew(today, d) ==
  LET y == OrToday(today, [today EXCEPT !["year"] = d["year"]])
      m == OrToday(today, [y EXCEPT !["month"] = d["month"]])
  IN OrToday(today, [m EXCEPT !["day"] = d["day"]])

(* A calendar with its date, alone or in a popup. *)
CalendarInit ==
  \E d \in {t \in CalDates : ValidDate(t)}, today \in Todays, keys \in BOOLEAN,
     min, max \in CalYears :
    LET shown == PopupNew(today, d)
        x == [year |-> shown["year"], month |-> shown["month"], selected |-> shown["day"],
              focus |-> 0, min |-> min, max |-> max, today |-> today,
              pressed |-> NoPress, spin |-> None,
              keys |-> keys,     \* hildon-keyboard-navigation
              bad |-> FALSE,     \* is_bad_day
              pending |-> FALSE] \* has the application set a month, and nobody a day of it yet
    IN min <= shown["year"] /\ shown["year"] <= max /\ cal = SelectDay(x, shown["day"])

CalendarNext ==
  \/ cal' = KeyLeft(cal) \/ cal' = KeyRight(cal)
  \/ VerticalKey \/ SpaceKey \/ CalendarTimer \/ ReleaseArrow
  \/ \E n \in StylusPlaces : PressAt(n) \/ SlideTo(n)
  \/ \E n \in Cells : ReleaseAt(n, TRUE)
  \/ \E n \in OutOfGrid : ReleaseAt(n, FALSE)
  \/ \E a \in Arrows : PressArrow(a)
  \/ \E m \in 1 .. Months, y \in CalYears : AppSelectsMonth(m, y)
  \/ \E day \in 1 .. LongDays : AppSelectsDay(day)
  \/ \E min, max \in CalYears : SetYears(min, max)

CalendarSpec == CalendarInit /\ [][CalendarNext]_calVars

---------------------------------------------------------------------------
(* The selected day exists in the month that is shown, whatever the user     *)
(* does; the application sets the day after the month.                      *)
SelectedExists ==
  ~cal.pending => cal.selected \in 1 .. Length(cal)

(* With keyboard navigation the focus is on the selected day. *)
FocusOnSelected ==
  cal.keys /\ ~cal.pending => cal.focus = CellOf(cal, cal.selected)

(* Going left and right comes back, over the ends of months and years, but   *)
(* not from the first day of the years: FirstDayStays does not hold.         *)
LeftRightReturns ==
  cal.keys /\ ~cal.pending /\ KeyLeft(cal) # cal
    /\ ~(cal.year = cal.min /\ cal.month = 1 /\ cal.selected = 1)
    => LET x == KeyRight(KeyLeft(cal))
       IN x.year = cal.year /\ x.month = cal.month /\ x.selected = cal.selected

(* "if we are at the first allowed day of the minimum year/month then do      *)
(* nothing": in the first column Left selects the last day of that month.    *)
FirstDayStays ==
  cal.keys /\ cal.year = cal.min /\ cal.month = 1 /\ cal.selected = 1 => KeyLeft(cal) = cal

ShownOf(x) == [year |-> x.year, month |-> x.month, day |-> x.selected]

(* A day pressed in the month shown, and the month did not move since. *)
PlainPress == cal.pressed.own /\ cal.pressed.month = cal.month /\ cal.pressed.year = cal.year

(* Released on a cell, a plain press announces the date that was pressed,     *)
(* wherever the stylus was meanwhile.  Others may announce another date:      *)
(* pressed on a 30 shown for the month before and released on that of the     *)
(* month shown, or slid over the days and released out of the grid at a word  *)
(* that equals the day pressed.                                               *)
ToldPressed ==
  PlainPress =>
    \A k \in Cells :
      LET x == Released(cal, k)
      IN Announces(x, k) =>
           ShownOf(x) = [year |-> cal.pressed.year, month |-> cal.pressed.month, day |-> cal.pressed.day]

(* "The initially selected date is specified by the parameters": a popup that *)
(* is given the date shown here shows it.                                     *)
PopupShowsDate ==
  ValidDate(ShownOf(cal)) => PopupNew(cal.today, ShownOf(cal)) = ShownOf(cal)

(* It does if the day of today exists in every month. *)
PopupShowsGiven == cal.today["day"] <= LongDays - 2 => PopupShowsDate

(* The selected day exists and the focus of the keys is on it, keys undo each *)
(* other, a plain click announces the date pressed. *)
CalendarInv ==
  /\ CalendarTypeOK
  /\ SelectedExists
  /\ FocusOnSelected
  /\ LeftRightReturns
  /\ ToldPressed
  /\ PopupShowsGiven

=============================================================================
