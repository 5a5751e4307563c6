---------------------------- MODULE HildonDateEditor ----------------------------
(***************************************************************************)
(* The date editor of libhildon1: the last valid date and three entries,   *)
(* whose texts are validated when an entry is full or loses the focus; the *)
(* validation is skipped once after a full entry has passed it, and while  *)
(* Escape is held.  Texts that are not numbers count as 0.                 *)
(***************************************************************************)
EXTENDS Integers, CalendarDays, EntryTexts, NullPointer

CONSTANTS
  Years,    \* years that the application sets
  Numbers   \* numbers that are typed or set

ASSUME DateAssumption ==
  /\ Years \subseteq Nat \ {0} /\ Numbers \subseteq Nat /\ Empty \notin Nat
  /\ None \notin {"year", "month", "day"}

VARIABLE date

dateVars == <<date>>

DateParts == {"year", "month", "day"}

DateNumbers == Numbers \union Years \union 1 .. LongDays \union 1 .. Months

DateTypeOK ==
  /\ date \in [set : [DateParts -> DateNumbers], text : [DateParts -> DateNumbers \union {Empty}],
               focus : DateParts \union {None}, min : Years, max : Years,
               skip : BOOLEAN,      \* skip_validation
               escape : BOOLEAN,    \* Escape is held,
               escaped : BOOLEAN]   \* has been since a date was set
  /\ ValidDate(date.set) /\ date.min <= date.max

DateInit ==
  \E y \in Years, min, max \in Years :
    /\ min <= y /\ y <= max
    /\ LET d == [year |-> y, month |-> 1, day |-> 1]
       IN date = [set |-> d, text |-> d, focus |-> None, min |-> min, max |-> max,
                  skip |-> FALSE, escape |-> FALSE, escaped |-> FALSE]

(* hildon_date_editor_set_date, without effect for dates that do not exist. *)
SetDate(x, d) ==
  IF ValidDate(d) THEN [x EXCEPT !.set = d, !.text = d, !.escaped = x.escape] ELSE x

(* hildon_date_editor_set_year and its likes *)
SetPart(x, p, v) ==
  IF ValidDate([x.set EXCEPT ![p] = v])
  THEN [x EXCEPT !.set[p] = v, !.text[p] = v] ELSE x

(* hildon_date_editor_get_year *)
TextYear(x) == IF x.text["year"] = Empty THEN 0 ELSE x.text["year"]

---------------------------------------------------------------------------
ClampTo(v, low, high) == IF v < low THEN low ELSE IF v > high THEN high ELSE v

(* Mutant: only the month has limits. *)
EditedMonthOnly(x, p, d) ==
  IF p = "month" THEN [d EXCEPT !["month"] = ClampTo(@, 1, Months)] ELSE d

(* The month and the year are put into their limits when they are edited. *)
EditedClamped(x, p, d) ==
  CASE p = "month" -> [d EXCEPT !["month"] = ClampTo(@, 1, Months)]
    [] p = "year" -> [d EXCEPT !["year"] = ClampTo(@, x.min, x.max)]
    [] OTHER -> d

(* The day is always checked; of a date that does not exist the edited part  *)
(* is restored.                                                              *)
DayChecked(x, p, d) ==
  LET days == DaysIn(d["month"], d["year"])
  IN IF d["day"] < 1 THEN [d EXCEPT !["day"] = 1]
     ELSE IF d["day"] <= days THEN d
     ELSE IF d["day"] > LongDays THEN [d EXCEPT !["day"] = days]
     ELSE [d EXCEPT ![p] = x.set[p]]

(* What hildon_date_editor_entry_validate returns, and what it does. *)
DateFails(x, p) ==
  LET d == EditedClamped(x, p, x.text)
  IN /\ ~x.skip /\ (\A q \in DateParts : x.text[q] # Empty) /\ x.text # x.set
     /\ d # x.text \/ d["day"] \notin 1 .. DaysIn(d["month"], d["year"])

(* Mutant: an empty entry is left to the others' validation. *)
ValidateNotEmpty(x, p) ==
  IF x.skip \/ (\E q \in DateParts : x.text[q] = Empty) \/ x.text = x.set THEN x
  ELSE SetDate(x, DayChecked(x, p, EditedClamped(x, p, x.text)))

ValidateDate(x, p) ==
  IF x.skip THEN x
  ELSE IF x.text[p] = Empty THEN SetDate(x, x.set)
  ELSE IF (\E q \in DateParts : x.text[q] = Empty) \/ x.text = x.set THEN x
  ELSE SetDate(x, DayChecked(x, p, EditedClamped(x, p, x.text)))

(* hildon_date_editor_entry_focus_out *)
DateFocusOut(x) ==
  IF x.focus = None THEN x ELSE [ValidateDate(x, x.focus) EXCEPT !.skip = FALSE]

---------------------------------------------------------------------------
(* hildon_date_editor_entry_changed.  From a full entry that is valid the    *)
(* focus goes on, if there is something in this direction: another entry or  *)
(* the button.  The next change of a full entry is that it is shorter.       *)
TypeDate(t, full) ==
  /\ date.focus # None /\ (full => t # Empty /\ (date.skip => date.escape))
  /\ LET p == date.focus
         x == [date EXCEPT !.text[p] = t]
         y == [ValidateDate(x, p) EXCEPT !.skip = TRUE]
     IN IF ~full THEN date' = [x EXCEPT !.skip = FALSE]
        ELSE IF DateFails(x, p) THEN date' = ValidateDate(x, p)
        ELSE \/ date' = y
             \/ \E f \in (DateParts \union {None}) \ {p} :
                  date' = [DateFocusOut(y) EXCEPT !.focus = f]

MoveDateFocus(f) ==
  /\ f # None \/ date.focus # None
  /\ date' = [DateFocusOut(date) EXCEPT !.focus = f]

(* hildon_date_editor_keypress, hildon_date_editor_keyrelease *)
PressEscape ==
  /\ date.focus # None /\ ~date.escape
  /\ date' = [date EXCEPT !.skip = TRUE, !.escape = TRUE, !.escaped = TRUE]

ReleaseEscape ==
  /\ date.escape
  /\ date' = [date EXCEPT !.skip = IF date.focus # None THEN FALSE ELSE @, !.escape = FALSE]

(* popup_calendar_dialog: the editor has lost the focus to the dialog. *)
PickDate(d) ==
  /\ date.focus = None /\ d["year"] \in date.min .. date.max /\ ValidDate(d)
  /\ date' = SetDate(date, d)

AppSetsDate(d) == ValidDate(d) /\ date' = SetDate(date, d)

(* Mutant: the new part alone is checked. *)
AppSetsPartAlone(p, v) == date' = [date EXCEPT !.set[p] = v, !.text[p] = v]

AppSetsPart(p, v) == date' = SetPart(date, p, v)

(* The year is clamped by setting it, which the 29th of February refuses. *)
AppSetsMinYear(y) ==
  /\ y <= date.max
  /\ LET x == [date EXCEPT !.min = y]
     IN date' = IF TextYear(x) < y THEN SetPart(x, "year", y) ELSE x

(* Mutant: the limit alone is set. *)
AppSetsMaxYearOnly(y) == y >= date.min /\ date' = [date EXCEPT !.max = y]

AppSetsMaxYear(y) ==
  /\ y >= date.min
  /\ LET x == [date EXCEPT !.max = y]
     IN date' = IF TextYear(x) > y THEN SetPart(x, "year", y) ELSE x

Dates == [year : Years, month : 1 .. Months, day : Numbers]

DateNext ==
  \/ \E t \in Numbers \union {Empty}, full \in BOOLEAN : TypeDate(t, full)
  \/ \E f \in DateParts \union {None} : MoveDateFocus(f)
  \/ PressEscape \/ ReleaseEscape
  \/ \E d \in Dates : PickDate(d) \/ AppSetsDate(d)
  \/ \E p \in DateParts, v \in Years \union Numbers : AppSetsPart(p, v)
  \/ \E y \in Years : AppSetsMinYear(y) \/ AppSetsMaxYear(y)

DateSpec == DateInit /\ [][DateNext]_dateVars

---------------------------------------------------------------------------
(* When the user has left the entries, however filled, they show the valid   *)
(* date, so that get_date returns one.  Only Escape lets an entry be left    *)
(* without a check.                                                          *)
DateShown == date.focus = None /\ ~date.escaped => date.text = date.set

(* What the user types never takes the year out of its limits. *)
YearsTypedInLimits ==
  [][date'.set["year"] # date.set["year"] /\ ~date.escaped
       /\ (\E t \in Numbers \union {Empty}, full \in BOOLEAN : TypeDate(t, full))
       => date'.set["year"] \in date.min .. date.max]_dateVars

(* New limits take the year with them unless the day does not exist in it. *)
YearFollows ==
  [][/\ date'.min # date.min \/ date'.max # date.max
     /\ date.focus = None /\ ~date.escaped /\ date.set["year"] \in date.min .. date.max
     => \/ date'.set["year"] \in date'.min .. date'.max
        \/ /\ date.set["month"] = 2 /\ date.set["day"] = LongDays - 1
           /\ date'.set = date.set]_dateVars

(* At rest the entries show the date, and it is a date of the calendar. *)
DateInv ==
  /\ DateTypeOK
  /\ DateShown

(* A year typed is taken when it is within the limits, and the day follows it. *)
YearsKept ==
  /\ YearsTypedInLimits
  /\ YearFollows

=============================================================================
