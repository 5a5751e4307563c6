---------------------------- MODULE HildonTimeEditor ----------------------------
(***************************************************************************)
(* The time editor of libhildon1, with its fields for hours and minutes    *)
(* (seconds are treated as the minutes are): a time of the day on a 24 or  *)
(* 12 hour clock, or a duration.  The user edits fields, ticks follow when *)
(* the focus leaves one; an error waits for an idle callback to take the   *)
(* focus back.                                                             *)
(***************************************************************************)
EXTENDS Integers, NullPointer

CONSTANTS
  HalfDay,     \* hours of half a day
  Minutes,     \* minutes of an hour
  MaxHours,    \* hours of MAX_DURATION
  NoDigits, Dash, Letters,  \* texts of fields that are not numbers
  Digits,      \* numbers the user can type in a field
  Times        \* ticks applications set and compare with

ASSUME TimeAssumption ==
  /\ HalfDay \in Nat \ {0} /\ Minutes \in Nat \ {0} /\ MaxHours \in Nat
  /\ Digits \subseteq Nat /\ Times \subseteq Nat
  /\ {NoDigits, Dash, Letters} \intersect Nat = {} /\ None \notin {"hours", "minutes"}

VARIABLE time

timeVars == <<time>>

Fields == {"hours", "minutes"}
NotDigits == {NoDigits, Dash, Letters}
MaxDuration == MaxHours * Minutes + Minutes - 1
Durations == Times \intersect 0 .. MaxDuration
DayTicks == 2 * HalfDay * Minutes
Bigger(a, b) == IF a > b THEN a ELSE b
FieldText == 0 .. Bigger(Bigger(MaxHours, 2 * HalfDay), Minutes)

TimeTypeOK ==
  /\ time \in [ticks : 0 .. Bigger(MaxDuration, DayTicks - 1),
               clock24 : BOOLEAN, am : BOOLEAN, duration : BOOLEAN,
               button : BOOLEAN,   \* is the AM/PM button shown
               min : 0 .. MaxDuration, max : 0 .. MaxDuration,
               text : [Fields -> FieldText \union Digits \union NotDigits],
               focus : Fields \union {None},
               error : Fields \union {None},  \* error_widget, until highlight_callback
               crossed : BOOLEAN]  \* has the minimum been set above the maximum
  /\ ~time.duration => time.ticks < DayTicks

(* convert_to_12h *)
To12(h) == IF h = 0 THEN HalfDay ELSE IF h <= HalfDay THEN h ELSE h - HalfDay

(* convert_to_24h *)
To24(h, am) ==
  IF h = HalfDay /\ am THEN 0 ELSE IF ~am /\ 1 <= h /\ h < HalfDay THEN h + HalfDay ELSE h

TicksOf(h, m) == h * Minutes + m

(* CLAMP, of which the maximum comes first. *)
ClampTicks(t, low, high) == IF t > high THEN high ELSE IF t < low THEN low ELSE t

(* Mutant: a time may be after the end of the day. *)
FixedDurations(x, t) == IF x.duration THEN ClampTicks(t, x.min, x.max) ELSE t

(* What hildon_time_editor_set_ticks makes of too low or too high ticks. *)
Fixed(x, t) ==
  IF x.duration THEN ClampTicks(t, x.min, x.max)
  ELSE IF t < DayTicks THEN t ELSE TicksOf(2 * HalfDay - 1, t % Minutes)

ShownHours(x) ==
  LET h == x.ticks \div Minutes IN IF x.clock24 \/ x.duration THEN h ELSE To12(h)

(* Mutant: the fields are written, but not which half of the day it is. *)
SetTicksKeepsHalf(x, t) ==
  LET y == [x EXCEPT !.ticks = Fixed(x, t)]
  IN [y EXCEPT !.text = [hours |-> ShownHours(y), minutes |-> y.ticks % Minutes]]

(* hildon_time_editor_set_ticks *)
SetTicks(x, t) ==
  LET y == [x EXCEPT !.ticks = Fixed(x, t)]
  IN [y EXCEPT !.text = [hours |-> ShownHours(y), minutes |-> y.ticks % Minutes],
               !.am = IF x.clock24 \/ x.duration THEN @ ELSE y.ticks < HalfDay * Minutes]

---------------------------------------------------------------------------
(* validated_conversion: the value of a field, -1 to end the validation.    *)
Conversion(t, low, high, default, intermediate) ==
  IF t \notin NotDigits
  THEN IF t > high THEN [value |-> high, error |-> TRUE]
       ELSE IF t < low /\ ~intermediate THEN [value |-> low, error |-> TRUE]
       ELSE [value |-> t, error |-> FALSE]
  ELSE IF t = Dash THEN [value |-> low, error |-> TRUE]
  ELSE IF t = Letters THEN [value |-> -1, error |-> TRUE]
  ELSE IF intermediate THEN [value |-> -1, error |-> FALSE]
  ELSE [value |-> default, error |-> TRUE]

LowHours(x) == IF x.duration THEN x.min \div Minutes ELSE IF x.clock24 THEN 0 ELSE 1
HighHours(x) ==
  IF x.duration THEN x.max \div Minutes ELSE IF x.clock24 THEN 2 * HalfDay - 1 ELSE HalfDay

Mark(x, f, converted) == IF converted.error THEN [x EXCEPT !.error = f] ELSE x

(* The end of hildon_time_editor_real_validate. *)
ApplyFields(x, h, m, intermediate) ==
  IF x.duration /\ TicksOf(h, m) < x.min /\ ~intermediate
  THEN [SetTicks(x, x.min) EXCEPT !.error = "hours"]
  ELSE IF x.duration /\ TicksOf(h, m) > x.max
  THEN [SetTicks(x, x.max) EXCEPT !.error = "hours"]
  ELSE IF intermediate /\ x.error = None THEN x
  ELSE SetTicks(x, TicksOf(IF x.clock24 \/ x.duration THEN h ELSE To24(h, x.am), m))

(* hildon_time_editor_validate: nothing while an error is shown. *)
Validate(x, intermediate) ==
  IF x.error # None THEN x
  ELSE LET h == Conversion(x.text["hours"], LowHours(x), HighHours(x),
                           x.ticks \div Minutes, intermediate)
           m == Conversion(x.text["minutes"], 0, Minutes - 1, x.ticks % Minutes, intermediate)
           y == Mark(x, "hours", h)
           z == Mark(y, "minutes", m)
       IN IF h.value = -1 THEN y
          ELSE IF m.value = -1 THEN z
          ELSE ApplyFields(z, h.value, m.value, intermediate)

---------------------------------------------------------------------------
TimeInit ==
  \E c \in BOOLEAN :
    time = SetTicks([ticks |-> 0, clock24 |-> c, am |-> FALSE, duration |-> FALSE, button |-> ~c,
                     min |-> 0, max |-> 0, text |-> [f \in Fields |-> 0],
                     focus |-> None, error |-> None, crossed |-> FALSE], 0)

(* Mutant: nothing is checked when a field is left. *)
FocusWithoutCheck(f) ==
  /\ f # time.focus
  /\ time' = [time EXCEPT !.focus = f]

(* The focus moves to a field or elsewhere: hildon_time_editor_entry_focus_out. *)
MoveFocus(f) ==
  /\ f # time.focus
  /\ time' = [(IF time.focus = None THEN time ELSE Validate(time, FALSE)) EXCEPT !.focus = f]

(* Typing: hildon_time_editor_entry_changed, and with two digits in the      *)
(* hours hildon_time_editor_inserted_text moves on.                          *)
TypeField(t, full) ==
  /\ time.focus # None
  /\ LET x == Validate([time EXCEPT !.text[time.focus] = t], TRUE)
     IN time' = IF full /\ time.focus = "hours" /\ x.error = None
                THEN [Validate(x, FALSE) EXCEPT !.focus = "minutes"] ELSE x

(* highlight_callback *)
Highlight ==
  /\ time.error # None
  /\ time' = [time EXCEPT !.error = None, !.focus = time.error]

(* hildon_time_editor_ampm_clicked, where the button is shown; ticks are      *)
(* unsigned, so too low ones are some of the too high ones.                  *)
AmPmClicked ==
  /\ time.button
  /\ LET x == Validate(time, FALSE)
         half == HalfDay * Minutes
         moved == IF x.am THEN {x.ticks + half}
                  ELSE IF x.ticks >= half THEN {x.ticks - half} ELSE {DayTicks + m : m \in 0 .. Minutes - 1}
     IN \E t \in moved : time' = SetTicks(x, t)

(* hildon_time_editor_icon_clicked, and what the time picker returns. *)
IconClicked(t) ==
  /\ ~time.duration
  /\ LET x == Validate(time, FALSE)
     IN time' \in {x} \union IF x.error = None THEN {SetTicks(x, t)} ELSE {}

AppSetsTicks(t) == time' = SetTicks(time, t)

(* hildon_time_editor_set_duration_min *)
WithMin(x, t) ==
  LET y == [x EXCEPT !.min = t] IN IF x.ticks < t THEN SetTicks(y, t) ELSE y

(* hildon_time_editor_set_duration_max *)
WithMax(x, t) ==
  LET y == [x EXCEPT !.max = t] IN IF x.ticks > t THEN SetTicks(y, t) ELSE y

(* Mutant: the value stays where it was. *)
WithRangeKept(x, low, high) == [x EXCEPT !.min = low, !.max = high]

(* hildon_time_editor_set_duration_range *)
WithRange(x, low, high) == SetTicks(WithMin(WithMax(x, high), low), low)

(* hildon_time_editor_set_duration_mode; t is the current time.  The button *)
(* comes back whatever the clock is.                                        *)
SetDurationMode(duration, t) ==
  /\ duration # time.duration
  /\ LET x == [time EXCEPT !.duration = duration, !.button = ~duration]
     IN time' = IF duration THEN [WithRange(x, 0, MaxDuration) EXCEPT !.crossed = FALSE]
                ELSE SetTicks(x, t)

SetDurationMin(t) ==
  /\ time.duration
  /\ time' = [WithMin(time, t) EXCEPT !.crossed = @ \/ t > time.max]

SetDurationMax(t) ==
  /\ time.duration
  /\ time' = [WithMax(time, t) EXCEPT !.crossed = @ \/ t < time.min]

SetDurationRange(low, high) ==
  /\ time.duration /\ low <= high
  /\ time' = [WithRange(time, low, high) EXCEPT !.crossed = FALSE]

TimeNext ==
  \/ \E f \in Fields \union {None} : MoveFocus(f)
  \/ \E t \in Digits \union NotDigits, full \in BOOLEAN : TypeField(t, full)
  \/ Highlight \/ AmPmClicked
  \/ \E t \in Times : IconClicked(t) \/ AppSetsTicks(t)
  \/ \E t \in Times \intersect 0 .. DayTicks - 1, d \in BOOLEAN : SetDurationMode(d, t)
  \/ \E t \in Durations : SetDurationMin(t) \/ SetDurationMax(t)
  \/ \E low, high \in Durations : SetDurationRange(low, high)

TimeSpec == TimeInit /\ [][TimeNext]_timeVars

---------------------------------------------------------------------------
(* Once the focus has left the editor it shows the time it returns, unless a *)
(* field has letters: these stay, and with them what else was edited.        *)
ShownInStep ==
  time.focus = None /\ time.error = None /\ (\A f \in Fields : time.text[f] # Letters)
    => time.text = [hours |-> ShownHours(time), minutes |-> time.ticks % Minutes]

(* On a 12 hour clock the button shows the half of the day of the time, so   *)
(* that a click moves to the same time of the other half.                    *)
HalvesInStep ==
  ~time.clock24 /\ ~time.duration => (time.am <=> time.ticks < HalfDay * Minutes)

(* A duration is in its range, unless the bounds have been moved one by one  *)
(* over each other: then the next bound is not applied to the duration.      *)
DurationInRange ==
  time.duration /\ ~time.crossed => time.ticks \in time.min .. time.max

(* Entries, ticks and the half of the day tell the same time, and a duration is *)
(* in its range. *)
TimeInv ==
  /\ TimeTypeOK
  /\ ShownInStep
  /\ HalvesInStep
  /\ DurationInRange

=============================================================================
