--------------------------- MODULE HildonNumberEditor ---------------------------
(***************************************************************************)
(* The number editor of libhildon1: an entry that lets the user go through *)
(* intermediate texts outside of the range while typing, two buttons with  *)
(* a repeat timer, and the range set by the application.                   *)
(***************************************************************************)
EXTENDS Integers, EntryTexts

CONSTANTS
  MaxInt,  \* G_MAXINT
  Typed    \* texts the user types; numbers can be longer than an int

MinInt == -MaxInt - 1

ASSUME NumberAssumption ==
  /\ MaxInt \in Nat
  /\ Typed \subseteq Int \union NotNumbers
  /\ NotNumbers \intersect Int = {}

VARIABLE number

numberVars == <<number>>

Int32 == MinInt .. MaxInt

NumberTypeOK ==
  /\ number \in [text : Int32 \union {Empty, Minus},
                 default : Int32, start : Int32, end : Int32,
                 focused : BOOLEAN,
                 held : {-1, 0, 1},   \* the button pressed
                 timer : {"none", "initial", "repeat"}]
  /\ number.start <= number.default /\ number.default <= number.end

NumberInit ==
  number = [text |-> MinInt, default |-> MinInt, start |-> MinInt, end |-> MaxInt,
            focused |-> FALSE, held |-> 0, timer |-> "none"]

Wrap(v) == ((v - MinInt) % (2 * MaxInt + 2)) + MinInt

(* hildon_number_editor_get_value *)
EditorValue(x) == IF x.text \notin NotNumbers THEN x.text ELSE 0

(* hildon_number_editor_set_value, also without effect. *)
SetValue(x, v) ==
  IF v > x.end \/ v < x.start THEN x ELSE [x EXCEPT !.default = v, !.text = v]

AboveRange(x, intermediate) ==
  x.text > x.end /\ (intermediate => x.end >= 0 \/ x.text >= 0)
BelowRange(x, intermediate) ==
  x.text < x.start /\ (intermediate => x.start < 0 \/ x.text <= 0)

(* Mutant: what may become a number by typing on is always accepted. *)
ValidateIntermediate(x, intermediate) ==
  IF x.text \notin NotNumbers
  THEN IF AboveRange(x, TRUE) THEN SetValue(x, x.end)
       ELSE IF BelowRange(x, TRUE) THEN SetValue(x, x.start) ELSE x
  ELSE IF x.text = Empty \/ (x.text = Minus /\ x.start < 0) THEN x
  ELSE SetValue(x, x.default)

(* hildon_number_editor_validate_value *)
ValidateValue(x, intermediate) ==
  IF x.text \notin NotNumbers
  THEN IF AboveRange(x, intermediate) THEN SetValue(x, x.end)
       ELSE IF BelowRange(x, intermediate) THEN SetValue(x, x.start) ELSE x
  ELSE IF intermediate /\ (x.text = Empty \/ (x.text = Minus /\ x.start < 0)) THEN x
  ELSE SetValue(x, x.default)

(* The text of the entry is set or edited: hildon_number_editor_entry_changed. *)
EntryChanged(x, t) == ValidateValue([x EXCEPT !.text = t], TRUE)

(* Mutant: the value after a step is checked as one that is typed. *)
ChangeAsTyped(x, update) == EntryChanged(x, Wrap(EditorValue(x) + update))

(* change_numbers *)
ChangeNumbers(x, update) ==
  ValidateValue(EntryChanged(x, Wrap(EditorValue(x) + update)), FALSE)

(* Mutant: the range is kept as given. *)
SetRangeUnordered(x, min, max) == SetValue([x EXCEPT !.start = min, !.end = max], min)

(* hildon_number_editor_set_range *)
SetRange(x, min, max) ==
  LET low == IF min < max THEN min ELSE max
      high == IF min < max THEN max ELSE min
  IN SetValue([x EXCEPT !.start = low, !.end = high], low)

---------------------------------------------------------------------------
TypeNumber(t) == number.focused /\ number' = EntryChanged(number, t)

FocusNumber == ~number.focused /\ number' = [number EXCEPT !.focused = TRUE]

(* hildon_number_editor_entry_focusout *)
UnfocusNumber ==
  /\ number.focused
  /\ number' = ValidateValue([number EXCEPT !.focused = FALSE], FALSE)

(* The arrow keys at the ends of the text. *)
ArrowKey(update) == number.focused /\ number' = ChangeNumbers(number, update)

(* hildon_number_editor_button_pressed *)
PressNumberButton(update) ==
  /\ number.held = 0
  /\ number' = [(IF number.timer = "none" THEN ChangeNumbers(number, update) ELSE number)
                  EXCEPT !.held = update,
                         !.timer = IF @ = "none" THEN "initial" ELSE @]

(* Mutant: the timer that starts the repetition runs on. *)
ReleaseInitialKept ==
  /\ number.held # 0
  /\ number' = [number EXCEPT !.held = 0, !.timer = IF @ = "initial" THEN @ ELSE "none"]

(* hildon_number_editor_button_released *)
ReleaseNumberButton ==
  /\ number.held # 0
  /\ number' = [number EXCEPT !.held = 0, !.timer = "none"]

(* leave-notify-event, which stops the repetition but not the press. *)
LeaveNumberButton ==
  /\ number.timer # "none"
  /\ number' = [number EXCEPT !.timer = "none"]

(* hildon_number_editor_start_timer *)
StartRepeat == number.timer = "initial" /\ number' = [number EXCEPT !.timer = "repeat"]

(* do_mouse_timeout *)
MouseTimeout == number.timer = "repeat" /\ number' = ChangeNumbers(number, number.held)

AppSetsRange(min, max) == number' = SetRange(number, min, max)

AppSetsValue(v) == number' = SetValue(number, v)

NumberNext ==
  \/ \E t \in Typed : TypeNumber(t)
  \/ FocusNumber \/ UnfocusNumber \/ ReleaseNumberButton \/ LeaveNumberButton
  \/ StartRepeat \/ MouseTimeout
  \/ \E u \in {-1, 1} : ArrowKey(u) \/ PressNumberButton(u)
  \/ \E min, max \in Int32 : AppSetsRange(min, max)
  \/ \E v \in Int32 : AppSetsValue(v)

NumberSpec == NumberInit /\ [][NumberNext]_numberVars

---------------------------------------------------------------------------
(* Intermediate texts end with the editing: the editor left holds a value of *)
(* its range.                                                                *)
InRangeAtRest ==
  ~number.focused => number.text \in number.start .. number.end

(* From any text a step ends in the range, and from a value in the range it  *)
(* is one up or down or stops at the end.  (Not at the ends of the type, over *)
(* which the addition goes.)                                                 *)
StepsSaturate ==
  \A u \in {-1, 1} :
    LET v == EditorValue(number)
        next == ChangeNumbers(number, u).text
    IN /\ next \in number.start .. number.end
       /\ v \in number.start .. number.end /\ v + u \in Int32
            => next = IF v + u \in number.start .. number.end THEN v + u ELSE v

(* The repetition runs only while a button is held. *)
RepeatsWhileHeld == number.timer # "none" => number.held # 0

(* However it is typed and stepped, the number is in its range when the editor is *)
(* at rest, and the steps repeat while a button is held only. *)
NumberInv ==
  /\ NumberTypeOK
  /\ InRangeAtRest
  /\ StepsSaturate
  /\ RepeatsWhileHeld

=============================================================================
