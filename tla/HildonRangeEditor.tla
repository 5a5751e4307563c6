--------------------------- MODULE HildonRangeEditor ---------------------------
(***************************************************************************)
(* The range editor of libhildon1: two entries for the ends of a range     *)
(* within limits.  There is no state besides the texts, so that each entry *)
(* is checked against what the other one shows, also when the application  *)
(* sets them; and the limits set how many characters fit in.               *)
(***************************************************************************)
EXTENDS Integers, FiniteSets, EntryTexts, NullPointer

CONSTANTS
  Base,        \* of the numerals
  RangeTexts,  \* numbers the user types
  JunkNumber,  \* Junk is its numeral, followed by a letter
  RangeValues  \* numbers the application sets

Ends == {"low", "high"}

ASSUME RangeAssumption ==
  /\ Base \in Nat \ {0, 1}
  /\ RangeTexts \subseteq Int /\ RangeValues \subseteq Int /\ JunkNumber \in Int
  /\ NotNumbers \intersect Int = {} /\ None \notin Ends

VARIABLE range

rangeVars == <<range>>

RangeTypeOK ==
  /\ range.text \in [Ends -> Int \union NotNumbers]
  /\ range.focus \in Ends \union {None}
  /\ {range.min, range.max} \subseteq RangeValues /\ range.min <= range.max

RangeInit ==
  \E min, max \in RangeValues :
    /\ min < max
    /\ range = [text |-> [low |-> min, high |-> max], min |-> min, max |-> max, focus |-> None]

Lower(a, b) == IF a < b THEN a ELSE b
Higher(a, b) == IF a < b THEN b ELSE a

(* hildon_range_editor_get_lower, hildon_range_editor_get_higher: atoi, which *)
(* reads the number a text begins with.                                      *)
EndValue(x, e) ==
  CASE x.text[e] = Junk -> JunkNumber
    [] x.text[e] \in NotNumbers \ {Junk} -> 0
    [] OTHER -> x.text[e]

(* CLAMP *)
InLimits(x, v) == IF v > x.max THEN x.max ELSE IF v < x.min THEN x.min ELSE v

LowBound(x, e) == IF e = "low" THEN x.min ELSE EndValue(x, "low")

(* Mutant: each end is checked against the limits alone. *)
LimitsOnly(x, e) == x.max

HighBound(x, e) == IF e = "low" THEN EndValue(x, "high") ELSE x.max

TooHigh(v, max, intermediate) == v > max /\ (intermediate => max >= 0 \/ v >= 0)
TooLow(v, min, intermediate) == v < min /\ (intermediate => min < 0 \/ v < 0)

FailsHigh(x, e, intermediate) ==
  x.text[e] \notin NotNumbers /\ TooHigh(x.text[e], HighBound(x, e), intermediate)

FailsLow(x, e, intermediate) ==
  x.text[e] \notin NotNumbers /\ TooLow(x.text[e], LowBound(x, e), intermediate)

Fails(x, e, intermediate) ==
  \/ FailsHigh(x, e, intermediate) \/ FailsLow(x, e, intermediate)
  \/ /\ x.text[e] \in NotNumbers
     /\ ~(intermediate /\ (x.text[e] = Empty \/ (x.text[e] = Minus /\ LowBound(x, e) < 0)))

(* What is set instead of a number out of its bounds is checked again,       *)
(* without further effect; a text that is no number is left.                 *)
Corrected(x, e, intermediate) ==
  IF FailsHigh(x, e, intermediate)
  THEN [x EXCEPT !.text[e] = InLimits(x, HighBound(x, e))]
  ELSE IF FailsLow(x, e, intermediate)
  THEN [x EXCEPT !.text[e] = InLimits(x, LowBound(x, e))]
  ELSE x

(* gtk_widget_grab_focus, with the focus-out handler of the entry that has   *)
(* the focus: a focus taken back there is kept.                              *)
GrabFocus(x, e) ==
  IF x.focus \in {None, e} THEN [x EXCEPT !.focus = e]
  ELSE IF Fails(x, x.focus, FALSE) THEN Corrected(x, x.focus, FALSE)
  ELSE [x EXCEPT !.focus = e]

(* hildon_range_editor_entry_validate *)
ValidateEnd(x, e, intermediate) ==
  IF Fails(x, e, intermediate) THEN GrabFocus(Corrected(x, e, intermediate), e) ELSE x

(* gtk_entry_set_text and hildon_range_editor_entry_changed *)
SetText(x, e, t) ==
  IF t = x.text[e] THEN x ELSE ValidateEnd([x EXCEPT !.text[e] = t], e, TRUE)

(* hildon_range_editor_set_lower, hildon_range_editor_set_higher *)
SetEnd(x, e, v) == SetText(x, e, InLimits(x, v))

(* Mutant: start and end as they come. *)
SetRangeAsGiven(x, start, end) == SetEnd(SetEnd(x, "low", start), "high", end)

(* hildon_range_editor_set_range *)
RangeSet(x, start, end) ==
  SetEnd(SetEnd(x, "low", Lower(start, end)), "high", Higher(start, end))

Magnitude(v) == IF v < 0 THEN -v ELSE v
Numeral(v) == Cardinality({k \in 1 .. Magnitude(v) : Base ^ k <= Magnitude(v)}) + 1
NumberWidth(v) == IF v < 0 THEN Numeral(v) + 1 ELSE Numeral(v)
Width(v) ==
  CASE v = Junk -> NumberWidth(JunkNumber) + 1
    [] v \in NotNumbers \ {Junk} -> 1
    [] OTHER -> NumberWidth(v)

(* v \div Base ^ k: what the digits before the last k ones say. *)
WithoutLast(v, k) == Cardinality({q \in 1 .. v : q * Base ^ k <= v})

(* The first n characters of a number, of a text. *)
CutNumber(v, n) ==
  IF NumberWidth(v) <= n THEN v
  ELSE IF v < 0 /\ n = 1 THEN Minus
  ELSE IF v < 0 THEN -WithoutLast(-v, NumberWidth(v) - n)
  ELSE WithoutLast(v, NumberWidth(v) - n)

CutTo(v, n) ==
  IF Width(v) <= n THEN v ELSE CutNumber(IF v = Junk THEN JunkNumber ELSE v, n)

(* Mutant: the upper limit has the longer numeral. *)
RoomOfUpper(x) == Width(x.max)

Room(x) == Higher(Width(x.min), Width(x.max))

(* hildon_range_editor_refresh_widths *)
RefreshWidths(x) ==
  LET y == SetText(x, "low", CutTo(x.text["low"], Room(x)))
  IN SetText(y, "high", CutTo(y.text["high"], Room(y)))

(* hildon_range_editor_apply_current_range *)
ApplyCurrentRange(x) == RangeSet(x, EndValue(x, "low"), EndValue(x, "high"))

(* Mutant: the limits may cross. *)
SetMinAlone(x, v) == ApplyCurrentRange(RefreshWidths([x EXCEPT !.min = v]))

(* hildon_range_editor_set_min *)
SetMin(x, v) ==
  ApplyCurrentRange(RefreshWidths([x EXCEPT !.min = v, !.max = Higher(@, v)]))

(* hildon_range_editor_set_max *)
SetMax(x, v) ==
  ApplyCurrentRange(RefreshWidths([x EXCEPT !.max = v, !.min = Lower(@, v)]))

(* hildon_range_editor_set_limits *)
SetLimits(x, min, max) == SetMax(SetMin(x, min), max)

---------------------------------------------------------------------------
(* Typing one character after the other, as many as fit in. *)
TypeEnd(t) ==
  /\ range.focus # None /\ Width(t) <= Room(range)
  /\ range' = SetText(range, range.focus, t)

(* hildon_range_editor_entry_focus_out, also when the window loses the focus. *)
MoveRangeFocus(f) ==
  /\ f # None \/ range.focus # None
  /\ range' = IF range.focus = None THEN [range EXCEPT !.focus = f]
              ELSE IF Fails(range, range.focus, FALSE) THEN Corrected(range, range.focus, FALSE)
              ELSE [range EXCEPT !.focus = f]

AppSetsRangeEnds(start, end) == range' = RangeSet(range, start, end)

(* Is a number that the application sets for an end out of order, but taken  *)
(* for the beginning of one that is in order?  Nothing corrects it then: a    *)
(* higher end below the lower one if both are positive, a lower end above the *)
(* higher one if both are negative.                                          *)
TakenForTyping(x, e, v) ==
  LET y == [x EXCEPT !.text[e] = InLimits(x, v)]
  IN Fails(y, e, FALSE) /\ ~Fails(y, e, TRUE)

AppSetsEnd(e, v) ==
  /\ ~TakenForTyping(range, e, v)
  /\ range' = SetEnd(range, e, v)

AppSetsLimits(min, max) == min <= max /\ range' = SetLimits(range, min, max)
AppSetsMin(v) == range' = SetMin(range, v)
AppSetsMax(v) == range' = SetMax(range, v)

RangeNext ==
  \/ \E t \in RangeTexts \union NotNumbers : TypeEnd(t)
  \/ \E f \in Ends \union {None} : MoveRangeFocus(f)
  \/ \E start, end \in RangeValues : AppSetsRangeEnds(start, end) \/ AppSetsLimits(start, end)
  \/ \E v \in RangeValues : AppSetsMin(v) \/ AppSetsMax(v)
  \/ \E v \in RangeValues, e \in Ends : AppSetsEnd(e, v)

RangeSpec == RangeInit /\ [][RangeNext]_rangeVars

---------------------------------------------------------------------------
AtRest(x) == x.focus = None

(* However the ends have been typed and set, an editor left holds a range    *)
(* within the limits: get_range never returns the ends in the wrong order.   *)
RangeAtRest ==
  AtRest(range) =>
    /\ \A e \in Ends : range.text[e] \notin NotNumbers
    /\ range.min <= range.text["low"] /\ range.text["low"] <= range.text["high"]
    /\ range.text["high"] <= range.max

(* What hildon_range_editor_set_range makes of any two numbers: they are      *)
(* sorted and kept within the limits, and both are shown, but for a start     *)
(* that is not negative and lies above the end shown before.  The start is    *)
(* set first and checked against that end, which it then becomes.            *)
RangeTaken ==
  AtRest(range) =>
    \A start, end \in RangeValues :
      LET low == InLimits(range, Lower(start, end))
          before == range.text["high"]
      IN RangeSet(range, start, end).text =
           [low |-> IF low > before /\ low >= 0 THEN before ELSE low,
            high |-> InLimits(range, Higher(start, end))]

(* New limits leave a range that is within them alone, although they are set *)
(* one after the other and cut the texts.                                    *)
LimitsSpare ==
  AtRest(range) =>
    \A min, max \in RangeValues :
      min <= range.text["low"] /\ range.text["high"] <= max
        => SetLimits(range, min, max).text = range.text

(* At rest the two entries are a range within the limits, of what the        *)
(* application sets just a start above the old end is lost, and new limits    *)
(* move no more than they must.                                              *)
RangeInv ==
  /\ RangeTypeOK
  /\ RangeAtRest
  /\ RangeTaken
  /\ LimitsSpare

=============================================================================
