----------------------------- MODULE Editors_proofs -----------------------------
(***************************************************************************)
(* Proofs about the editors of libhildon1: a time editor shows the time it *)
(* returns, a date editor a date that exists, a range editor at rest two   *)
(* ends in order and within its limits, and a calendar selects a day that  *)
(* its month has.                                                          *)
(***************************************************************************)
EXTENDS HildonTimeEditor, HildonDateEditor, HildonCalendar, HildonRangeEditor,
        FiniteSetTheorems, TLAPS

-----------------------------------------------------------------------------
(* Ticks and their hours and minutes. *)
LEMMA TimeNumbers ==
  /\ HalfDay \in Nat /\ HalfDay > 0 /\ Minutes \in Nat /\ Minutes > 0 /\ MaxHours \in Nat
  /\ MaxDuration \in Nat /\ DayTicks \in Nat /\ DayTicks > 0
  /\ MaxDuration + 1 = (MaxHours + 1) * Minutes
  /\ DayTicks = 2 * HalfDay * Minutes
<1>1. HalfDay \in Nat /\ HalfDay > 0 /\ Minutes \in Nat /\ Minutes > 0 /\ MaxHours \in Nat
  BY TimeAssumption
<1>2. \A a, b \in Nat : a * b \in Nat /\ (a > 0 /\ b > 0 => a * b > 0)
  OBVIOUS
<1>3. MaxHours * Minutes \in Nat /\ (MaxHours + 1) * Minutes = MaxHours * Minutes + Minutes
  BY <1>1
<1>4. MaxDuration \in Nat /\ MaxDuration + 1 = (MaxHours + 1) * Minutes
  BY <1>1, <1>3 DEF MaxDuration
<1>5. 2 * HalfDay \in Nat /\ 2 * HalfDay > 0
  BY <1>1
<1> QED
  BY <1>1, <1>2, <1>4, <1>5 DEF DayTicks

LEMMA DivisionFact ==
  ASSUME NEW t \in Nat
  PROVE  /\ t \div Minutes \in Nat /\ t % Minutes \in 0 .. Minutes - 1
         /\ \A n \in Nat : t < n * Minutes => t \div Minutes < n
<1> DEFINE q == t \div Minutes
           r == t % Minutes
<1>1. q \in Nat /\ r \in 0 .. Minutes - 1 /\ t = Minutes * q + r
  BY TimeNumbers
<1> HIDE DEF q, r
<1>2. ASSUME NEW n \in Nat, n <= q PROVE n * Minutes <= t
  <2>1. PICK d \in Nat : q = n + d
    BY <1>1, <1>2
  <2>2. Minutes * q = n * Minutes + Minutes * d /\ Minutes * d \in Nat /\ n * Minutes \in Nat
    BY <2>1, TimeNumbers
  <2> QED
    BY <1>1, <2>2
<1>3. ASSUME NEW n \in Nat, t < n * Minutes PROVE q < n
  <2>1. n * Minutes \in Nat
    BY TimeNumbers
  <2> QED
    BY <1>1, <1>2, <1>3, <2>1
<1> QED
  BY <1>1, <1>3 DEF q, r

LEMMA TicksFact ==
  ASSUME NEW h \in Nat, NEW m \in Nat
  PROVE  /\ TicksOf(h, m) \in Nat
         /\ \A n \in Nat : h < n /\ m < Minutes => TicksOf(h, m) < n * Minutes
<1>1. h * Minutes \in Nat
  BY TimeNumbers
<1>2. ASSUME NEW n \in Nat, h < n, m < Minutes PROVE h * Minutes + m < n * Minutes
  <2>1. PICK d \in Nat : n = h + 1 + d
    BY <1>2
  <2>2. n * Minutes = h * Minutes + Minutes + d * Minutes /\ d * Minutes \in Nat
    BY <2>1, TimeNumbers
  <2> QED
    BY <1>1, <1>2, <2>2, TimeNumbers
<1> QED
  BY <1>1, <1>2 DEF TicksOf

-----------------------------------------------------------------------------
(* The inductive invariant of a time editor.  Beyond TimeInv: unless a bound  *)
(* has been moved over the other the range of a duration is not empty.       *)
TimeRecords ==
  [ticks : 0 .. Bigger(MaxDuration, DayTicks - 1),
   clock24 : BOOLEAN, am : BOOLEAN, duration : BOOLEAN, button : BOOLEAN,
   min : 0 .. MaxDuration, max : 0 .. MaxDuration,
   text : [Fields -> FieldText \union Digits \union NotDigits],
   focus : Fields \union {None}, error : Fields \union {None}, crossed : BOOLEAN]

TextShown(x) == x.text = [hours |-> ShownHours(x), minutes |-> x.ticks % Minutes]
InDay(x) == ~x.duration => x.ticks < DayTicks
HalfRight(x) == (~x.clock24 /\ ~x.duration) => (x.am <=> x.ticks < HalfDay * Minutes)
InItsRange(x) ==
  (x.duration /\ ~x.crossed) => (x.min <= x.max /\ x.min <= x.ticks /\ x.ticks <= x.max)
AtEase(x) ==
  (x.focus = None /\ x.error = None /\ \A f \in Fields : x.text[f] # Letters) => TextShown(x)

Timed(x) == x \in TimeRecords /\ InDay(x) /\ HalfRight(x) /\ InItsRange(x)
TimeIInv == Timed(time) /\ AtEase(time)

LEMMA TimeIInvImpliesInv == TimeIInv => TimeInv
<1> SUFFICES ASSUME TimeIInv PROVE TimeInv
  OBVIOUS
<1>1. TimeTypeOK
  BY DEF TimeIInv, Timed, InDay, TimeRecords, TimeTypeOK
<1>2. ShownInStep /\ HalvesInStep
  BY DEF TimeIInv, Timed, AtEase, TextShown, HalfRight, ShownInStep, HalvesInStep
<1>3. DurationInRange
  BY <1>1 DEF TimeIInv, Timed, InItsRange, DurationInRange, TimeTypeOK
<1> QED
  BY <1>1, <1>2, <1>3 DEF TimeInv

(* Nothing but the ticks, their texts and the half of the day. *)
SameEditor(x, n) ==
  /\ n.clock24 = x.clock24 /\ n.duration = x.duration /\ n.min = x.min /\ n.max = x.max
  /\ n.focus = x.focus /\ n.crossed = x.crossed

LEMMA RecordFact ==
  ASSUME NEW x \in TimeRecords
  PROVE  /\ x.ticks \in Nat /\ x.min \in Nat /\ x.max \in Nat
         /\ x.ticks <= MaxDuration \/ x.ticks < DayTicks
         /\ x.min <= MaxDuration /\ x.max <= MaxDuration
  BY TimeNumbers DEF TimeRecords, Bigger

LEMMA FixedFact ==
  ASSUME NEW x \in TimeRecords, NEW t \in Nat, NEW f, f = Fixed(x, t)
  PROVE  /\ f \in Nat /\ f \in 0 .. Bigger(MaxDuration, DayTicks - 1)
         /\ x.duration => f <= MaxDuration
         /\ ~x.duration => f < DayTicks
         /\ x.duration /\ x.min <= x.max => x.min <= f /\ f <= x.max
<1>1. CASE x.duration
  <2>1. f \in {t, x.min, x.max} /\ f <= MaxDuration
        /\ (x.min <= x.max => x.min <= f /\ f <= x.max)
    BY <1>1, RecordFact, TimeNumbers DEF Fixed, ClampTicks
  <2> QED
    BY <1>1, <2>1, RecordFact, TimeNumbers DEF Bigger
<1>2. CASE ~x.duration
  <2>1. f \in Nat /\ f < DayTicks
    <3>1. CASE t < DayTicks
      BY <1>2, <3>1 DEF Fixed
    <3>2. CASE ~(t < DayTicks)
      <4>1. f = TicksOf(2 * HalfDay - 1, t % Minutes)
        BY <1>2, <3>2 DEF Fixed
      <4>2. /\ 2 * HalfDay - 1 \in Nat /\ 2 * HalfDay \in Nat /\ t % Minutes \in Nat
            /\ 2 * HalfDay - 1 < 2 * HalfDay /\ t % Minutes < Minutes
        BY DivisionFact, TimeNumbers
      <4> DEFINE h == 2 * HalfDay - 1
                 m == t % Minutes
                 n == 2 * HalfDay
      <4> HIDE DEF h, m, n
      <4>3. TicksOf(h, m) \in Nat /\ TicksOf(h, m) < n * Minutes
        BY <4>2, TicksFact DEF h, m, n
      <4> QED
        BY <4>1, <4>3, TimeNumbers DEF h, m, n
    <3> QED
      BY <3>1, <3>2
  <2> QED
    BY <1>2, <2>1, TimeNumbers DEF Bigger
<1> QED
  BY <1>1, <1>2

LEMMA ShownFact ==
  ASSUME NEW x \in TimeRecords, InDay(x)
  PROVE  ShownHours(x) \in FieldText /\ x.ticks % Minutes \in FieldText
<1> DEFINE q == x.ticks \div Minutes
           r == x.ticks % Minutes
<1>1. q \in Nat /\ r \in 0 .. Minutes - 1
  BY RecordFact, DivisionFact
<1>2. q <= MaxHours \/ q < 2 * HalfDay
  <2>1. CASE x.ticks <= MaxDuration
    <3>1. MaxHours + 1 \in Nat /\ x.ticks < (MaxHours + 1) * Minutes
      BY <2>1, RecordFact, TimeNumbers
    <3> HIDE DEF q
    <3>2. q < MaxHours + 1
      BY <3>1, RecordFact, DivisionFact DEF q
    <3> QED
      BY <1>1, <3>2, TimeNumbers
  <2>2. CASE x.ticks < DayTicks
    <3>1. 2 * HalfDay \in Nat /\ x.ticks < (2 * HalfDay) * Minutes
      BY <2>2, TimeNumbers
    <3> QED
      BY <3>1, RecordFact, DivisionFact
  <2> QED
    BY <2>1, <2>2, RecordFact
<1>3. ~x.duration => q < 2 * HalfDay
  <2>1. 2 * HalfDay \in Nat /\ (InDay(x) /\ ~x.duration => x.ticks < (2 * HalfDay) * Minutes)
    BY TimeNumbers DEF InDay
  <2> QED
    BY <2>1, RecordFact, DivisionFact
<1> HIDE DEF q, r
<1>4. ShownHours(x) = q \/ (ShownHours(x) = To12(q) /\ q < 2 * HalfDay)
  BY <1>3 DEF ShownHours, q
<1>5. q \in FieldText /\ r \in FieldText
  BY <1>1, <1>2, TimeNumbers DEF FieldText, Bigger
<1>6. q < 2 * HalfDay => To12(q) \in FieldText
  <2>1. q < 2 * HalfDay => To12(q) \in Nat /\ To12(q) <= 2 * HalfDay
    BY <1>1, TimeNumbers DEF To12
  <2> QED
    BY <2>1, TimeNumbers DEF FieldText, Bigger
<1> QED
  BY <1>4, <1>5, <1>6 DEF r

(* hildon_time_editor_set_ticks puts the editor right. *)
LEMMA SetTicksFact ==
  ASSUME NEW x \in TimeRecords, NEW t \in Nat, NEW n, n = SetTicks(x, t)
  PROVE  /\ n \in TimeRecords /\ SameEditor(x, n) /\ n.error = x.error
         /\ n.ticks = Fixed(x, t) /\ InDay(n) /\ HalfRight(n) /\ TextShown(n)
         /\ (x.min <= x.max \/ x.crossed \/ ~x.duration) => InItsRange(n)
<1> DEFINE f == Fixed(x, t)
           y == [x EXCEPT !.ticks = f]
           texts == [hours |-> ShownHours(y), minutes |-> y.ticks % Minutes]
           m == [y EXCEPT !.text = texts]
<1>1. /\ f \in Nat /\ f \in 0 .. Bigger(MaxDuration, DayTicks - 1)
      /\ (~x.duration => f < DayTicks)
  BY FixedFact
<1> HIDE DEF f
<1>2. /\ y \in TimeRecords /\ SameEditor(x, y) /\ y.error = x.error /\ y.ticks = f
      /\ y.am = x.am
  BY <1>1 DEF TimeRecords, SameEditor
<1>3. InDay(y)
  BY <1>1, <1>2 DEF InDay, SameEditor
<1>4. n = [y EXCEPT !.text = texts,
                    !.am = IF x.clock24 \/ x.duration THEN y.am ELSE y.ticks < HalfDay * Minutes]
  BY <1>2 DEF SetTicks, f, TimeRecords
<1> HIDE DEF y
<1>5. texts \in [Fields -> FieldText \union Digits \union NotDigits]
  BY <1>2, <1>3, ShownFact DEF Fields
<1>6. PICK a \in BOOLEAN :
        a = IF x.clock24 \/ x.duration THEN y.am ELSE y.ticks < HalfDay * Minutes
  <2>1. CASE x.clock24 \/ x.duration
    BY <1>2, <2>1 DEF TimeRecords
  <2>2. CASE ~(x.clock24 \/ x.duration) /\ y.ticks < HalfDay * Minutes
    <3>1. (IF x.clock24 \/ x.duration THEN y.am ELSE y.ticks < HalfDay * Minutes) = TRUE
      BY <2>2
    <3> QED
      BY <3>1, Zenon
  <2>3. CASE ~(x.clock24 \/ x.duration) /\ ~(y.ticks < HalfDay * Minutes)
    <3>1. (IF x.clock24 \/ x.duration THEN y.am ELSE y.ticks < HalfDay * Minutes) = FALSE
      BY <2>3
    <3> QED
      BY <3>1, Zenon
  <2> QED
    BY <2>1, <2>2, <2>3
<1>7. n = [y EXCEPT !.text = texts, !.am = a]
  BY <1>4, <1>6
<1>8. ~x.clock24 /\ ~x.duration => (a <=> y.ticks < HalfDay * Minutes)
  BY <1>6
<1>9. ShownHours(y) = ShownHours([ticks |-> y.ticks, clock24 |-> y.clock24, duration |-> y.duration])
  BY DEF ShownHours
<1> HIDE DEF texts
<1>10. /\ n \in TimeRecords /\ n.clock24 = y.clock24 /\ n.duration = y.duration
       /\ n.min = y.min /\ n.max = y.max /\ n.focus = y.focus /\ n.crossed = y.crossed
       /\ n.error = y.error /\ n.ticks = y.ticks /\ n.text = texts /\ n.am = a
  BY <1>2, <1>5, <1>7 DEF TimeRecords
<1>11. SameEditor(x, n) /\ n.error = x.error /\ n.ticks = f
  BY <1>2, <1>10 DEF SameEditor
<1>12. InDay(n) /\ HalfRight(n)
  BY <1>2, <1>3, <1>8, <1>10 DEF InDay, HalfRight, SameEditor
<1>13. TextShown(n)
  BY <1>10 DEF TextShown, ShownHours, texts
<1>14. f = Fixed(x, t)
  BY DEF f
<1>15. (x.min <= x.max \/ x.crossed \/ ~x.duration) => InItsRange(n)
  <2>1. (x.duration /\ x.min <= x.max) => (x.min <= f /\ f <= x.max)
    BY <1>14, FixedFact
  <2> QED
    BY <1>11, <2>1 DEF InItsRange, SameEditor
<1> QED
  BY <1>10, <1>11, <1>12, <1>13, <1>14, <1>15

-----------------------------------------------------------------------------
(* Leaving a field. *)
LEMMA ConversionFact ==
  ASSUME NEW t \in FieldText \union Digits \union NotDigits, NEW low \in Nat, NEW high \in Nat,
         NEW default \in Nat, NEW inter \in BOOLEAN,
         NEW c, c = Conversion(t, low, high, default, inter)
  PROVE  /\ c.value \in Nat \/ c.value = -1
         /\ (c.value = -1 /\ ~inter) => c.error
<1>1. t \in NotDigits \/ t \in Nat
  BY TimeAssumption, TimeNumbers DEF FieldText
<1>2. CASE t \notin NotDigits
  BY <1>1, <1>2 DEF Conversion
<1>3. CASE t \in NotDigits
  BY <1>3 DEF Conversion
<1> QED
  BY <1>2, <1>3

(* Nothing but the error. *)
LEMMA ErrorFact ==
  ASSUME NEW x, Timed(x), NEW f \in Fields, NEW n, n = [x EXCEPT !.error = f]
  PROVE  /\ Timed(n) /\ SameEditor(x, n) /\ n.error = f
         /\ n.text = x.text /\ n.ticks = x.ticks /\ n.am = x.am
<1>1. x \in TimeRecords
  BY DEF Timed
<1>2. n \in TimeRecords
  BY <1>1 DEF TimeRecords
<1>3. /\ SameEditor(x, n) /\ n.text = x.text /\ n.ticks = x.ticks /\ n.am = x.am /\ n.error = f
  BY <1>1 DEF TimeRecords, SameEditor
<1>4. InDay(n) /\ HalfRight(n) /\ InItsRange(n)
  BY <1>3 DEF Timed, InDay, HalfRight, InItsRange, SameEditor
<1> QED
  BY <1>2, <1>3, <1>4 DEF Timed

LEMMA MarkFact ==
  ASSUME NEW x, Timed(x), NEW f \in Fields, NEW c, NEW n, n = Mark(x, f, c)
  PROVE  /\ Timed(n) /\ SameEditor(x, n)
         /\ n.error = IF c.error THEN f ELSE x.error
<1>1. CASE ~c.error
  BY <1>1 DEF Mark, SameEditor
<1>2. CASE c.error
  BY <1>2, ErrorFact DEF Mark
<1> QED
  BY <1>1, <1>2

LEMMA TimedSetTicks ==
  ASSUME NEW x, Timed(x), NEW t \in Nat, NEW n, n = SetTicks(x, t)
  PROVE  Timed(n) /\ SameEditor(x, n) /\ n.error = x.error /\ TextShown(n)
<1>1. x \in TimeRecords /\ (x.min <= x.max \/ x.crossed \/ ~x.duration)
  BY DEF Timed, InItsRange, TimeRecords
<1> QED
  BY <1>1, SetTicksFact DEF Timed

LEMMA ApplyFact ==
  ASSUME NEW x, Timed(x), NEW h \in Nat, NEW m \in Nat, NEW inter \in BOOLEAN,
         NEW n, n = ApplyFields(x, h, m, inter)
  PROVE  /\ Timed(n) /\ SameEditor(x, n)
         /\ ~inter => n.error # None \/ TextShown(n)
<1>1. x \in TimeRecords /\ x.min \in Nat /\ x.max \in Nat
  BY RecordFact DEF Timed
<1>2. "hours" \in Fields /\ "hours" # None
  BY TimeAssumption DEF Fields
<1>3. CASE x.duration /\ TicksOf(h, m) < x.min /\ ~inter
  <2> DEFINE s == SetTicks(x, x.min)
  <2>1. Timed(s) /\ SameEditor(x, s)
    BY <1>1, TimedSetTicks
  <2>2. n = [s EXCEPT !.error = "hours"]
    BY <1>3 DEF ApplyFields
  <2> HIDE DEF s
  <2>3. Timed(n) /\ SameEditor(s, n) /\ n.error = "hours"
    BY <1>2, <2>1, <2>2, ErrorFact
  <2> QED
    BY <1>2, <2>1, <2>3 DEF SameEditor
<1>4. CASE ~(x.duration /\ TicksOf(h, m) < x.min /\ ~inter) /\ x.duration /\ TicksOf(h, m) > x.max
  <2> DEFINE s == SetTicks(x, x.max)
  <2>1. Timed(s) /\ SameEditor(x, s)
    BY <1>1, TimedSetTicks
  <2>2. n = [s EXCEPT !.error = "hours"]
    BY <1>4 DEF ApplyFields
  <2> HIDE DEF s
  <2>3. Timed(n) /\ SameEditor(s, n) /\ n.error = "hours"
    BY <1>2, <2>1, <2>2, ErrorFact
  <2> QED
    BY <1>2, <2>1, <2>3 DEF SameEditor
<1>5. CASE /\ ~(x.duration /\ TicksOf(h, m) < x.min /\ ~inter)
           /\ ~(x.duration /\ TicksOf(h, m) > x.max)
           /\ inter /\ x.error = None
  <2>1. n = x
    BY <1>5 DEF ApplyFields
  <2> QED
    BY <1>5, <2>1 DEF SameEditor
<1>6. CASE /\ ~(x.duration /\ TicksOf(h, m) < x.min /\ ~inter)
           /\ ~(x.duration /\ TicksOf(h, m) > x.max)
           /\ ~(inter /\ x.error = None)
  <2> DEFINE k == IF x.clock24 \/ x.duration THEN h ELSE To24(h, x.am)
             t == TicksOf(k, m)
  <2>1. k \in Nat
    BY TimeNumbers DEF To24
  <2>2. n = SetTicks(x, t)
    BY <1>6 DEF ApplyFields
  <2> HIDE DEF k
  <2>3. t \in Nat
    BY <2>1, TicksFact
  <2> HIDE DEF t
  <2> QED
    BY <2>2, <2>3, TimedSetTicks
<1> QED
  BY <1>3, <1>4, <1>5, <1>6

LEMMA ValidateFact ==
  ASSUME NEW x, Timed(x), NEW inter \in BOOLEAN, NEW n, n = Validate(x, inter)
  PROVE  /\ Timed(n) /\ SameEditor(x, n)
         /\ x.error # None => n = x
         /\ ~inter => n.error # None \/ TextShown(n)
<1>1. CASE x.error # None
  BY <1>1 DEF Validate, SameEditor
<1>2. CASE x.error = None
  <2> DEFINE h == Conversion(x.text["hours"], LowHours(x), HighHours(x),
                             x.ticks \div Minutes, inter)
             m == Conversion(x.text["minutes"], 0, Minutes - 1, x.ticks % Minutes, inter)
             y == Mark(x, "hours", h)
             z == Mark(y, "minutes", m)
  <2>1. /\ x \in TimeRecords /\ x.ticks \in Nat /\ x.min \in Nat /\ x.max \in Nat
    BY RecordFact DEF Timed
  <2>2. /\ x.text["hours"] \in FieldText \union Digits \union NotDigits
        /\ x.text["minutes"] \in FieldText \union Digits \union NotDigits
    BY <2>1 DEF TimeRecords, Fields
  <2>3. LowHours(x) \in Nat /\ HighHours(x) \in Nat
    <3>1. x.min \div Minutes \in Nat /\ x.max \div Minutes \in Nat
      BY <2>1, DivisionFact
    <3> QED
      BY <3>1, TimeNumbers DEF LowHours, HighHours
  <2>4. x.ticks \div Minutes \in Nat /\ x.ticks % Minutes \in Nat
    BY <2>1, DivisionFact
  <2>5. /\ h.value \in Nat \/ h.value = -1
        /\ (h.value = -1 /\ ~inter) => h.error
    BY <2>2, <2>3, <2>4, ConversionFact
  <2>6. /\ m.value \in Nat \/ m.value = -1
        /\ (m.value = -1 /\ ~inter) => m.error
    <3> DEFINE low == 0
               high == Minutes - 1
    <3>1. low \in Nat /\ high \in Nat
      BY TimeNumbers
    <3>2. m = Conversion(x.text["minutes"], low, high, x.ticks % Minutes, inter)
      OBVIOUS
    <3> HIDE DEF low, high, m
    <3> QED
      BY <2>2, <2>4, <3>1, <3>2, ConversionFact
  <2>7. "hours" \in Fields /\ "minutes" \in Fields /\ None \notin Fields
    BY TimeAssumption DEF Fields
  <2>8. n = IF h.value = -1 THEN y ELSE IF m.value = -1 THEN z
            ELSE ApplyFields(z, h.value, m.value, inter)
    BY <1>2, Zenon DEF Validate
  <2> HIDE DEF h, m
  <2>9. Timed(y) /\ SameEditor(x, y) /\ (h.error => y.error = "hours")
    BY <2>7, MarkFact
  <2> HIDE DEF y
  <2>10. z = Mark(y, "minutes", m)
    OBVIOUS
  <2> HIDE DEF z
  <2>11. Timed(z) /\ SameEditor(y, z) /\ SameEditor(x, z) /\ (m.error => z.error = "minutes")
    <3>1. Timed(z) /\ SameEditor(y, z) /\ (m.error => z.error = "minutes")
      BY ONLY <2>7, <2>9, <2>10, MarkFact
    <3> QED
      BY <2>9, <3>1 DEF SameEditor
  <2>12. CASE h.value = -1
    BY <1>2, <2>5, <2>7, <2>8, <2>9, <2>12
  <2>13. CASE h.value # -1 /\ m.value = -1
    BY <1>2, <2>6, <2>7, <2>8, <2>11, <2>13
  <2>14. CASE h.value # -1 /\ m.value # -1
    <3>1. n = ApplyFields(z, h.value, m.value, inter) /\ h.value \in Nat /\ m.value \in Nat
      BY <2>5, <2>6, <2>8, <2>14
    <3>2. Timed(n) /\ SameEditor(z, n) /\ (~inter => n.error # None \/ TextShown(n))
      BY <2>11, <3>1, ApplyFact
    <3> QED
      BY <1>2, <2>11, <3>2 DEF SameEditor
  <2> QED
    BY <2>12, <2>13, <2>14
<1> QED
  BY <1>1, <1>2

-----------------------------------------------------------------------------
(* The focus, the bounds, and the mode. *)
LEMMA FocusFact ==
  ASSUME NEW x, Timed(x), NEW f \in Fields \union {None}, NEW n, n = [x EXCEPT !.focus = f]
  PROVE  /\ Timed(n) /\ n.focus = f /\ n.error = x.error /\ n.text = x.text
         /\ TextShown(x) => TextShown(n)
<1>1. x \in TimeRecords
  BY DEF Timed
<1>2. n \in TimeRecords
  BY <1>1 DEF TimeRecords
<1>3. /\ n.text = x.text /\ n.ticks = x.ticks /\ n.am = x.am /\ n.error = x.error /\ n.focus = f
      /\ n.clock24 = x.clock24 /\ n.duration = x.duration /\ n.min = x.min /\ n.max = x.max
      /\ n.crossed = x.crossed
  BY <1>1 DEF TimeRecords
<1>4. InDay(n) /\ HalfRight(n) /\ InItsRange(n)
  BY <1>3 DEF Timed, InDay, HalfRight, InItsRange
<1> QED
  BY <1>2, <1>3, <1>4 DEF Timed, TextShown, ShownHours

LEMMA NoFocus == None \notin Fields
  BY TimeAssumption DEF Fields

LEMMA MoveFocusKeeps ==
  ASSUME TimeIInv, NEW f \in Fields \union {None}, MoveFocus(f)
  PROVE  TimeIInv'
<1> DEFINE x == IF time.focus = None THEN time ELSE Validate(time, FALSE)
<1>1. time' = [x EXCEPT !.focus = f]
  BY DEF MoveFocus
<1>2. Timed(x) /\ (time.focus # None => x.error # None \/ TextShown(x))
  <2>1. CASE time.focus = None
    BY <2>1 DEF TimeIInv
  <2>2. CASE time.focus # None
    BY <2>2, ValidateFact DEF TimeIInv
  <2> QED
    BY <2>1, <2>2
<1> HIDE DEF x
<1>3. Timed(time') /\ time'.focus = f /\ time'.error = x.error /\ (TextShown(x) => TextShown(time'))
  BY <1>1, <1>2, FocusFact
<1> QED
  BY <1>2, <1>3 DEF TimeIInv, AtEase, MoveFocus

LEMMA TypeFieldKeeps ==
  ASSUME TimeIInv, NEW t \in Digits \union NotDigits, NEW full \in BOOLEAN, TypeField(t, full)
  PROVE  TimeIInv'
<1> DEFINE y == [time EXCEPT !.text[time.focus] = t]
           x == Validate(y, TRUE)
           z == Validate(x, FALSE)
<1>1. time \in TimeRecords /\ time.focus \in Fields
  BY DEF TimeIInv, Timed, TypeField, TimeRecords
<1>2. Timed(y) /\ y.focus = time.focus
  <2>1. y \in TimeRecords
    BY <1>1 DEF TimeRecords
  <2>2. /\ y.ticks = time.ticks /\ y.am = time.am /\ y.clock24 = time.clock24
        /\ y.duration = time.duration /\ y.min = time.min /\ y.max = time.max
        /\ y.crossed = time.crossed /\ y.focus = time.focus
    BY <1>1 DEF TimeRecords
  <2> QED
    BY <2>1, <2>2 DEF TimeIInv, Timed, InDay, HalfRight, InItsRange
<1>3. time' = IF full /\ time.focus = "hours" /\ x.error = None
              THEN [z EXCEPT !.focus = "minutes"] ELSE x
  BY DEF TypeField
<1> HIDE DEF y
<1>4. Timed(x) /\ x.focus = time.focus
  BY <1>2, ValidateFact DEF SameEditor
<1> HIDE DEF x
<1>5. Timed(z)
  BY <1>4, ValidateFact
<1> HIDE DEF z
<1>6. "minutes" \in Fields
  BY DEF Fields
<1>7. Timed(time') /\ time'.focus \in Fields
  <2>1. CASE time' = [z EXCEPT !.focus = "minutes"]
    BY <1>5, <1>6, <2>1, FocusFact
  <2>2. CASE time' = x
    BY <1>1, <1>4, <2>2
  <2> QED
    BY <1>3, <2>1, <2>2
<1> QED
  BY <1>7, NoFocus DEF TimeIInv, AtEase

LEMMA HighlightKeeps ==
  ASSUME TimeIInv, Highlight
  PROVE  TimeIInv'
<1>1. time \in TimeRecords /\ time.error \in Fields
  BY DEF TimeIInv, Timed, TimeRecords, Highlight
<1>2. time' = [time EXCEPT !.error = None, !.focus = time.error]
  BY DEF Highlight
<1>3. time' \in TimeRecords
  BY <1>1, <1>2 DEF TimeRecords
<1>4. /\ time'.ticks = time.ticks /\ time'.am = time.am /\ time'.clock24 = time.clock24
      /\ time'.duration = time.duration /\ time'.min = time.min /\ time'.max = time.max
      /\ time'.crossed = time.crossed /\ time'.focus \in Fields
  BY <1>1, <1>2 DEF TimeRecords
<1> QED
  BY <1>3, <1>4, NoFocus DEF TimeIInv, Timed, InDay, HalfRight, InItsRange, AtEase

LEMMA AmPmKeeps ==
  ASSUME TimeIInv, AmPmClicked
  PROVE  TimeIInv'
<1> DEFINE x == Validate(time, FALSE)
           half == HalfDay * Minutes
           moved == IF x.am THEN {x.ticks + half}
                    ELSE IF x.ticks >= half THEN {x.ticks - half} ELSE {DayTicks + m : m \in 0 .. Minutes - 1}
<1>1. PICK t \in moved : time' = SetTicks(x, t)
  BY DEF AmPmClicked
<1>2. Timed(x)
  BY ValidateFact DEF TimeIInv
<1> HIDE DEF x
<1>3. x.ticks \in Nat
  BY <1>2, RecordFact DEF Timed
<1>4. half \in Nat /\ DayTicks \in Nat /\ Minutes \in Nat
  BY TimeNumbers
<1> HIDE DEF half
<1>5. t \in Nat
  BY <1>3, <1>4
<1> QED
  BY <1>1, <1>2, <1>5, TimedSetTicks DEF TimeIInv, AtEase

LEMMA IconKeeps ==
  ASSUME TimeIInv, NEW t \in Times, IconClicked(t)
  PROVE  TimeIInv'
<1> DEFINE x == Validate(time, FALSE)
<1>1. time' = x \/ time' = SetTicks(x, t)
  BY DEF IconClicked
<1>2. Timed(x) /\ (x.error # None \/ TextShown(x))
  BY ValidateFact DEF TimeIInv
<1>3. t \in Nat
  BY TimeAssumption
<1> HIDE DEF x
<1> QED
  BY <1>1, <1>2, <1>3, TimedSetTicks DEF TimeIInv, AtEase

LEMMA AppSetsKeeps ==
  ASSUME TimeIInv, NEW t \in Times, AppSetsTicks(t)
  PROVE  TimeIInv'
<1>1. t \in Nat
  BY TimeAssumption
<1> QED
  BY <1>1, TimedSetTicks DEF TimeIInv, AtEase, AppSetsTicks

(* hildon_time_editor_set_duration_min and _max on any record. *)
LEMMA WithMinFact ==
  ASSUME NEW x \in TimeRecords, InDay(x), NEW t \in 0 .. MaxDuration, NEW n, n = WithMin(x, t)
  PROVE  /\ n \in TimeRecords /\ n.min = t /\ n.max = x.max /\ n.duration = x.duration
         /\ n.crossed = x.crossed /\ n.focus = x.focus /\ n.error = x.error
         /\ InDay(n) /\ (x.duration => HalfRight(n))
         /\ x.duration /\ t <= x.max /\ x.ticks <= x.max => t <= n.ticks /\ n.ticks <= n.max
         /\ (n.text = x.text /\ (TextShown(x) => TextShown(n))) \/ TextShown(n)
<1> DEFINE y == [x EXCEPT !.min = t]
<1>1. t \in Nat /\ x.ticks \in Nat
  BY TimeNumbers, RecordFact
<1>2. /\ y \in TimeRecords /\ y.min = t /\ y.max = x.max /\ y.duration = x.duration
      /\ y.crossed = x.crossed /\ y.focus = x.focus /\ y.error = x.error /\ y.clock24 = x.clock24
      /\ y.ticks = x.ticks /\ y.text = x.text
  BY DEF TimeRecords
<1>3. n = IF x.ticks < t THEN SetTicks(y, t) ELSE y
  BY DEF WithMin
<1> HIDE DEF y
<1>4. y.max \in Nat
  BY <1>2, RecordFact
<1>5. CASE x.ticks < t
  <2>1. /\ n \in TimeRecords /\ SameEditor(y, n) /\ n.error = y.error /\ n.ticks = Fixed(y, t)
        /\ InDay(n) /\ HalfRight(n) /\ TextShown(n)
    BY ONLY <1>1, <1>2, <1>3, <1>5, SetTicksFact
  <2>2. y.duration /\ y.min <= y.max => y.min <= n.ticks /\ n.ticks <= y.max
    BY <1>1, <1>2, <2>1, FixedFact
  <2> QED
    BY <1>2, <2>1, <2>2 DEF SameEditor
<1>6. CASE ~(x.ticks < t)
  BY <1>1, <1>2, <1>3, <1>4, <1>6 DEF InDay, HalfRight, TextShown, ShownHours
<1> QED
  BY <1>5, <1>6

LEMMA WithMaxFact ==
  ASSUME NEW x \in TimeRecords, InDay(x), NEW t \in 0 .. MaxDuration, NEW n, n = WithMax(x, t)
  PROVE  /\ n \in TimeRecords /\ n.max = t /\ n.min = x.min /\ n.duration = x.duration
         /\ n.crossed = x.crossed /\ n.focus = x.focus /\ n.error = x.error
         /\ InDay(n) /\ (x.duration => HalfRight(n))
         /\ x.duration /\ x.min <= t /\ x.min <= x.ticks => n.min <= n.ticks /\ n.ticks <= t
         /\ (n.text = x.text /\ (TextShown(x) => TextShown(n))) \/ TextShown(n)
<1> DEFINE y == [x EXCEPT !.max = t]
<1>1. t \in Nat /\ x.ticks \in Nat
  BY TimeNumbers, RecordFact
<1>2. /\ y \in TimeRecords /\ y.max = t /\ y.min = x.min /\ y.duration = x.duration
      /\ y.crossed = x.crossed /\ y.focus = x.focus /\ y.error = x.error /\ y.clock24 = x.clock24
      /\ y.ticks = x.ticks /\ y.text = x.text
  BY DEF TimeRecords
<1>3. n = IF x.ticks > t THEN SetTicks(y, t) ELSE y
  BY DEF WithMax
<1> HIDE DEF y
<1>4. y.min \in Nat
  BY <1>2, RecordFact
<1>5. CASE x.ticks > t
  <2>1. /\ n \in TimeRecords /\ SameEditor(y, n) /\ n.error = y.error /\ n.ticks = Fixed(y, t)
        /\ InDay(n) /\ HalfRight(n) /\ TextShown(n)
    BY ONLY <1>1, <1>2, <1>3, <1>5, SetTicksFact
  <2>2. y.duration /\ y.min <= y.max => y.min <= n.ticks /\ n.ticks <= y.max
    BY <1>1, <1>2, <2>1, FixedFact
  <2> QED
    BY <1>2, <2>1, <2>2 DEF SameEditor
<1>6. CASE ~(x.ticks > t)
  BY <1>1, <1>2, <1>3, <1>4, <1>6 DEF InDay, HalfRight, TextShown, ShownHours
<1> QED
  BY <1>5, <1>6

LEMMA CrossedFact ==
  ASSUME NEW x \in TimeRecords, NEW c \in BOOLEAN, NEW n, n = [x EXCEPT !.crossed = c]
  PROVE  /\ n \in TimeRecords /\ n.crossed = c /\ n.text = x.text /\ n.error = x.error
         /\ n.focus = x.focus /\ n.duration = x.duration /\ n.ticks = x.ticks
         /\ n.min = x.min /\ n.max = x.max
         /\ (InDay(x) => InDay(n)) /\ (HalfRight(x) => HalfRight(n))
         /\ (TextShown(x) => TextShown(n))
<1>1. /\ n \in TimeRecords /\ n.crossed = c /\ n.text = x.text /\ n.error = x.error
      /\ n.focus = x.focus /\ n.duration = x.duration /\ n.ticks = x.ticks
      /\ n.min = x.min /\ n.max = x.max /\ n.clock24 = x.clock24 /\ n.am = x.am
  BY DEF TimeRecords
<1> QED
  BY <1>1 DEF InDay, HalfRight, TextShown, ShownHours

(* hildon_time_editor_set_duration_range: the duration becomes the minimum. *)
LEMMA WithRangeFact ==
  ASSUME NEW x \in TimeRecords, InDay(x), x.duration,
         NEW low \in 0 .. MaxDuration, NEW high \in 0 .. MaxDuration, low <= high,
         NEW r, r = WithRange(x, low, high)
  PROVE  /\ r \in TimeRecords /\ InDay(r) /\ HalfRight(r) /\ TextShown(r)
         /\ r.min <= r.max /\ r.min <= r.ticks /\ r.ticks <= r.max
<1> DEFINE a == WithMax(x, high)
           b == WithMin(a, low)
<1>1. a \in TimeRecords /\ InDay(a) /\ a.max = high /\ a.duration
  BY WithMaxFact
<1>2. r = SetTicks(b, low)
  BY DEF WithRange
<1> HIDE DEF a
<1>3. b \in TimeRecords /\ b.max = high /\ b.min = low /\ b.duration
  BY <1>1, WithMinFact
<1> HIDE DEF b
<1>4. low \in Nat /\ high \in Nat
  BY TimeNumbers
<1>5. /\ r \in TimeRecords /\ SameEditor(b, r) /\ r.ticks = Fixed(b, low)
      /\ InDay(r) /\ HalfRight(r) /\ TextShown(r)
  BY ONLY <1>2, <1>3, <1>4, SetTicksFact
<1>6. low <= r.ticks /\ r.ticks <= high
  BY ONLY <1>3, <1>4, <1>5, FixedFact, low <= high
<1> QED
  BY <1>3, <1>5, <1>6 DEF SameEditor

LEMMA UncrossedFact ==
  ASSUME NEW r \in TimeRecords, InDay(r), HalfRight(r), TextShown(r),
         r.min <= r.max, r.min <= r.ticks, r.ticks <= r.max,
         NEW c \in BOOLEAN, NEW n, n = [r EXCEPT !.crossed = c]
  PROVE  Timed(n) /\ AtEase(n)
<1>1. /\ n \in TimeRecords /\ n.ticks = r.ticks /\ n.min = r.min /\ n.max = r.max
      /\ InDay(n) /\ HalfRight(n) /\ TextShown(n)
  BY CrossedFact
<1>2. InItsRange(n)
  BY <1>1 DEF InItsRange
<1> QED
  BY <1>1, <1>2 DEF Timed, AtEase

LEMMA ModeKeeps ==
  ASSUME TimeIInv, NEW t \in Times \intersect 0 .. DayTicks - 1, NEW d \in BOOLEAN,
         SetDurationMode(d, t)
  PROVE  TimeIInv'
<1> DEFINE x == [time EXCEPT !.duration = d, !.button = ~d]
<1>1. time \in TimeRecords /\ time.duration = ~d
  BY DEF TimeIInv, Timed, TimeRecords, SetDurationMode
<1>2. x \in TimeRecords /\ x.duration = d /\ x.focus = time.focus /\ x.error = time.error
  BY <1>1 DEF TimeRecords
<1>3. time' = IF d THEN [WithRange(x, 0, MaxDuration) EXCEPT !.crossed = FALSE] ELSE SetTicks(x, t)
  BY DEF SetDurationMode
<1> HIDE DEF x
<1>4. CASE d
  <2>1. InDay(x)
    BY <1>2, <1>4 DEF InDay
  <2>2. /\ 0 \in 0 .. MaxDuration /\ MaxDuration \in 0 .. MaxDuration /\ 0 <= MaxDuration
    BY TimeNumbers
  <2> DEFINE r == WithRange(x, 0, MaxDuration)
  <2>3. time' = [r EXCEPT !.crossed = FALSE]
    BY <1>3, <1>4
  <2> DEFINE z == 0
  <2>4. r = WithRange(x, z, MaxDuration) /\ z \in 0 .. MaxDuration /\ z <= MaxDuration
    BY <2>2
  <2> HIDE DEF r, z
  <2>5. /\ r \in TimeRecords /\ InDay(r) /\ HalfRight(r) /\ TextShown(r)
        /\ r.min <= r.max /\ r.min <= r.ticks /\ r.ticks <= r.max
    BY <1>2, <1>4, <2>1, <2>2, <2>4, WithRangeFact
  <2>6. PICK c \in BOOLEAN : time' = [r EXCEPT !.crossed = c]
    BY <2>3, Zenon
  <2> QED
    BY <2>5, <2>6, UncrossedFact DEF TimeIInv
<1>5. CASE ~d
  <2>1. t \in Nat
    BY TimeAssumption
  <2>2. time' \in TimeRecords /\ SameEditor(x, time') /\ InDay(time') /\ HalfRight(time') /\ TextShown(time')
    BY <1>2, <1>3, <1>5, <2>1, SetTicksFact
  <2> QED
    BY <1>2, <1>5, <2>2 DEF TimeIInv, Timed, AtEase, InItsRange, SameEditor
<1> QED
  BY <1>4, <1>5

LEMMA SetMinKeeps ==
  ASSUME TimeIInv, NEW t \in Durations, SetDurationMin(t)
  PROVE  TimeIInv'
<1> DEFINE y == WithMin(time, t)
           c == y.crossed \/ t > time.max
<1>1. time \in TimeRecords /\ InDay(time) /\ time.duration /\ InItsRange(time)
  BY DEF TimeIInv, Timed, SetDurationMin
<1>2. t \in 0 .. MaxDuration
  BY DEF Durations
<1>3. /\ y \in TimeRecords /\ y.min = t /\ y.max = time.max /\ y.duration
      /\ y.crossed = time.crossed /\ y.focus = time.focus /\ y.error = time.error
      /\ InDay(y) /\ HalfRight(y)
      /\ t <= time.max /\ time.ticks <= time.max => t <= y.ticks /\ y.ticks <= y.max
      /\ (y.text = time.text /\ (TextShown(time) => TextShown(y))) \/ TextShown(y)
  BY <1>1, <1>2, WithMinFact
<1> HIDE DEF y
<1>4. time' = [y EXCEPT !.crossed = c]
  BY <1>3 DEF SetDurationMin, TimeRecords, y
<1>5. PICK b \in BOOLEAN : b = c
  BY Zenon
<1>6. time' = [y EXCEPT !.crossed = b] /\ (b <=> (time.crossed \/ t > time.max))
  BY <1>3, <1>4, <1>5
<1> HIDE DEF c
<1>7. /\ time' \in TimeRecords /\ time'.crossed = b /\ time'.text = y.text
      /\ time'.error = time.error /\ time'.focus = time.focus /\ time'.duration
      /\ time'.ticks = y.ticks /\ time'.min = t /\ time'.max = time.max
      /\ InDay(time') /\ HalfRight(time') /\ (TextShown(y) => TextShown(time'))
  BY <1>3, <1>6, CrossedFact
<1>8. time.max \in Nat /\ t \in Nat
  BY <1>1, <1>2, RecordFact, TimeNumbers
<1>9. InItsRange(time')
  BY <1>1, <1>3, <1>6, <1>7, <1>8 DEF InItsRange
<1>10. AtEase(time')
  BY <1>3, <1>7 DEF TimeIInv, AtEase
<1> QED
  BY <1>7, <1>9, <1>10 DEF TimeIInv, Timed

LEMMA SetMaxKeeps ==
  ASSUME TimeIInv, NEW t \in Durations, SetDurationMax(t)
  PROVE  TimeIInv'
<1> DEFINE y == WithMax(time, t)
           c == y.crossed \/ t < time.min
<1>1. time \in TimeRecords /\ InDay(time) /\ time.duration /\ InItsRange(time)
  BY DEF TimeIInv, Timed, SetDurationMax
<1>2. t \in 0 .. MaxDuration
  BY DEF Durations
<1>3. /\ y \in TimeRecords /\ y.max = t /\ y.min = time.min /\ y.duration
      /\ y.crossed = time.crossed /\ y.focus = time.focus /\ y.error = time.error
      /\ InDay(y) /\ HalfRight(y)
      /\ time.min <= t /\ time.min <= time.ticks => y.min <= y.ticks /\ y.ticks <= t
      /\ (y.text = time.text /\ (TextShown(time) => TextShown(y))) \/ TextShown(y)
  BY <1>1, <1>2, WithMaxFact
<1> HIDE DEF y
<1>4. time' = [y EXCEPT !.crossed = c]
  BY <1>3 DEF SetDurationMax, TimeRecords, y
<1>5. PICK b \in BOOLEAN : b = c
  BY Zenon
<1>6. time' = [y EXCEPT !.crossed = b] /\ (b <=> (time.crossed \/ t < time.min))
  BY <1>3, <1>4, <1>5
<1> HIDE DEF c
<1>7. /\ time' \in TimeRecords /\ time'.crossed = b /\ time'.text = y.text
      /\ time'.error = time.error /\ time'.focus = time.focus /\ time'.duration
      /\ time'.ticks = y.ticks /\ time'.max = t /\ time'.min = time.min
      /\ InDay(time') /\ HalfRight(time') /\ (TextShown(y) => TextShown(time'))
  BY <1>3, <1>6, CrossedFact
<1>8. time.min \in Nat /\ t \in Nat
  BY <1>1, <1>2, RecordFact, TimeNumbers
<1>9. InItsRange(time')
  BY <1>1, <1>3, <1>6, <1>7, <1>8 DEF InItsRange
<1>10. AtEase(time')
  BY <1>3, <1>7 DEF TimeIInv, AtEase
<1> QED
  BY <1>7, <1>9, <1>10 DEF TimeIInv, Timed

LEMMA SetRangeKeeps ==
  ASSUME TimeIInv, NEW low \in Durations, NEW high \in Durations, SetDurationRange(low, high)
  PROVE  TimeIInv'
<1> DEFINE r == WithRange(time, low, high)
<1>1. time \in TimeRecords /\ InDay(time) /\ time.duration /\ low <= high
  BY DEF TimeIInv, Timed, SetDurationRange
<1>2. low \in 0 .. MaxDuration /\ high \in 0 .. MaxDuration
  BY DEF Durations
<1>3. time' = [r EXCEPT !.crossed = FALSE]
  BY DEF SetDurationRange
<1> HIDE DEF r
<1>4. r = WithRange(time, low, high)
  BY DEF r
<1>5. /\ r \in TimeRecords /\ InDay(r) /\ HalfRight(r) /\ TextShown(r)
      /\ r.min <= r.max /\ r.min <= r.ticks /\ r.ticks <= r.max
  BY <1>1, <1>2, <1>4, WithRangeFact
<1>6. PICK c \in BOOLEAN : time' = [r EXCEPT !.crossed = c]
  BY <1>3, Zenon
<1> QED
  BY <1>5, <1>6, UncrossedFact DEF TimeIInv

-----------------------------------------------------------------------------
LEMMA TimeInitFact == TimeInit => TimeIInv
<1> SUFFICES ASSUME TimeInit PROVE TimeIInv
  OBVIOUS
<1>1. PICK c \in BOOLEAN :
        time = SetTicks([ticks |-> 0, clock24 |-> c, am |-> FALSE, duration |-> FALSE, button |-> ~c,
                         min |-> 0, max |-> 0, text |-> [f \in Fields |-> 0],
                         focus |-> None, error |-> None, crossed |-> FALSE], 0)
  BY DEF TimeInit
<1> DEFINE x == [ticks |-> 0, clock24 |-> c, am |-> FALSE, duration |-> FALSE, button |-> ~c,
                 min |-> 0, max |-> 0, text |-> [f \in Fields |-> 0],
                 focus |-> None, error |-> None, crossed |-> FALSE]
<1>2. 0 \in FieldText /\ 0 \in 0 .. MaxDuration /\ 0 \in 0 .. Bigger(MaxDuration, DayTicks - 1)
  BY TimeNumbers DEF FieldText, Bigger
<1>3. x \in TimeRecords /\ x.duration = FALSE
  BY <1>2 DEF TimeRecords
<1> HIDE DEF x
<1> DEFINE t == 0
<1>4. t \in Nat /\ time = SetTicks(x, t)
  BY <1>1 DEF x
<1> HIDE DEF t
<1>5. /\ time \in TimeRecords /\ SameEditor(x, time) /\ InDay(time) /\ HalfRight(time)
      /\ TextShown(time)
  BY <1>3, <1>4, SetTicksFact
<1> QED
  BY <1>3, <1>5 DEF TimeIInv, Timed, AtEase, InItsRange, SameEditor

(* Entries, ticks and the half of the day of a time editor always tell the same  *)
(* time, whatever the user types, clicks and leaves, and whatever the            *)
(* application sets; and a duration stays in its range.                          *)
THEOREM TimeSafe == TimeSpec => []TimeInv
<1>1. TimeInit => TimeIInv
  BY TimeInitFact
<1>2. TimeIInv /\ [TimeNext]_timeVars => TimeIInv'
  <2> SUFFICES ASSUME TimeIInv, [TimeNext]_timeVars PROVE TimeIInv'
    OBVIOUS
  <2>1. ASSUME NEW f \in Fields \union {None}, MoveFocus(f) PROVE TimeIInv'
    BY <2>1, MoveFocusKeeps
  <2>2. ASSUME NEW t \in Digits \union NotDigits, NEW full \in BOOLEAN, TypeField(t, full)
        PROVE TimeIInv'
    BY <2>2, TypeFieldKeeps
  <2>3. CASE Highlight
    BY <2>3, HighlightKeeps
  <2>4. CASE AmPmClicked
    BY <2>4, AmPmKeeps
  <2>5. ASSUME NEW t \in Times, IconClicked(t) PROVE TimeIInv'
    BY <2>5, IconKeeps
  <2>6. ASSUME NEW t \in Times, AppSetsTicks(t) PROVE TimeIInv'
    BY <2>6, AppSetsKeeps
  <2>7. ASSUME NEW t \in Times \intersect 0 .. DayTicks - 1, NEW d \in BOOLEAN,
               SetDurationMode(d, t)
        PROVE TimeIInv'
    BY <2>7, ModeKeeps
  <2>8. ASSUME NEW t \in Durations, SetDurationMin(t) PROVE TimeIInv'
    BY <2>8, SetMinKeeps
  <2>9. ASSUME NEW t \in Durations, SetDurationMax(t) PROVE TimeIInv'
    BY <2>9, SetMaxKeeps
  <2>10. ASSUME NEW low \in Durations, NEW high \in Durations, SetDurationRange(low, high)
         PROVE TimeIInv'
    BY <2>10, SetRangeKeeps
  <2>11. CASE UNCHANGED timeVars
    BY <2>11 DEF timeVars, TimeIInv, Timed, AtEase, InDay, HalfRight, InItsRange, TextShown,
      ShownHours
  <2> QED
    BY <2>1, <2>2, <2>3, <2>4, <2>5, <2>6, <2>7, <2>8, <2>9, <2>10, <2>11 DEF TimeNext
<1>3. TimeIInv => TimeInv
  BY TimeIInvImpliesInv
<1> QED
  BY <1>1, <1>2, <1>3, PTL DEF TimeSpec

-----------------------------------------------------------------------------
(* The days of the calendar. *)
LEMMA DaysFact ==
  ASSUME NEW m \in Nat, NEW y \in Nat
  PROVE  /\ DaysIn(m, y) \in Nat /\ DaysIn(m, y) <= LongDays
         /\ m \in 1 .. Months /\ y # 0 =>
              /\ DaysIn(m, y) >= 1
              /\ (m # 2 => DaysIn(m, y) = LongDays)
              /\ (m = 2 => DaysIn(m, y) \in {LongDays - 1, LongDays - 2})
         /\ ~(m \in 1 .. Months /\ y # 0) => DaysIn(m, y) = 0
<1>1. Months \in Nat /\ Months > 2 /\ LongDays \in Nat /\ LongDays > 2
  BY CalendarAssumption
<1>2. CASE ~(m \in 1 .. Months /\ y # 0)
  BY <1>1, <1>2 DEF DaysIn
<1>3. CASE m \in 1 .. Months /\ y # 0 /\ m # 2
  BY <1>1, <1>3 DEF DaysIn
<1>4. CASE m \in 1 .. Months /\ y # 0 /\ m = 2
  <2>1. DaysIn(m, y) \in {LongDays - 1, LongDays - 2}
    BY <1>1, <1>4 DEF DaysIn
  <2> QED
    BY <1>1, <1>4, <2>1
<1> QED
  BY <1>2, <1>3, <1>4

Parted(d) == d \in [DateParts -> Nat]

LEMMA PartsFact ==
  ASSUME NEW d, Parted(d)
  PROVE  /\ d["year"] \in Nat /\ d["month"] \in Nat /\ d["day"] \in Nat
         /\ ValidDate(d) => /\ d["month"] \in 1 .. Months /\ d["year"] # 0
                            /\ d["day"] \in 1 .. LongDays
<1>1. d["year"] \in Nat /\ d["month"] \in Nat /\ d["day"] \in Nat
  BY DEF Parted, DateParts
<1> DEFINE m == d["month"]
           y == d["year"]
           k == d["day"]
<1>2. ValidDate(d) <=> k \in 1 .. DaysIn(m, y)
  BY DEF ValidDate
<1>3. m \in Nat /\ y \in Nat /\ k \in Nat
  BY <1>1
<1> HIDE DEF m, y, k
<1>4. ASSUME k \in 1 .. DaysIn(m, y)
      PROVE  m \in 1 .. Months /\ y # 0 /\ k \in 1 .. LongDays
  <2>1. DaysIn(m, y) \in Nat /\ DaysIn(m, y) <= LongDays /\ DaysIn(m, y) # 0
    BY <1>3, <1>4, DaysFact
  <2>2. m \in 1 .. Months /\ y # 0
    BY <1>3, <2>1, DaysFact
  <2> QED
    BY <1>3, <1>4, <2>1, <2>2, CalendarAssumption
<1> QED
  BY <1>2, <1>3, <1>4 DEF m, y, k

LEMMA NumbersFact == /\ DateNumbers \subseteq Nat /\ Empty \notin DateNumbers
                     /\ Years \subseteq DateNumbers /\ 1 \in DateNumbers
                     /\ 1 .. LongDays \subseteq DateNumbers /\ 1 .. Months \subseteq DateNumbers
<1>1. Years \subseteq Nat /\ Numbers \subseteq Nat /\ Empty \notin Nat
  BY DateAssumption
<1>2. Months \in Nat /\ Months > 2 /\ LongDays \in Nat /\ LongDays > 2
  BY CalendarAssumption
<1>3. 1 .. LongDays \subseteq Nat /\ 1 .. Months \subseteq Nat /\ 1 \in 1 .. Months
  BY <1>2
<1> QED
  BY <1>1, <1>3 DEF DateNumbers

-----------------------------------------------------------------------------
(* The inductive invariant of a date editor.  An entry that has not the focus *)
(* shows its part of the date; and when the next validation is passed over,   *)
(* the entry with the focus does.  Escape alone leaves an entry unchecked.    *)
DateRecords ==
  [set : [DateParts -> DateNumbers], text : [DateParts -> DateNumbers \union {Empty}],
   focus : DateParts \union {None}, min : Years, max : Years,
   skip : BOOLEAN, escape : BOOLEAN, escaped : BOOLEAN]

Dated(x) ==
  /\ x \in DateRecords /\ ValidDate(x.set) /\ x.min <= x.max
  /\ x.escape => x.escaped

OthersShown(x, p) == \A q \in DateParts \ {p} : x.text[q] = x.set[q]

EntriesRight(x) ==
  ~x.escaped => OthersShown(x, x.focus) /\ (x.skip => x.text = x.set)

DateIInv == Dated(date) /\ EntriesRight(date)

LEMMA WholeText ==
  ASSUME NEW x \in DateRecords, \A q \in DateParts : x.text[q] = x.set[q]
  PROVE  x.text = x.set
<1>1. /\ x.text \in [DateParts -> DateNumbers \union {Empty}]
      /\ x.set \in [DateParts -> DateNumbers]
  BY DEF DateRecords
<1> DEFINE t == x.text
           s == x.set
<1>2. t = [q \in DateParts |-> t[q]] /\ s = [q \in DateParts |-> s[q]]
  BY <1>1
<1>3. \A q \in DateParts : t[q] = s[q]
  OBVIOUS
<1> HIDE DEF t, s
<1> QED
  BY <1>2, <1>3 DEF t, s

LEMMA DateIInvImpliesInv == DateIInv => DateInv
<1> SUFFICES ASSUME DateIInv PROVE DateInv
  OBVIOUS
<1>1. DateTypeOK
  BY DEF DateIInv, Dated, DateRecords, DateTypeOK
<1>2. DateShown
  <2> SUFFICES ASSUME date.focus = None, ~date.escaped PROVE date.text = date.set
    BY DEF DateShown
  <2>1. \A q \in DateParts : date.text[q] = date.set[q]
    BY DateAssumption DEF DateIInv, EntriesRight, OthersShown, DateParts
  <2> QED
    BY <2>1, WholeText DEF DateIInv, Dated
<1> QED
  BY <1>1, <1>2 DEF DateInv

LEMMA DatedFact ==
  ASSUME NEW x, Dated(x)
  PROVE  /\ x \in DateRecords /\ Parted(x.set)
         /\ x.set \in [DateParts -> DateNumbers]
         /\ x.min \in Nat /\ x.max \in Nat /\ x.min # 0 /\ x.max # 0 /\ x.min <= x.max
         /\ x.min \in Years /\ x.max \in Years
<1>1. x \in DateRecords /\ x.min <= x.max
  BY DEF Dated
<1>2. x.set \in [DateParts -> DateNumbers] /\ x.min \in Years /\ x.max \in Years
  BY <1>1 DEF DateRecords
<1>3. Parted(x.set)
  BY <1>2, NumbersFact DEF Parted
<1> QED
  BY <1>1, <1>2, <1>3, DateAssumption

-----------------------------------------------------------------------------
(* hildon_date_editor_set_date *)
LEMMA SetDateFact ==
  ASSUME NEW x, Dated(x), NEW d, ValidDate(d) => d \in [DateParts -> DateNumbers],
         NEW n, n = SetDate(x, d)
  PROVE  /\ Dated(n) /\ n.focus = x.focus /\ n.min = x.min /\ n.max = x.max
         /\ n.skip = x.skip /\ n.escape = x.escape
         /\ ValidDate(d) => n.set = d /\ n.text = d /\ n.escaped = x.escape
         /\ ~ValidDate(d) => n = x
<1>1. CASE ~ValidDate(d)
  BY <1>1 DEF SetDate
<1>2. CASE ValidDate(d)
  <2>1. n = [x EXCEPT !.set = d, !.text = d, !.escaped = x.escape]
    BY <1>2 DEF SetDate
  <2>2. x \in DateRecords /\ x.escape \in BOOLEAN
    BY DEF Dated, DateRecords
  <2>3. PICK e \in BOOLEAN : e = x.escape
    BY <2>2
  <2>4. d \in [DateParts -> DateNumbers] /\ d \in [DateParts -> DateNumbers \union {Empty}]
    BY <1>2
  <2>5. n = [x EXCEPT !.set = d, !.text = d, !.escaped = e]
    BY <2>1, <2>3
  <2>6. /\ n \in DateRecords /\ n.set = d /\ n.text = d /\ n.escaped = e /\ n.escape = x.escape
        /\ n.focus = x.focus /\ n.min = x.min /\ n.max = x.max /\ n.skip = x.skip
    BY <2>2, <2>4, <2>5 DEF DateRecords
  <2> QED
    BY <1>2, <2>3, <2>6 DEF Dated
<1> QED
  BY <1>1, <1>2

(* hildon_date_editor_set_year and its likes *)
LEMMA SetPartFact ==
  ASSUME NEW x, Dated(x), EntriesRight(x), NEW p \in DateParts, NEW v \in DateNumbers,
         NEW n, n = SetPart(x, p, v)
  PROVE  Dated(n) /\ EntriesRight(n) /\ n.min = x.min /\ n.max = x.max
<1>1. CASE ~ValidDate([x.set EXCEPT ![p] = v])
  BY <1>1 DEF SetPart
<1>2. CASE ValidDate([x.set EXCEPT ![p] = v])
  <2> DEFINE d == [x.set EXCEPT ![p] = v]
             t == [x.text EXCEPT ![p] = v]
  <2>1. n = [x EXCEPT !.set = d, !.text = t]
    BY <1>2 DEF SetPart
  <2>2. x \in DateRecords
    BY DEF Dated
  <2>3. /\ x.set \in [DateParts -> DateNumbers]
        /\ x.text \in [DateParts -> DateNumbers \union {Empty}]
    BY <2>2 DEF DateRecords
  <2>4. /\ d \in [DateParts -> DateNumbers] /\ t \in [DateParts -> DateNumbers \union {Empty}]
        /\ d[p] = v /\ t[p] = v
        /\ \A q \in DateParts \ {p} : d[q] = x.set[q] /\ t[q] = x.text[q]
    BY <2>3
  <2>5. x.text = x.set => t = d
    OBVIOUS
  <2>6. ValidDate(d)
    BY <1>2
  <2> HIDE DEF d, t
  <2>7. /\ n \in DateRecords /\ n.set = d /\ n.text = t /\ n.escaped = x.escaped
        /\ n.escape = x.escape /\ n.focus = x.focus /\ n.min = x.min /\ n.max = x.max
        /\ n.skip = x.skip
    BY <2>1, <2>2, <2>4 DEF DateRecords
  <2>8. Dated(n)
    BY <2>6, <2>7 DEF Dated
  <2>9. EntriesRight(n)
    BY <2>4, <2>5, <2>7 DEF EntriesRight, OthersShown
  <2> QED
    BY <1>2, <2>4, <2>7, <2>8, <2>9
<1> QED
  BY <1>1, <1>2

LEMMA SetPartValue ==
  ASSUME NEW x, Dated(x), NEW p \in DateParts, NEW v \in DateNumbers,
         NEW d, d = [x.set EXCEPT ![p] = v], NEW n, n = SetPart(x, p, v)
  PROVE  IF ValidDate(d) THEN n.set[p] = v ELSE n = x
<1>1. CASE ~ValidDate(d)
  BY <1>1 DEF SetPart
<1>2. CASE ValidDate(d)
  <2>1. x \in DateRecords /\ x.set \in [DateParts -> DateNumbers]
    BY DatedFact
  <2>2. d[p] = v
    BY <2>1
  <2>3. n.set = d
    BY <1>2, <2>1 DEF SetPart, DateRecords
  <2> QED
    BY <1>2, <2>2, <2>3
<1> QED
  BY <1>1, <1>2

-----------------------------------------------------------------------------
(* What hildon_date_editor_entry_validate makes of the entries: a date, if    *)
(* the other entries show parts of one, and of its year what the limits allow. *)
LEMMA EditedFact ==
  ASSUME NEW x, Dated(x), NEW p \in DateParts, NEW t \in [DateParts -> DateNumbers],
         NEW c, c = EditedClamped(x, p, t)
  PROVE  /\ c \in [DateParts -> Nat] /\ c \in [DateParts -> DateNumbers]
         /\ \A q \in DateParts \ {p} : c[q] = t[q]
         /\ p = "month" => c["month"] \in 1 .. Months
         /\ p = "year" => c["year"] # 0 /\ x.min <= c["year"] /\ c["year"] <= x.max
<1>1. /\ x.min \in Nat /\ x.max \in Nat /\ x.min # 0 /\ x.min <= x.max
      /\ x.min \in DateNumbers /\ x.max \in DateNumbers
  BY DatedFact, NumbersFact
<1>2. Months \in Nat /\ 1 <= Months /\ 1 \in DateNumbers /\ Months \in DateNumbers
  BY CalendarAssumption, NumbersFact
<1>3. t["month"] \in Nat /\ t["year"] \in Nat /\ t["month"] \in DateNumbers /\ t["year"] \in DateNumbers
  BY NumbersFact DEF DateParts
<1> DEFINE Edited == /\ c \in [DateParts -> DateNumbers]
                     /\ \A q \in DateParts \ {p} : c[q] = t[q]
                     /\ p = "month" => c["month"] \in 1 .. Months
                     /\ p = "year" => c["year"] # 0 /\ x.min <= c["year"] /\ c["year"] <= x.max
<1>4. ASSUME p = "month" PROVE Edited
  <2> DEFINE m == t["month"]
             v == ClampTo(m, 1, Months)
  <2>1. c = [t EXCEPT !["month"] = v]
    BY <1>4 DEF EditedClamped
  <2>2. m \in Nat /\ m \in DateNumbers
    BY <1>3
  <2> HIDE DEF m
  <2>3. v \in {m, 1, Months} /\ 1 <= v /\ v <= Months
    BY ONLY <1>2, <2>2 DEF ClampTo
  <2>4. v \in DateNumbers /\ v \in 1 .. Months
    <3> HIDE DEF v
    <3> QED
      BY ONLY <1>2, <2>2, <2>3
  <2> HIDE DEF v
  <2>5. "month" \in DateParts
    BY DEF DateParts
  <2>6. c \in [DateParts -> DateNumbers] /\ c["month"] = v
        /\ \A q \in DateParts \ {p} : c[q] = t[q]
    BY <1>4, <2>1, <2>4, <2>5
  <2> QED
    BY ONLY <1>4, <2>4, <2>6
<1>5. ASSUME p = "year" PROVE Edited
  <2> DEFINE y == t["year"]
             v == ClampTo(y, x.min, x.max)
  <2>1. c = [t EXCEPT !["year"] = v]
    BY <1>5 DEF EditedClamped
  <2>2. y \in Nat /\ y \in DateNumbers
    BY <1>3
  <2> HIDE DEF y
  <2>3. v \in {y, x.min, x.max} /\ x.min <= v /\ v <= x.max
    BY ONLY <1>1, <2>2 DEF ClampTo
  <2>4. v \in DateNumbers /\ v # 0
    <3> HIDE DEF v
    <3> QED
      BY ONLY <1>1, <2>2, <2>3
  <2> HIDE DEF v
  <2>5. "year" \in DateParts
    BY DEF DateParts
  <2>6. c \in [DateParts -> DateNumbers] /\ c["year"] = v
        /\ \A q \in DateParts \ {p} : c[q] = t[q]
    BY <1>5, <2>1, <2>4, <2>5
  <2> QED
    BY ONLY <1>5, <2>3, <2>4, <2>6
<1>6. ASSUME p = "day" PROVE Edited
  BY <1>6 DEF EditedClamped
<1>7. Edited
  BY <1>4, <1>5, <1>6 DEF DateParts
<1>8. c \in [DateParts -> DateNumbers] => c \in [DateParts -> Nat]
  BY NumbersFact
<1> QED
  BY <1>7, <1>8

LEMMA CheckedFact ==
  ASSUME NEW x, Dated(x), NEW p \in DateParts, NEW c \in [DateParts -> DateNumbers],
         c \in [DateParts -> Nat], NEW d, d = DayChecked(x, p, c)
  PROVE  /\ ValidDate(d) => d \in [DateParts -> DateNumbers]
         /\ d["year"] = c["year"] \/ (p = "year" /\ d["year"] = x.set["year"])
         /\ (/\ \A q \in DateParts \ {p} : c[q] = x.set[q]
             /\ p = "month" => c["month"] \in 1 .. Months
             /\ p = "year" => c["year"] # 0) => ValidDate(d)
<1> DEFINE s == x.set
           days == DaysIn(c["month"], c["year"])
<1>1. /\ s \in [DateParts -> DateNumbers] /\ Parted(s) /\ ValidDate(s)
  BY DatedFact DEF Dated
<1>2. /\ s["month"] \in 1 .. Months /\ s["year"] # 0 /\ s["day"] \in 1 .. LongDays
      /\ s["month"] \in DateNumbers /\ s["year"] \in DateNumbers /\ s["day"] \in DateNumbers
      /\ s["day"] \in 1 .. DaysIn(s["month"], s["year"])
  BY <1>1, PartsFact DEF DateParts, ValidDate
<1>3. /\ {"year", "month", "day"} = DateParts
      /\ c["year"] \in Nat /\ c["month"] \in Nat /\ c["day"] \in Nat
      /\ days \in Nat /\ days <= LongDays
  BY DaysFact DEF DateParts
<1>4. d = IF c["day"] < 1 THEN [c EXCEPT !["day"] = 1]
          ELSE IF c["day"] <= days THEN c
          ELSE IF c["day"] > LongDays THEN [c EXCEPT !["day"] = days]
          ELSE [c EXCEPT ![p] = s[p]]
  BY DEF DayChecked
<1> DEFINE Right == /\ \A q \in DateParts \ {p} : c[q] = s[q]
                    /\ p = "month" => c["month"] \in 1 .. Months
                    /\ p = "year" => c["year"] # 0
<1>5. Right => /\ c["month"] \in 1 .. Months /\ c["year"] # 0 /\ days >= 1
               /\ (p = "day" \/ c["day"] \in 1 .. LongDays)
  <2>1. ASSUME Right PROVE c["month"] \in 1 .. Months /\ c["year"] # 0
                           /\ (p = "day" \/ c["day"] \in 1 .. LongDays)
    BY <1>2, <1>3, <2>1
  <2>2. c["month"] \in 1 .. Months /\ c["year"] # 0 => days >= 1
    BY <1>3, DaysFact
  <2> QED
    BY <2>1, <2>2
<1> HIDE DEF Right, days, s
<1>6. CASE c["day"] < 1
  <2> DEFINE one == 1
  <2>1. d = [c EXCEPT !["day"] = one]
    BY <1>4, <1>6
  <2>2. one \in DateNumbers /\ one = 1
    BY NumbersFact
  <2> HIDE DEF one
  <2>3. /\ d \in [DateParts -> DateNumbers] /\ d["day"] = one
        /\ d["month"] = c["month"] /\ d["year"] = c["year"]
    BY <1>3, <2>1, <2>2
  <2>4. Right => ValidDate(d)
    BY <1>3, <1>5, <2>2, <2>3 DEF ValidDate, days
  <2> QED
    BY <2>3, <2>4 DEF Right, s
<1>7. CASE ~(c["day"] < 1) /\ c["day"] <= days
  <2>1. d = c
    BY <1>4, <1>7
  <2>2. c["day"] \in 1 .. days
    BY <1>3, <1>7
  <2>3. ValidDate(d)
    BY <2>1, <2>2 DEF ValidDate, days
  <2> QED
    BY <2>1, <2>3
<1>8. CASE ~(c["day"] < 1) /\ ~(c["day"] <= days) /\ c["day"] > LongDays
  <2>1. d = [c EXCEPT !["day"] = days]
    BY <1>4, <1>8
  <2>2. /\ d["day"] = days /\ d["month"] = c["month"] /\ d["year"] = c["year"]
    BY <1>3, <2>1
  <2>3. ValidDate(d) <=> days \in 1 .. days
    BY <2>2 DEF ValidDate, days
  <2>4. days \in 1 .. days => days \in DateNumbers
    BY <1>3, CalendarAssumption, NumbersFact
  <2>5. ValidDate(d) => d \in [DateParts -> DateNumbers]
    BY <2>1, <2>3, <2>4
  <2>6. Right => ValidDate(d)
    BY <1>3, <1>5, <2>3
  <2> QED
    BY <2>2, <2>5, <2>6 DEF Right, s
<1>9. CASE ~(c["day"] < 1) /\ ~(c["day"] <= days) /\ ~(c["day"] > LongDays)
  <2>1. d = [c EXCEPT ![p] = s[p]]
    BY <1>4, <1>9
  <2>2. d \in [DateParts -> DateNumbers] /\ d[p] = s[p] /\ \A q \in DateParts \ {p} : d[q] = c[q]
    BY <1>1, <2>1
  <2>3. d["year"] = c["year"] \/ (p = "year" /\ d["year"] = s["year"])
    BY <1>3, <2>2
  <2>4. Right => ValidDate(d)
    <3>1. ASSUME Right PROVE \A q \in DateParts : d[q] = s[q]
      BY <2>2, <3>1 DEF Right
    <3>2. ASSUME \A q \in DateParts : d[q] = s[q] PROVE ValidDate(d)
      BY <1>1, <1>3, <3>2 DEF ValidDate
    <3> QED
      BY <3>1, <3>2
  <2> QED
    BY <2>2, <2>3, <2>4 DEF Right, s
<1> QED
  BY <1>6, <1>7, <1>8, <1>9

(* An entry is left or full. *)
LEMMA ValidateDateFact ==
  ASSUME NEW x, Dated(x), NEW p \in DateParts, NEW n, n = ValidateDate(x, p)
  PROVE  /\ Dated(n) /\ n.focus = x.focus /\ n.min = x.min /\ n.max = x.max
         /\ n.skip = x.skip /\ n.escape = x.escape /\ (x.skip => n = x)
         /\ x.escaped /\ ~n.escaped => n.text = n.set
         /\ (/\ ~x.escaped /\ OthersShown(x, p)
             /\ x.skip => x.text = x.set) =>
              /\ ~n.escaped /\ n.text = n.set
              /\ n.set["year"] # x.set["year"] =>
                   x.min <= n.set["year"] /\ n.set["year"] <= x.max
<1>0. Dated(x) /\ p \in DateParts
  OBVIOUS
<1>1. /\ x \in DateRecords /\ x.set \in [DateParts -> DateNumbers] /\ ValidDate(x.set)
      /\ (x.escape => x.escaped)
  BY DatedFact DEF Dated
<1>2. x.text \in [DateParts -> DateNumbers \union {Empty}]
  BY <1>1 DEF DateRecords
<1>3. CASE x.skip
  <2>1. n = x
    BY <1>3 DEF ValidateDate
  <2> QED
    BY <1>3, <2>1
<1>4. CASE ~x.skip /\ x.text[p] = Empty
  <2> DEFINE d == x.set
  <2>1. n = SetDate(x, d) /\ ValidDate(d) /\ (ValidDate(d) => d \in [DateParts -> DateNumbers])
    BY <1>1, <1>4 DEF ValidateDate
  <2>2. d = x.set
    OBVIOUS
  <2> HIDE DEF d
  <2>3. /\ Dated(n) /\ n.focus = x.focus /\ n.min = x.min /\ n.max = x.max
        /\ n.skip = x.skip /\ n.escape = x.escape
        /\ n.set = d /\ n.text = d /\ n.escaped = x.escape
    BY ONLY <1>0, <2>1, SetDateFact
  <2> QED
    BY <1>1, <1>4, <2>2, <2>3
<1>5. CASE ~x.skip /\ x.text[p] # Empty
           /\ ((\E q \in DateParts : x.text[q] = Empty) \/ x.text = x.set)
  <2>1. n = x
    BY <1>5 DEF ValidateDate
  <2>2. ASSUME OthersShown(x, p) PROVE x.text = x.set
    <3>1. \A q \in DateParts : x.text[q] # Empty
      BY <1>1, <1>5, <2>2, NumbersFact DEF OthersShown
    <3> QED
      BY <1>5, <3>1
  <2> QED
    BY <1>5, <2>1, <2>2
<1>6. CASE ~x.skip /\ x.text[p] # Empty
           /\ (\A q \in DateParts : x.text[q] # Empty) /\ x.text # x.set
  <2> DEFINE t == x.text
             c == EditedClamped(x, p, t)
             d == DayChecked(x, p, c)
  <2>1. n = SetDate(x, d)
    BY <1>6 DEF ValidateDate
  <2>2. t \in [DateParts -> DateNumbers]
    BY <1>2, <1>6
  <2>3. t = x.text /\ c = EditedClamped(x, p, t) /\ d = DayChecked(x, p, c)
    OBVIOUS
  <2> HIDE DEF t, c, d
  <2>4. /\ c \in [DateParts -> Nat] /\ c \in [DateParts -> DateNumbers]
        /\ \A q \in DateParts \ {p} : c[q] = t[q]
        /\ p = "month" => c["month"] \in 1 .. Months
        /\ p = "year" => c["year"] # 0 /\ x.min <= c["year"] /\ c["year"] <= x.max
    BY ONLY <1>0, <2>2, <2>3, EditedFact
  <2>5. /\ ValidDate(d) => d \in [DateParts -> DateNumbers]
        /\ d["year"] = c["year"] \/ (p = "year" /\ d["year"] = x.set["year"])
        /\ (/\ \A q \in DateParts \ {p} : c[q] = x.set[q]
            /\ p = "month" => c["month"] \in 1 .. Months
            /\ p = "year" => c["year"] # 0) => ValidDate(d)
    BY ONLY <1>0, <2>3, <2>4, CheckedFact
  <2>6. /\ Dated(n) /\ n.focus = x.focus /\ n.min = x.min /\ n.max = x.max
        /\ n.skip = x.skip /\ n.escape = x.escape
        /\ ValidDate(d) => n.set = d /\ n.text = d /\ n.escaped = x.escape
        /\ ~ValidDate(d) => n = x
    BY ONLY <1>0, <2>1, <2>5, SetDateFact
  <2>7. ASSUME ~x.escaped, OthersShown(x, p)
        PROVE  /\ ~n.escaped /\ n.text = n.set
               /\ n.set["year"] # x.set["year"] =>
                    x.min <= n.set["year"] /\ n.set["year"] <= x.max
    <3>1. \A q \in DateParts \ {p} : c[q] = x.set[q]
      BY <2>3, <2>4, <2>7 DEF OthersShown
    <3>2. ValidDate(d)
      BY <2>4, <2>5, <3>1
    <3>3. d["year"] # x.set["year"] => x.min <= d["year"] /\ d["year"] <= x.max
      <4>1. CASE p = "year"
        BY <2>4, <2>5, <4>1
      <4>2. CASE p # "year"
        BY <2>5, <3>1, <4>2 DEF DateParts
      <4> QED
        BY <4>1, <4>2
    <3> QED
      BY <1>1, <2>6, <2>7, <3>2, <3>3
  <2> QED
    BY <1>6, <2>6, <2>7
<1> QED
  BY <1>3, <1>4, <1>5, <1>6

-----------------------------------------------------------------------------
(* Focus and flags. *)
LEMMA SkipFact ==
  ASSUME NEW x, Dated(x), NEW k \in BOOLEAN, NEW n, n = [x EXCEPT !.skip = k]
  PROVE  /\ Dated(n) /\ n.set = x.set /\ n.text = x.text /\ n.focus = x.focus /\ n.skip = k
         /\ n.min = x.min /\ n.max = x.max /\ n.escape = x.escape /\ n.escaped = x.escaped
<1>1. x \in DateRecords
  BY DEF Dated
<1>2. /\ n \in DateRecords /\ n.set = x.set /\ n.text = x.text /\ n.focus = x.focus /\ n.skip = k
      /\ n.min = x.min /\ n.max = x.max /\ n.escape = x.escape /\ n.escaped = x.escaped
  BY <1>1 DEF DateRecords
<1> QED
  BY <1>2 DEF Dated

LEMMA DateFocusFact ==
  ASSUME NEW x, Dated(x), NEW f \in DateParts \union {None}, NEW n, n = [x EXCEPT !.focus = f]
  PROVE  /\ Dated(n) /\ n.set = x.set /\ n.text = x.text /\ n.focus = f /\ n.skip = x.skip
         /\ n.min = x.min /\ n.max = x.max /\ n.escape = x.escape /\ n.escaped = x.escaped
<1>1. x \in DateRecords
  BY DEF Dated
<1>2. /\ n \in DateRecords /\ n.set = x.set /\ n.text = x.text /\ n.focus = f /\ n.skip = x.skip
      /\ n.min = x.min /\ n.max = x.max /\ n.escape = x.escape /\ n.escaped = x.escaped
  BY <1>1 DEF DateRecords
<1> QED
  BY <1>2 DEF Dated

LEMMA AllShown ==
  ASSUME NEW x, x.text = x.set
  PROVE  EntriesRight(x) /\ \A p : OthersShown(x, p)
  BY DEF EntriesRight, OthersShown

(* hildon_date_editor_entry_focus_out: what has been left is a whole date. *)
LEMMA FocusOutFact ==
  ASSUME NEW x, Dated(x), EntriesRight(x), NEW n, n = DateFocusOut(x)
  PROVE  /\ Dated(n) /\ n.min = x.min /\ n.max = x.max /\ n.focus = x.focus
         /\ (~n.escaped => n.text = n.set)
         /\ ((x.text = x.set /\ x.skip) => n.set = x.set)
<1>0. Dated(x)
  OBVIOUS
<1>1. CASE x.focus = None
  <2>1. n = x
    BY <1>1 DEF DateFocusOut
  <2>2. ~x.escaped => \A q \in DateParts : x.text[q] = x.set[q]
    BY <1>1, DateAssumption DEF EntriesRight, OthersShown, DateParts
  <2>3. ~x.escaped => x.text = x.set
    BY <2>2, WholeText DEF Dated
  <2> QED
    BY <2>1, <2>3
<1>2. CASE x.focus # None
  <2> DEFINE p == x.focus
             y == ValidateDate(x, p)
  <2>1. p \in DateParts
    BY <1>2 DEF Dated, DateRecords
  <2>2. n = [y EXCEPT !.skip = FALSE]
    BY <1>2 DEF DateFocusOut
  <2>3. p = x.focus /\ y = ValidateDate(x, p)
    OBVIOUS
  <2> HIDE DEF p, y
  <2>4. /\ Dated(y) /\ y.focus = x.focus /\ y.min = x.min /\ y.max = x.max
        /\ (x.skip => y = x) /\ ((x.escaped /\ ~y.escaped) => y.text = y.set)
        /\ ((/\ ~x.escaped /\ OthersShown(x, p)
             /\ (x.skip => x.text = x.set)) => (~y.escaped /\ y.text = y.set))
    BY ONLY <1>0, <2>1, <2>3, ValidateDateFact
  <2>5. ~y.escaped => y.text = y.set
    BY <2>3, <2>4 DEF EntriesRight
  <2>6. PICK k \in BOOLEAN : n = [y EXCEPT !.skip = k]
    BY <2>2, Zenon
  <2>7. /\ Dated(n) /\ n.set = y.set /\ n.text = y.text /\ n.focus = y.focus
        /\ n.min = y.min /\ n.max = y.max /\ n.escaped = y.escaped
    BY ONLY <2>4, <2>6, SkipFact
  <2> QED
    BY <2>4, <2>5, <2>7
<1> QED
  BY <1>1, <1>2

-----------------------------------------------------------------------------
(* Each action keeps the invariant, and but for two also the limits. *)
SameLimits == date'.min = date.min /\ date'.max = date.max

LEMMA FocusedFact ==
  ASSUME NEW x, Dated(x), ~x.escaped => x.text = x.set,
         NEW f \in DateParts \union {None}, NEW n, n = [x EXCEPT !.focus = f]
  PROVE  Dated(n) /\ EntriesRight(n) /\ n.min = x.min /\ n.max = x.max /\ n.set = x.set
<1>1. /\ Dated(n) /\ n.set = x.set /\ n.text = x.text /\ n.min = x.min /\ n.max = x.max
      /\ n.escaped = x.escaped
  BY DateFocusFact
<1> QED
  BY <1>1, AllShown DEF EntriesRight

LEMMA MoveDateFocusKeeps ==
  ASSUME DateIInv, NEW f \in DateParts \union {None}, MoveDateFocus(f)
  PROVE  DateIInv' /\ SameLimits
<1> DEFINE x == DateFocusOut(date)
<1>1. date' = [x EXCEPT !.focus = f]
  BY DEF MoveDateFocus
<1>2. Dated(x) /\ x.min = date.min /\ x.max = date.max /\ (~x.escaped => x.text = x.set)
  BY FocusOutFact DEF DateIInv
<1> HIDE DEF x
<1>3. Dated(date') /\ EntriesRight(date') /\ date'.min = x.min /\ date'.max = x.max
  BY <1>1, <1>2, FocusedFact
<1> QED
  BY <1>2, <1>3 DEF DateIInv, SameLimits

(* The year typed *)
YearInLimits ==
  (date'.set["year"] # date.set["year"] /\ ~date.escaped)
     => (date.min <= date'.set["year"] /\ date'.set["year"] <= date.max)

LEMMA TypeDateKeeps ==
  ASSUME DateIInv, NEW t \in Numbers \union {Empty}, NEW full \in BOOLEAN, TypeDate(t, full)
  PROVE  DateIInv' /\ SameLimits /\ YearInLimits
<1> DEFINE p == date.focus
           x == [date EXCEPT !.text[p] = t]
           v == ValidateDate(x, p)
           y == [v EXCEPT !.skip = TRUE]
           out == DateFocusOut(y)
<1>1. /\ date \in DateRecords /\ p \in DateParts /\ Dated(date) /\ EntriesRight(date)
      /\ (full => (t # Empty /\ (date.skip => date.escape)))
  BY DEF DateIInv, Dated, DateRecords, TypeDate
<1>2. \/ ~full /\ date' = [x EXCEPT !.skip = FALSE]
      \/ full /\ date' = v
      \/ full /\ date' = y
      \/ full /\ \E f \in (DateParts \union {None}) \ {p} : date' = [out EXCEPT !.focus = f]
  <2>1. IF ~full THEN date' = [x EXCEPT !.skip = FALSE]
        ELSE IF DateFails(x, p) THEN date' = v
        ELSE \/ date' = y
             \/ \E f \in (DateParts \union {None}) \ {p} : date' = [out EXCEPT !.focus = f]
    BY Zenon DEF TypeDate
  <2> HIDE DEF x, v, y, out
  <2> QED
    BY <2>1
<1>3. t \in DateNumbers \union {Empty}
  BY DEF DateNumbers
<1>4. /\ Dated(x) /\ x.set = date.set /\ x.focus = p /\ x.skip = date.skip /\ x.min = date.min
      /\ x.max = date.max /\ x.escape = date.escape /\ x.escaped = date.escaped
      /\ \A q \in DateParts \ {p} : x.text[q] = date.text[q]
  <2>1. date.text \in [DateParts -> DateNumbers \union {Empty}]
    BY <1>1 DEF DateRecords
  <2> DEFINE u == [date.text EXCEPT ![p] = t]
  <2>2. u \in [DateParts -> DateNumbers \union {Empty}]
        /\ \A q \in DateParts \ {p} : u[q] = date.text[q]
    BY <1>3, <2>1
  <2>3. x = [date EXCEPT !.text = u]
    OBVIOUS
  <2> HIDE DEF u, x, p
  <2>4. /\ x \in DateRecords /\ x.text = u /\ x.set = date.set /\ x.focus = date.focus
        /\ x.skip = date.skip /\ x.min = date.min /\ x.max = date.max
        /\ x.escape = date.escape /\ x.escaped = date.escaped
    BY ONLY <1>1, <2>2, <2>3 DEF DateRecords
  <2>5. Dated(x)
    BY <1>1, <2>4 DEF Dated
  <2> QED
    BY <2>2, <2>4, <2>5 DEF p
<1>5. OthersShown(date, p) \/ date.escaped
  BY <1>1 DEF EntriesRight
<1>6. OthersShown(x, p) \/ x.escaped
  <2> HIDE DEF x
  <2> QED
    BY <1>4, <1>5 DEF OthersShown
<1>7. /\ v = ValidateDate(x, p) /\ y = [v EXCEPT !.skip = TRUE] /\ out = DateFocusOut(y)
  OBVIOUS
<1> HIDE DEF p, x, v, y, out
<1>8. ASSUME ~full PROVE DateIInv' /\ SameLimits /\ YearInLimits
  <2>1. date' = [x EXCEPT !.skip = FALSE]
    BY <1>2, <1>8
  <2>2. PICK k \in BOOLEAN : date' = [x EXCEPT !.skip = k] /\ ~k
    BY <2>1, Zenon
  <2>3. /\ Dated(date') /\ date'.set = x.set /\ date'.text = x.text /\ date'.focus = x.focus
        /\ date'.skip = k /\ date'.min = x.min /\ date'.max = x.max
        /\ date'.escaped = x.escaped
    BY ONLY <1>4, <2>2, SkipFact
  <2>4. EntriesRight(date')
    BY <1>4, <1>6, <2>2, <2>3 DEF EntriesRight, OthersShown
  <2> QED
    BY <1>4, <2>3, <2>4 DEF DateIInv, SameLimits, YearInLimits
<1>9. ASSUME full
      PROVE  /\ Dated(v) /\ v.focus = p /\ v.min = date.min /\ v.max = date.max
             /\ (~v.escaped => v.text = v.set)
             /\ ~date.escaped => (~v.escaped /\ (v.set["year"] # date.set["year"] =>
                   (date.min <= v.set["year"] /\ v.set["year"] <= date.max)))
  <2>1. x.skip => x.escaped
    BY <1>1, <1>4, <1>9 DEF Dated
  <2>2. /\ Dated(v) /\ v.focus = x.focus /\ v.min = x.min /\ v.max = x.max
        /\ ((x.escaped /\ ~v.escaped) => v.text = v.set)
        /\ (/\ ~x.escaped /\ OthersShown(x, p)
            /\ (x.skip => x.text = x.set)) =>
              /\ ~v.escaped /\ v.text = v.set
              /\ (v.set["year"] # x.set["year"] =>
                   (x.min <= v.set["year"] /\ v.set["year"] <= x.max))
    BY ONLY <1>1, <1>4, <1>7, ValidateDateFact
  <2> QED
    BY <1>4, <1>6, <2>1, <2>2
<1>10. ASSUME full
       PROVE  /\ Dated(y) /\ y.focus = v.focus /\ y.min = v.min /\ y.max = v.max
              /\ y.set = v.set /\ y.text = v.text /\ y.escaped = v.escaped /\ y.skip
  <2>1. PICK k \in BOOLEAN : y = [v EXCEPT !.skip = k] /\ k
    BY <1>7, Zenon
  <2>2. Dated(v) /\ y = [v EXCEPT !.skip = k]
    BY <1>9, <1>10, <2>1
  <2>3. /\ Dated(y) /\ y.focus = v.focus /\ y.min = v.min /\ y.max = v.max
        /\ y.set = v.set /\ y.text = v.text /\ y.escaped = v.escaped /\ y.skip = k
    BY ONLY <2>2, SkipFact
  <2> QED
    BY <2>1, <2>3
<1>11. ASSUME full, date' = v PROVE DateIInv' /\ SameLimits /\ YearInLimits
  <2>1. EntriesRight(v)
    BY <1>9, <1>11, AllShown DEF EntriesRight
  <2> QED
    BY <1>9, <1>11, <2>1 DEF DateIInv, SameLimits, YearInLimits
<1>12. ASSUME full PROVE EntriesRight(y)
  BY <1>9, <1>10, <1>12, AllShown DEF EntriesRight
<1>13. ASSUME full, date' = y PROVE DateIInv' /\ SameLimits /\ YearInLimits
  BY <1>9, <1>10, <1>12, <1>13 DEF DateIInv, SameLimits, YearInLimits
<1>14. ASSUME full, NEW f \in (DateParts \union {None}) \ {p}, date' = [out EXCEPT !.focus = f]
       PROVE  DateIInv' /\ SameLimits /\ YearInLimits
  <2>1. Dated(y) /\ EntriesRight(y) /\ out = DateFocusOut(y)
    BY <1>7, <1>10, <1>12, <1>14
  <2>2. /\ Dated(out) /\ out.min = y.min /\ out.max = y.max /\ (~out.escaped => out.text = out.set)
        /\ ((y.text = y.set /\ y.skip) => out.set = y.set)
    BY ONLY <2>1, FocusOutFact
  <2>3. f \in DateParts \union {None} /\ date' = [out EXCEPT !.focus = f]
    BY <1>14
  <2>4. /\ Dated(date') /\ EntriesRight(date') /\ date'.min = out.min /\ date'.max = out.max
        /\ date'.set = out.set
    BY ONLY <2>2, <2>3, FocusedFact
  <2>5. ~date.escaped => out.set = v.set
    BY <1>9, <1>10, <1>14, <2>2
  <2> QED
    BY <1>9, <1>10, <1>14, <2>2, <2>4, <2>5 DEF DateIInv, SameLimits, YearInLimits
<1> QED
  BY <1>2, <1>8, <1>11, <1>13, <1>14

LEMMA PressEscapeKeeps ==
  ASSUME DateIInv, PressEscape
  PROVE  DateIInv' /\ SameLimits
<1>1. date \in DateRecords /\ ValidDate(date.set) /\ date.min <= date.max
  BY DEF DateIInv, Dated
<1>2. date' = [date EXCEPT !.skip = TRUE, !.escape = TRUE, !.escaped = TRUE]
  BY DEF PressEscape
<1>3. /\ date' \in DateRecords /\ date'.set = date.set /\ date'.min = date.min
      /\ date'.max = date.max /\ date'.escaped
  BY <1>1, <1>2 DEF DateRecords
<1> QED
  BY <1>1, <1>3 DEF DateIInv, Dated, EntriesRight, SameLimits

LEMMA ReleaseEscapeKeeps ==
  ASSUME DateIInv, ReleaseEscape
  PROVE  DateIInv' /\ SameLimits
<1>1. date \in DateRecords /\ ValidDate(date.set) /\ date.min <= date.max /\ date.escaped
  BY DEF DateIInv, Dated, ReleaseEscape
<1> DEFINE k == IF date.focus # None THEN FALSE ELSE date.skip
<1>2. date' = [date EXCEPT !.skip = k, !.escape = FALSE]
  BY DEF ReleaseEscape
<1>3. k \in BOOLEAN
  BY <1>1 DEF DateRecords
<1> HIDE DEF k
<1>4. /\ date' \in DateRecords /\ date'.set = date.set /\ date'.min = date.min
      /\ date'.max = date.max /\ date'.escaped = date.escaped
  BY <1>1, <1>2, <1>3 DEF DateRecords
<1> QED
  BY <1>1, <1>4 DEF DateIInv, Dated, EntriesRight, SameLimits

LEMMA SetDateKeeps ==
  ASSUME DateIInv, NEW d \in Dates, date' = SetDate(date, d), ValidDate(d)
  PROVE  DateIInv' /\ SameLimits
<1>1. d \in [DateParts -> DateNumbers]
  <2>1. /\ d = [q \in {"year", "month", "day"} |-> d[q]]
        /\ d["year"] \in Years /\ d["month"] \in 1 .. Months /\ d["day"] \in Numbers
    BY DEF Dates
  <2>2. {"year", "month", "day"} = DateParts
    BY DEF DateParts
  <2>3. \A q \in DateParts : d[q] \in DateNumbers
    BY <2>1, <2>2 DEF DateNumbers
  <2> QED
    BY <2>1, <2>2, <2>3
<1>2. /\ Dated(date') /\ date'.min = date.min /\ date'.max = date.max
      /\ date'.set = d /\ date'.text = d
  BY <1>1, SetDateFact DEF DateIInv
<1> QED
  BY <1>2, AllShown DEF DateIInv, SameLimits

LEMMA SetPartKeeps ==
  ASSUME DateIInv, NEW p \in DateParts, NEW v \in Years \union Numbers, AppSetsPart(p, v)
  PROVE  DateIInv' /\ SameLimits
<1>1. v \in DateNumbers
  BY DEF DateNumbers
<1>2. PICK n : date' = n
  OBVIOUS
<1>3. Dated(date) /\ EntriesRight(date) /\ p \in DateParts /\ n = SetPart(date, p, v)
  BY <1>2 DEF DateIInv, AppSetsPart
<1>4. Dated(n) /\ EntriesRight(n) /\ n.min = date.min /\ n.max = date.max
  BY ONLY <1>1, <1>3, SetPartFact
<1> QED
  BY ONLY <1>2, <1>4 DEF DateIInv, SameLimits

(* The year goes with its limits, unless the 29th of February stays. *)
LEMMA LimitFact ==
  ASSUME DateIInv, NEW y \in Years, NEW x, Dated(x), EntriesRight(x),
         x.set = date.set, x.text = date.text,
         NEW n, n = SetPart(x, "year", y)
  PROVE  /\ Dated(n) /\ EntriesRight(n) /\ n.min = x.min /\ n.max = x.max
         /\ \/ n.set["year"] = y
            \/ /\ date.set["month"] = 2 /\ date.set["day"] = LongDays - 1
               /\ n.set = date.set
<1> DEFINE p == "year"
           s == x.set
           d == [s EXCEPT ![p] = y]
<1>1. p \in DateParts /\ p = "year" /\ y \in DateNumbers /\ y \in Nat /\ y # 0
  BY NumbersFact, DateAssumption DEF DateParts
<1>2. d = [x.set EXCEPT ![p] = y] /\ n = SetPart(x, p, y)
  OBVIOUS
<1>3. Parted(s) /\ ValidDate(s) /\ d = [s EXCEPT ![p] = y]
  BY DatedFact DEF Dated
<1>4. s["month"] \in 1 .. Months /\ s["month"] \in Nat /\ s["year"] \in Nat /\ s["year"] # 0
      /\ s["day"] \in Nat /\ s["day"] \in 1 .. DaysIn(s["month"], s["year"])
  BY <1>3, PartsFact DEF ValidDate
<1> HIDE DEF p, s, d
<1>5. d["month"] = s["month"] /\ d["day"] = s["day"] /\ d["year"] = y
  BY ONLY <1>1, <1>3 DEF Parted, DateParts
<1>6. ~ValidDate(d) => s["month"] = 2 /\ s["day"] = LongDays - 1
  <2>1. ValidDate(d) <=> s["day"] \in 1 .. DaysIn(s["month"], y)
    BY <1>5 DEF ValidDate
  <2> DEFINE m == s["month"]
             z == s["year"]
  <2>2. m \in Nat /\ z \in Nat /\ m \in 1 .. Months /\ z # 0
    BY <1>4
  <2>3. m = s["month"] /\ z = s["year"]
    OBVIOUS
  <2> HIDE DEF m, z
  <2>4. /\ DaysIn(m, y) \in Nat /\ (m # 2 => DaysIn(m, y) = LongDays)
        /\ (m = 2 => DaysIn(m, y) \in {LongDays - 1, LongDays - 2})
    BY ONLY <1>1, <2>2, DaysFact
  <2>5. /\ DaysIn(m, z) \in Nat /\ (m # 2 => DaysIn(m, z) = LongDays)
        /\ (m = 2 => DaysIn(m, z) \in {LongDays - 1, LongDays - 2})
    BY ONLY <2>2, DaysFact
  <2> QED
    BY <1>4, <2>1, <2>3, <2>4, <2>5, CalendarAssumption
<1>7. Dated(x) /\ EntriesRight(x)
  OBVIOUS
<1>8. Dated(n) /\ EntriesRight(n) /\ n.min = x.min /\ n.max = x.max
  BY ONLY <1>1, <1>2, <1>7, SetPartFact
<1>9. IF ValidDate(d) THEN n.set[p] = y ELSE n = x
  BY ONLY <1>1, <1>2, <1>7, SetPartValue
<1> QED
  BY <1>1, <1>6, <1>8, <1>9 DEF s

YearGoesAlong ==
  (/\ date'.min # date.min \/ date'.max # date.max
   /\ date.focus = None /\ ~date.escaped /\ date.set["year"] \in date.min .. date.max)
     => (\/ date'.set["year"] \in date'.min .. date'.max
         \/ /\ date.set["month"] = 2 /\ date.set["day"] = LongDays - 1
            /\ date'.set = date.set)

LEMMA AtRestText ==
  ASSUME DateIInv, date.focus = None, ~date.escaped
  PROVE  TextYear(date) = date.set["year"] /\ date.text = date.set
<1>1. date.text = date.set
  BY DateIInvImpliesInv DEF DateInv, DateShown
<1>2. date.set["year"] \in Nat
  BY DatedFact, PartsFact DEF DateIInv
<1> QED
  BY <1>1, <1>2, DateAssumption DEF TextYear

LEMMA MinYearKeeps ==
  ASSUME DateIInv, NEW y \in Years, AppSetsMinYear(y)
  PROVE  DateIInv' /\ YearGoesAlong
<1> DEFINE x == [date EXCEPT !.min = y]
<1>1. /\ Dated(x) /\ EntriesRight(x) /\ x.set = date.set /\ x.text = date.text
      /\ x.min = y /\ x.max = date.max
  <2>1. date \in DateRecords /\ y <= date.max
    BY DEF DateIInv, Dated, AppSetsMinYear
  <2>2. /\ x \in DateRecords /\ x.set = date.set /\ x.text = date.text /\ x.focus = date.focus
        /\ x.skip = date.skip /\ x.min = y /\ x.max = date.max
        /\ x.escape = date.escape /\ x.escaped = date.escaped
    BY <2>1 DEF DateRecords
  <2> HIDE DEF x
  <2> QED
    BY <2>1, <2>2 DEF DateIInv, Dated, EntriesRight, OthersShown
<1>2. date' = IF TextYear(x) < y THEN SetPart(x, "year", y) ELSE x
  BY DEF AppSetsMinYear
<1> HIDE DEF x
<1>3. TextYear(x) = TextYear(date)
  BY <1>1 DEF TextYear
<1>4. /\ Dated(date) /\ y \in Nat /\ date.max \in Nat /\ date.min \in Nat /\ y <= date.max
  BY DatedFact, DateAssumption DEF DateIInv, AppSetsMinYear
<1>5. CASE TextYear(x) < y
  <2>1. date' = SetPart(x, "year", y)
    BY <1>2, <1>5
  <2>2. /\ Dated(date') /\ EntriesRight(date') /\ date'.min = x.min /\ date'.max = x.max
        /\ \/ date'.set["year"] = y
           \/ /\ date.set["month"] = 2 /\ date.set["day"] = LongDays - 1
              /\ date'.set = date.set
    BY <1>1, <2>1, LimitFact
  <2> QED
    BY <1>1, <1>4, <2>2 DEF DateIInv, YearGoesAlong
<1>6. CASE ~(TextYear(x) < y)
  <2>1. date' = x
    BY <1>2, <1>6
  <2>2. ASSUME date.focus = None, ~date.escaped, date.set["year"] \in date.min .. date.max
        PROVE  date'.set["year"] \in date'.min .. date'.max
    <3>1. TextYear(date) = date.set["year"]
      BY <2>2, AtRestText
    <3> QED
      BY <1>1, <1>3, <1>4, <1>6, <2>1, <2>2, <3>1
  <2> QED
    BY <1>1, <2>1, <2>2 DEF DateIInv, YearGoesAlong
<1> QED
  BY <1>5, <1>6

LEMMA MaxYearKeeps ==
  ASSUME DateIInv, NEW y \in Years, AppSetsMaxYear(y)
  PROVE  DateIInv' /\ YearGoesAlong
<1> DEFINE x == [date EXCEPT !.max = y]
<1>1. /\ Dated(x) /\ EntriesRight(x) /\ x.set = date.set /\ x.text = date.text
      /\ x.max = y /\ x.min = date.min
  <2>1. date \in DateRecords /\ date.min <= y
    BY DatedFact, DateAssumption DEF DateIInv, AppSetsMaxYear
  <2>2. /\ x \in DateRecords /\ x.set = date.set /\ x.text = date.text /\ x.focus = date.focus
        /\ x.skip = date.skip /\ x.max = y /\ x.min = date.min
        /\ x.escape = date.escape /\ x.escaped = date.escaped
    BY <2>1 DEF DateRecords
  <2> HIDE DEF x
  <2> QED
    BY <2>1, <2>2 DEF DateIInv, Dated, EntriesRight, OthersShown
<1>2. date' = IF TextYear(x) > y THEN SetPart(x, "year", y) ELSE x
  BY DEF AppSetsMaxYear
<1> HIDE DEF x
<1>3. TextYear(x) = TextYear(date)
  BY <1>1 DEF TextYear
<1>4. /\ Dated(date) /\ y \in Nat /\ date.max \in Nat /\ date.min \in Nat /\ y >= date.min
  BY DatedFact, DateAssumption DEF DateIInv, AppSetsMaxYear
<1>5. CASE TextYear(x) > y
  <2>1. date' = SetPart(x, "year", y)
    BY <1>2, <1>5
  <2>2. /\ Dated(date') /\ EntriesRight(date') /\ date'.min = x.min /\ date'.max = x.max
        /\ \/ date'.set["year"] = y
           \/ /\ date.set["month"] = 2 /\ date.set["day"] = LongDays - 1
              /\ date'.set = date.set
    BY <1>1, <2>1, LimitFact
  <2> QED
    BY <1>1, <1>4, <2>2 DEF DateIInv, YearGoesAlong
<1>6. CASE ~(TextYear(x) > y)
  <2>1. date' = x
    BY <1>2, <1>6
  <2>2. ASSUME date.focus = None, ~date.escaped, date.set["year"] \in date.min .. date.max
        PROVE  date'.set["year"] \in date'.min .. date'.max
    <3>1. TextYear(date) = date.set["year"]
      BY <2>2, AtRestText
    <3> QED
      BY <1>1, <1>3, <1>4, <1>6, <2>1, <2>2, <3>1
  <2> QED
    BY <1>1, <2>1, <2>2 DEF DateIInv, YearGoesAlong
<1> QED
  BY <1>5, <1>6

-----------------------------------------------------------------------------
LEMMA DateInitFact == DateInit => DateIInv
<1> SUFFICES ASSUME DateInit PROVE DateIInv
  OBVIOUS
<1>1. PICK y \in Years, min \in Years, max \in Years :
        /\ min <= y /\ y <= max
        /\ date = [set |-> [year |-> y, month |-> 1, day |-> 1],
                   text |-> [year |-> y, month |-> 1, day |-> 1],
                   focus |-> None, min |-> min, max |-> max,
                   skip |-> FALSE, escape |-> FALSE, escaped |-> FALSE]
  BY DEF DateInit
<1> DEFINE d == [year |-> y, month |-> 1, day |-> 1]
<1>2. d \in [DateParts -> DateNumbers] /\ d["year"] = y /\ d["month"] = 1 /\ d["day"] = 1
  BY NumbersFact DEF DateParts
<1>3. ValidDate(d)
  <2> DEFINE m == 1
  <2>1. m \in Nat /\ y \in Nat /\ m \in 1 .. Months /\ y # 0 /\ m = 1
    BY CalendarAssumption, DateAssumption
  <2>2. ValidDate(d) <=> m \in 1 .. DaysIn(m, y)
    BY <1>2 DEF ValidDate
  <2> HIDE DEF m, d
  <2>3. DaysIn(m, y) \in Nat /\ DaysIn(m, y) >= 1
    BY ONLY <2>1, DaysFact
  <2> QED
    BY <2>1, <2>2, <2>3
<1>4. min \in Nat /\ max \in Nat /\ y \in Nat /\ min <= max
  BY <1>1, DateAssumption
<1>5. date = [set |-> d, text |-> d, focus |-> None, min |-> min, max |-> max,
              skip |-> FALSE, escape |-> FALSE, escaped |-> FALSE]
  BY <1>1
<1> HIDE DEF d
<1>6. d \in [DateParts -> DateNumbers \union {Empty}]
  BY <1>2
<1>7. /\ date \in DateRecords /\ date.set = d /\ date.text = d /\ date.min = min
      /\ date.max = max /\ ~date.escape /\ ~date.escaped
  BY ONLY <1>2, <1>5, <1>6 DEF DateRecords
<1> QED
  BY <1>3, <1>4, <1>7, AllShown DEF DateIInv, Dated

LEMMA DateStep ==
  ASSUME DateIInv, [DateNext]_dateVars
  PROVE  /\ DateIInv' /\ YearGoesAlong
         /\ (\E t \in Numbers \union {Empty}, full \in BOOLEAN : TypeDate(t, full)) => YearInLimits
<1>1. SameLimits => YearGoesAlong
  BY DEF SameLimits, YearGoesAlong
<1>2. ASSUME NEW t \in Numbers \union {Empty}, NEW full \in BOOLEAN, TypeDate(t, full)
      PROVE  DateIInv' /\ SameLimits /\ YearInLimits
  BY <1>2, TypeDateKeeps
<1>3. ASSUME NEW f \in DateParts \union {None}, MoveDateFocus(f) PROVE DateIInv' /\ SameLimits
  BY <1>3, MoveDateFocusKeeps
<1>4. CASE PressEscape
  BY <1>1, <1>2, <1>4, PressEscapeKeeps
<1>5. CASE ReleaseEscape
  BY <1>1, <1>2, <1>5, ReleaseEscapeKeeps
<1>6. ASSUME NEW d \in Dates, PickDate(d) \/ AppSetsDate(d) PROVE DateIInv' /\ SameLimits
  BY <1>6, SetDateKeeps DEF PickDate, AppSetsDate
<1>7. ASSUME NEW p \in DateParts, NEW v \in Years \union Numbers, AppSetsPart(p, v)
      PROVE  DateIInv' /\ SameLimits
  BY <1>7, SetPartKeeps
<1>8. ASSUME NEW y \in Years, AppSetsMinYear(y) \/ AppSetsMaxYear(y)
      PROVE  DateIInv' /\ YearGoesAlong
  BY <1>8, MinYearKeeps, MaxYearKeeps
<1>9. CASE UNCHANGED dateVars
  <2>1. DateIInv' /\ SameLimits
    BY <1>9 DEF dateVars, DateIInv, Dated, EntriesRight, OthersShown, SameLimits
  <2> QED
    BY <1>1, <1>2, <2>1
<1> QED
  BY <1>1, <1>2, <1>3, <1>4, <1>5, <1>6, <1>7, <1>8, <1>9 DEF DateNext

(* However the entries of a date editor are filled, left and set, the date they *)
(* hold exists, and the entries show it when the user has left them.            *)
THEOREM DateSafe == DateSpec => []DateInv
<1>1. DateIInv /\ [DateNext]_dateVars => DateIInv'
  BY DateStep
<1> QED
  BY DateInitFact, <1>1, DateIInvImpliesInv, PTL DEF DateSpec

(* What the user types takes the year never out of its limits, and new limits  *)
(* take the year along, but for the 29th of February.                          *)
THEOREM YearsAreKept == DateSpec => YearsKept
<1>1. DateIInv /\ [DateNext]_dateVars => DateIInv'
  BY DateStep
<1>2. DateIInv /\ [DateNext]_dateVars =>
        [date'.set["year"] # date.set["year"] /\ ~date.escaped
           /\ (\E t \in Numbers \union {Empty}, full \in BOOLEAN : TypeDate(t, full))
           => date'.set["year"] \in date.min .. date.max]_dateVars
  <2> SUFFICES ASSUME DateIInv, [DateNext]_dateVars,
                      date'.set["year"] # date.set["year"], ~date.escaped,
                      \E t \in Numbers \union {Empty}, full \in BOOLEAN : TypeDate(t, full)
               PROVE  date'.set["year"] \in date.min .. date.max
    OBVIOUS
  <2>1. YearInLimits /\ DateIInv'
    BY DateStep
  <2>2. date.min \in Nat /\ date.max \in Nat
    BY DatedFact DEF DateIInv
  <2>3. date'.set["year"] \in Nat
    BY <2>1, DatedFact, PartsFact DEF DateIInv
  <2> QED
    BY <2>1, <2>2, <2>3 DEF YearInLimits
<1>3. DateIInv /\ [DateNext]_dateVars =>
        [/\ date'.min # date.min \/ date'.max # date.max
         /\ date.focus = None /\ ~date.escaped /\ date.set["year"] \in date.min .. date.max
         => \/ date'.set["year"] \in date'.min .. date'.max
            \/ /\ date.set["month"] = 2 /\ date.set["day"] = LongDays - 1
               /\ date'.set = date.set]_dateVars
  BY DateStep DEF YearGoesAlong
<1> QED
  BY DateInitFact, <1>1, <1>2, <1>3, PTL DEF DateSpec, YearsKept, YearsTypedInLimits, YearFollows

-----------------------------------------------------------------------------
(* The range editor.  An end that has not the focus is within the limits,    *)
(* and the ends are in order when none has it; what is typed into the other  *)
(* end is checked before the focus leaves it.                                *)
Ranges ==
  [text : [Ends -> Int \union NotNumbers], min : RangeValues, max : RangeValues,
   focus : Ends \union {None}]

Inside(x, e) == x.text[e] \in Int /\ x.min <= x.text[e] /\ x.text[e] <= x.max

LimitsOK(x) == x \in Ranges /\ x.min <= x.max

RangeOK(x) ==
  /\ LimitsOK(x)
  /\ \A e \in Ends : x.focus # e => Inside(x, e)
  /\ x.focus = None => x.text["low"] <= x.text["high"]

RangeIInv == RangeOK(range)

LEMMA RangeFields ==
  ASSUME NEW x \in Ranges
  PROVE  /\ x.text \in [Ends -> Int \union NotNumbers] /\ x.focus \in Ends \union {None}
         /\ x.min \in Int /\ x.max \in Int
BY RangeAssumption DEF Ranges

LEMMA InLimitsFact ==
  ASSUME NEW x, LimitsOK(x), NEW v \in Int
  PROVE  /\ InLimits(x, v) \in Int /\ x.min <= InLimits(x, v) /\ InLimits(x, v) <= x.max
         /\ x.min <= v /\ v <= x.max => InLimits(x, v) = v
         /\ \A w \in Int : v <= w => InLimits(x, v) <= InLimits(x, w)
BY RangeFields DEF LimitsOK, InLimits

LEMMA WithText ==
  ASSUME NEW x, LimitsOK(x), NEW e \in Ends, NEW t \in Int \union NotNumbers, NEW y,
         y = [x EXCEPT !.text[e] = t]
  PROVE  /\ LimitsOK(y) /\ y.min = x.min /\ y.max = x.max /\ y.focus = x.focus
         /\ y.text[e] = t /\ \A o \in Ends \ {e} : y.text[o] = x.text[o]
BY DEF LimitsOK, Ranges

LEMMA WithFocus ==
  ASSUME NEW x, LimitsOK(x), NEW e \in Ends, NEW y, y = [x EXCEPT !.focus = e]
  PROVE  /\ LimitsOK(y) /\ y.min = x.min /\ y.max = x.max /\ y.focus = e /\ y.text = x.text
BY DEF LimitsOK, Ranges

LEMMA EndValueFact ==
  ASSUME NEW x \in Ranges, NEW e \in Ends
  PROVE  /\ EndValue(x, e) \in Int /\ (x.text[e] \in Int => EndValue(x, e) = x.text[e])
         /\ x.text[e] \notin NotNumbers => x.text[e] \in Int
         /\ LowBound(x, e) \in Int /\ HighBound(x, e) \in Int
<1>1. \A o \in Ends :
        EndValue(x, o) \in Int /\ (x.text[o] \in Int => EndValue(x, o) = x.text[o])
  BY RangeFields, RangeAssumption DEF EndValue, NotNumbers
<1>2. EndValue(x, "low") \in Int /\ EndValue(x, "high") \in Int
  BY <1>1 DEF Ends
<1> QED
  BY <1>1, <1>2, RangeFields DEF LowBound, HighBound

(* What takes the place of a number out of its bounds is within the limits. *)
LEMMA CorrectedFact ==
  ASSUME NEW x, LimitsOK(x), NEW e \in Ends, NEW b \in BOOLEAN, NEW y, y = Corrected(x, e, b)
  PROVE  /\ LimitsOK(y) /\ y.min = x.min /\ y.max = x.max /\ y.focus = x.focus
         /\ \A o \in Ends \ {e} : y.text[o] = x.text[o]
         /\ y.text[e] = x.text[e] \/ Inside(y, e)
         /\ Inside(x, e) => Inside(y, e)
<1>1. x \in Ranges
  BY DEF LimitsOK
<1>2. LowBound(x, e) \in Int /\ HighBound(x, e) \in Int
  BY <1>1, EndValueFact
<1> DEFINE h == InLimits(x, HighBound(x, e))
           l == InLimits(x, LowBound(x, e))
<1>3. h \in Int /\ x.min <= h /\ h <= x.max /\ l \in Int /\ x.min <= l /\ l <= x.max
  BY <1>2, InLimitsFact
<1>4. y = [x EXCEPT !.text[e] = h] \/ y = [x EXCEPT !.text[e] = l] \/ y = x
  BY DEF Corrected
<1> HIDE DEF h, l
<1>5. ASSUME NEW t \in Int, x.min <= t, t <= x.max, y = [x EXCEPT !.text[e] = t]
      PROVE  /\ LimitsOK(y) /\ y.min = x.min /\ y.max = x.max /\ y.focus = x.focus
             /\ \A o \in Ends \ {e} : y.text[o] = x.text[o]
             /\ Inside(y, e)
  <2>1. /\ LimitsOK(y) /\ y.min = x.min /\ y.max = x.max /\ y.focus = x.focus
        /\ y.text[e] = t /\ \A o \in Ends \ {e} : y.text[o] = x.text[o]
    BY <1>5, WithText
  <2> QED
    BY <2>1, <1>5 DEF Inside
<1>6. CASE y = x
  BY <1>6
<1> QED
  BY <1>3, <1>4, <1>5, <1>6

(* An end that is left has been checked; an end keeps the focus that is     *)
(* taken back.                                                              *)
LEMMA GrabFocusFact ==
  ASSUME NEW x, LimitsOK(x), NEW e \in Ends, NEW o \in Ends, o # e, NEW y, y = GrabFocus(x, e)
  PROVE  /\ LimitsOK(y) /\ y.min = x.min /\ y.max = x.max /\ y.focus # None
         /\ y.text[e] = x.text[e] /\ (y.text[o] = x.text[o] \/ Inside(y, o))
         /\ x.focus # o => y.focus = e
         /\ x.focus = o /\ y.focus # o /\ Inside(x, e) => Inside(y, o)
<1>1. x \in Ranges /\ x.focus \in Ends \union {None} /\ Ends = {e, o} /\ None \notin Ends
  BY RangeFields, RangeAssumption DEF LimitsOK, Ends
<1>2. CASE x.focus # o
  <2>1. y = [x EXCEPT !.focus = e]
    BY <1>1, <1>2 DEF GrabFocus
  <2>2. /\ LimitsOK(y) /\ y.min = x.min /\ y.max = x.max /\ y.focus = e /\ y.text = x.text
    BY <2>1, WithFocus
  <2> QED
    BY <1>1, <1>2, <2>2
<1>3. CASE x.focus = o /\ Fails(x, o, FALSE)
  <2>1. y = Corrected(x, o, FALSE)
    BY <1>1, <1>3 DEF GrabFocus
  <2>2. /\ LimitsOK(y) /\ y.min = x.min /\ y.max = x.max /\ y.focus = x.focus
        /\ y.text[e] = x.text[e]
        /\ y.text[o] = x.text[o] \/ Inside(y, o)
    <3>1. PICK b \in BOOLEAN : y = Corrected(x, o, b)
      BY <2>1, Zenon
    <3> QED
      BY <3>1, CorrectedFact
  <2> QED
    BY <1>1, <1>3, <2>2
<1>4. CASE x.focus = o /\ ~Fails(x, o, FALSE)
  <2>1. y = [x EXCEPT !.focus = e]
    BY <1>1, <1>4 DEF GrabFocus
  <2>2. /\ LimitsOK(y) /\ y.min = x.min /\ y.max = x.max /\ y.focus = e /\ y.text = x.text
    BY <2>1, WithFocus
  <2>3. x.text[o] \in Int /\ LowBound(x, o) <= x.text[o] /\ x.text[o] <= HighBound(x, o)
    BY <1>1, <1>4, EndValueFact DEF Fails, FailsHigh, FailsLow, TooHigh, TooLow
  <2>4. ASSUME Inside(x, e) PROVE x.min <= LowBound(x, o) /\ HighBound(x, o) <= x.max
    <3>1. EndValue(x, e) = x.text[e]
      BY <1>1, <2>4, EndValueFact DEF Inside
    <3>2. x.min \in Int /\ x.max \in Int
      BY <1>1, RangeFields
    <3> QED
      BY <1>1, <2>4, <3>1, <3>2 DEF Inside, LowBound, HighBound, Ends
  <2>5. Inside(x, e) => Inside(y, o)
    BY <1>1, <2>2, <2>3, <2>4, EndValueFact, RangeFields DEF Inside
  <2> QED
    BY <1>1, <1>4, <2>2, <2>5
<1> QED
  BY <1>2, <1>3, <1>4

(* What setting or checking one end does to the editor x. *)
Touched(x, y, e, o) ==
  /\ LimitsOK(y) /\ y.min = x.min /\ y.max = x.max
  /\ y.text[o] = x.text[o] \/ Inside(y, o)
  /\ x.focus # o => y.focus \in {x.focus, e}
  /\ x.focus = e => y.focus = e
  /\ x.focus = o /\ y.focus # o /\ Inside(y, e) => Inside(y, o)

(* The text of an end is, or may become, one in order. *)
Typeable(x, e) == ~Fails(x, e, TRUE)

LEMMA ValidateEndFact ==
  ASSUME NEW x, LimitsOK(x), NEW e \in Ends, NEW o \in Ends, o # e, NEW b \in BOOLEAN,
         NEW y, y = ValidateEnd(x, e, b)
  PROVE  /\ Touched(x, y, e, o)
         /\ Inside(x, e) => Inside(y, e)
         /\ y.focus = None => y = x /\ ~Fails(x, e, b)
<1>1. x \in Ranges /\ None \notin Ends
  BY RangeAssumption DEF LimitsOK
<1>2. CASE ~Fails(x, e, b)
  BY <1>1, <1>2 DEF ValidateEnd, Touched
<1>3. CASE Fails(x, e, b)
  <2> DEFINE z == Corrected(x, e, b)
  <2>1. /\ LimitsOK(z) /\ z.min = x.min /\ z.max = x.max /\ z.focus = x.focus
        /\ z.text[o] = x.text[o]
        /\ Inside(x, e) => Inside(z, e)
    BY CorrectedFact
  <2>2. y = GrabFocus(z, e)
    BY <1>3 DEF ValidateEnd
  <2> HIDE DEF z
  <2>3. /\ LimitsOK(y) /\ y.min = z.min /\ y.max = z.max /\ y.focus # None
        /\ y.text[e] = z.text[e] /\ (y.text[o] = z.text[o] \/ Inside(y, o))
        /\ z.focus # o => y.focus = e
        /\ z.focus = o /\ y.focus # o /\ Inside(z, e) => Inside(y, o)
    BY <2>1, <2>2, GrabFocusFact
  <2>4. Inside(y, e) <=> Inside(z, e)
    BY <2>3 DEF Inside
  <2> QED
    BY <1>1, <2>1, <2>3, <2>4 DEF Touched
<1> QED
  BY <1>2, <1>3

LEMMA ValidateTyped ==
  ASSUME NEW x, LimitsOK(x), NEW e \in Ends, NEW o \in Ends, o # e,
         NEW y, y = ValidateEnd(x, e, TRUE)
  PROVE  /\ Touched(x, y, e, o)
         /\ Inside(x, e) => Inside(y, e)
         /\ y.focus = None => y = x /\ Typeable(x, e)
<1>0. PICK z : z = y
  OBVIOUS
<1>1. PICK b \in BOOLEAN : z = ValidateEnd(x, e, b) /\ (~Fails(x, e, b) => Typeable(x, e))
  <2>1. TRUE \in BOOLEAN /\ (~Fails(x, e, TRUE) => Typeable(x, e))
    BY DEF Typeable
  <2> QED
    BY <1>0, <2>1, Zenon
<1>2. z = ValidateEnd(x, e, b)
  BY <1>1
<1>3. /\ Touched(x, z, e, o)
      /\ Inside(x, e) => Inside(z, e)
      /\ z.focus = None => z = x /\ ~Fails(x, e, b)
  BY ONLY LimitsOK(x), e \in Ends, o \in Ends, o # e, b \in BOOLEAN, <1>2, ValidateEndFact
<1> QED
  BY <1>0, <1>1, <1>3, Zenon

LEMMA SetTextFact ==
  ASSUME NEW x, LimitsOK(x), NEW e \in Ends, NEW o \in Ends, o # e,
         NEW t \in Int \union NotNumbers, NEW y, y = SetText(x, e, t)
  PROVE  /\ Touched(x, y, e, o)
         /\ t \in Int /\ x.min <= t /\ t <= x.max => Inside(y, e)
         /\ y.focus = None => y = [x EXCEPT !.text[e] = t] /\ (y = x \/ Typeable(y, e))
<1>0. PICK z : z = [x EXCEPT !.text[e] = t]
  OBVIOUS
<1>1. /\ LimitsOK(z) /\ z.min = x.min /\ z.max = x.max /\ z.focus = x.focus
      /\ z.text[e] = t /\ z.text[o] = x.text[o]
  BY <1>0, WithText
<1>2. CASE t = x.text[e]
  <2>1. z = x
    BY <1>0, <1>2 DEF LimitsOK, Ranges
  <2> QED
    BY <1>0, <1>2, <2>1 DEF SetText, Touched, Inside
<1>3. CASE t # x.text[e]
  <2>1. y = ValidateEnd(z, e, TRUE)
    BY <1>0, <1>3 DEF SetText
  <2>2. /\ Touched(z, y, e, o)
        /\ Inside(z, e) => Inside(y, e)
        /\ y.focus = None => y = z /\ Typeable(z, e)
    BY <1>1, <2>1, ValidateTyped
  <2>3. Touched(x, y, e, o)
    BY <1>1, <2>2 DEF Touched
  <2>4. t \in Int /\ x.min <= t /\ t <= x.max => Inside(z, e)
    BY <1>1 DEF Inside
  <2>5. y.focus = None => y = [x EXCEPT !.text[e] = t] /\ Typeable(y, e)
    <3>1. z = [x EXCEPT !.text[e] = t]
      BY <1>0
    <3>2. y.focus = None => y = z /\ Typeable(z, e)
      BY <2>2
    <3> QED
      BY ONLY <3>1, <3>2, Zenon
  <2> QED
    BY <2>2, <2>3, <2>4, <2>5
<1> QED
  BY <1>2, <1>3

LEMMA SetEndFact ==
  ASSUME NEW x, LimitsOK(x), NEW e \in Ends, NEW o \in Ends, o # e,
         NEW v \in Int, NEW y, y = SetEnd(x, e, v)
  PROVE  /\ Touched(x, y, e, o) /\ Inside(y, e)
         /\ y.focus = None =>
              y = [x EXCEPT !.text[e] = InLimits(x, v)] /\ (y = x \/ Typeable(y, e))
BY InLimitsFact, SetTextFact DEF SetEnd

(* The ends set one after the other are within the limits and in order,      *)
(* whatever the editor was before.                                          *)
LEMMA RangeSetFact ==
  ASSUME NEW x, LimitsOK(x), NEW a \in Int, NEW b \in Int, NEW y, y = RangeSet(x, a, b)
  PROVE  RangeOK(y) /\ y.min = x.min /\ y.max = x.max
<1> DEFINE l == Lower(a, b)
           h == Higher(a, b)
           z == SetEnd(x, "low", l)
<1>1. l \in Int /\ h \in Int /\ l <= h
  BY DEF Lower, Higher
<1>2. y = SetEnd(z, "high", h)
  BY DEF RangeSet
<1> HIDE DEF l, h
<1>3. Ends = {"low", "high"} /\ "low" # "high" /\ "low" \in Ends /\ "high" \in Ends /\ None \notin Ends
  BY RangeAssumption DEF Ends
<1>4. /\ Touched(x, z, "low", "high") /\ Inside(z, "low")
      /\ z.focus = None => z = [x EXCEPT !.text["low"] = InLimits(x, l)]
  BY <1>1, <1>3, SetEndFact
<1> HIDE DEF z
<1>5. /\ Touched(z, y, "high", "low") /\ Inside(y, "high")
      /\ y.focus = None => y = [z EXCEPT !.text["high"] = InLimits(z, h)]
  <2>1. LimitsOK(z)
    BY <1>4 DEF Touched
  <2> QED
    BY <1>1, <1>2, <1>3, <2>1, SetEndFact
<1>6. LimitsOK(y) /\ y.min = x.min /\ y.max = x.max /\ z.min = x.min /\ z.max = x.max /\ LimitsOK(z)
  BY <1>4, <1>5 DEF Touched
<1>7. Inside(y, "low")
  BY <1>4, <1>5 DEF Touched, Inside
<1>8. ASSUME y.focus = None PROVE y.text["low"] <= y.text["high"]
  <2>1. y = [z EXCEPT !.text["high"] = InLimits(z, h)]
    BY <1>5, <1>8
  <2>2. InLimits(z, h) \in Int /\ InLimits(z, h) = InLimits(x, h)
    BY <1>1, <1>6, InLimitsFact DEF InLimits
  <2>3. y.focus = z.focus /\ y.text["high"] = InLimits(z, h) /\ y.text["low"] = z.text["low"]
    BY <1>3, <1>6, <2>1, <2>2, WithText
  <2>4. z = [x EXCEPT !.text["low"] = InLimits(x, l)]
    BY <1>4, <1>8, <2>3
  <2>5. InLimits(x, l) \in Int /\ InLimits(x, l) <= InLimits(x, h)
    BY <1>1, InLimitsFact
  <2>6. z.text["low"] = InLimits(x, l)
    BY <1>3, <2>4, <2>5, WithText
  <2> QED
    BY <2>2, <2>3, <2>5, <2>6
<1> QED
  BY <1>3, <1>5, <1>6, <1>7, <1>8 DEF RangeOK

-----------------------------------------------------------------------------
(* Numerals: a number is at least as long as the ones between it and 0. *)
LEMMA NumeralFact ==
  ASSUME NEW v \in Int
  PROVE  /\ Numeral(v) \in Nat \ {0}
         /\ \A u \in Int : Magnitude(u) <= Magnitude(v) => Numeral(u) <= Numeral(v)
<1> DEFINE Powers(n) == {k \in 1 .. n : Base ^ k <= n}
<1>1. ASSUME NEW n \in Nat PROVE IsFiniteSet(Powers(n)) /\ Cardinality(Powers(n)) \in Nat
  <2>1. IsFiniteSet(1 .. n)
    BY FS_Interval
  <2>2. Powers(n) \subseteq 1 .. n
    OBVIOUS
  <2> HIDE DEF Powers
  <2>3. IsFiniteSet(Powers(n))
    BY <2>1, <2>2, FS_Subset
  <2> QED
    BY <2>3, FS_CardinalityType
<1>2. ASSUME NEW m \in Nat, NEW n \in Nat, m <= n
      PROVE  Cardinality(Powers(m)) <= Cardinality(Powers(n))
  <2>1. \A k \in Nat : Base ^ k \in Int
    BY RangeAssumption
  <2>2. Powers(m) \subseteq Powers(n)
    BY <1>2, <2>1
  <2>3. IsFiniteSet(Powers(n))
    BY <1>1
  <2> QED
    BY <2>2, <2>3, FS_Subset
<1>3. \A u \in Int : Magnitude(u) \in Nat /\ Numeral(u) = Cardinality(Powers(Magnitude(u))) + 1
  BY DEF Magnitude, Numeral
<1> HIDE DEF Powers
<1> QED
  BY <1>1, <1>2, <1>3

LEMMA WidthFact ==
  /\ \A v \in Int \union NotNumbers : Width(v) \in Nat \ {0}
  /\ \A a, v, b \in Int : a <= v /\ v <= b => Width(v) <= Higher(Width(a), Width(b))
<1>1. ASSUME NEW v \in Int \union NotNumbers PROVE Width(v) \in Nat \ {0}
  <2>1. \A u \in Int : NumberWidth(u) \in Nat \ {0}
    BY NumeralFact DEF NumberWidth
  <2> QED
    BY <2>1, RangeAssumption DEF Width, NotNumbers
<1>2. ASSUME NEW a \in Int, NEW v \in Int, NEW b \in Int, a <= v, v <= b
      PROVE  Width(v) <= Higher(Width(a), Width(b))
  <2>1. Numeral(a) \in Nat /\ Numeral(v) \in Nat /\ Numeral(b) \in Nat
    BY NumeralFact
  <2>2. Width(v) = IF v < 0 THEN Numeral(v) + 1 ELSE Numeral(v)
    BY RangeAssumption DEF Width, NumberWidth, NotNumbers
  <2>3. CASE v < 0
    <3>1. Magnitude(v) <= Magnitude(a) /\ a < 0
      BY <1>2, <2>3 DEF Magnitude
    <3>2. Numeral(v) <= Numeral(a)
      BY <3>1, NumeralFact
    <3>3. Width(a) = Numeral(a) + 1
      BY <3>1, RangeAssumption DEF Width, NumberWidth, NotNumbers
    <3>4. Width(b) \in Nat
      BY <1>1
    <3> QED
      BY <2>1, <2>2, <2>3, <3>2, <3>3, <3>4 DEF Higher
  <2>4. CASE v >= 0
    <3>1. Magnitude(v) <= Magnitude(b) /\ b >= 0
      BY <1>2, <2>4 DEF Magnitude
    <3>2. Numeral(v) <= Numeral(b)
      BY <3>1, NumeralFact
    <3>3. Width(b) = Numeral(b)
      BY <3>1, RangeAssumption DEF Width, NumberWidth, NotNumbers
    <3>4. Width(a) \in Nat
      BY <1>1
    <3> QED
      BY <2>1, <2>2, <2>4, <3>2, <3>3, <3>4 DEF Higher
  <2> QED
    BY <2>3, <2>4
<1> QED
  BY <1>1, <1>2

LEMMA CutFact ==
  ASSUME NEW v \in Int \union NotNumbers, NEW n \in Nat \ {0}
  PROVE  CutTo(v, n) \in Int \union NotNumbers
<1>1. ASSUME NEW u \in Int, NEW k PROVE WithoutLast(u, k) \in Nat
  <2>1. IsFiniteSet(1 .. u)
    BY FS_Interval
  <2>2. {q \in 1 .. u : q * Base ^ k <= u} \subseteq 1 .. u
    OBVIOUS
  <2>3. IsFiniteSet({q \in 1 .. u : q * Base ^ k <= u})
    BY <2>1, <2>2, FS_Subset
  <2> QED
    BY <2>3, FS_CardinalityType DEF WithoutLast
<1>2. ASSUME NEW u \in Int PROVE CutNumber(u, n) \in Int \union NotNumbers
  <2>1. -u \in Int
    OBVIOUS
  <2>2. WithoutLast(-u, NumberWidth(u) - n) \in Int /\ WithoutLast(u, NumberWidth(u) - n) \in Int
    BY <1>1, <2>1
  <2>3. -WithoutLast(-u, NumberWidth(u) - n) \in Int
    BY <2>2
  <2> QED
    BY <2>2, <2>3 DEF CutNumber, NotNumbers
<1>3. CASE v \in Int \/ v = Junk
  BY <1>2, <1>3, RangeAssumption DEF CutTo
<1>4. CASE v \in NotNumbers \ {Junk}
  BY <1>4 DEF CutTo, Width
<1> QED
  BY <1>3, <1>4

LEMMA RefreshFact ==
  ASSUME NEW x, LimitsOK(x), NEW y, y = RefreshWidths(x)
  PROVE  LimitsOK(y) /\ y.min = x.min /\ y.max = x.max
<1> DEFINE z == SetText(x, "low", CutTo(x.text["low"], Room(x)))
<1>1. y = SetText(z, "high", CutTo(z.text["high"], Room(z)))
  BY DEF RefreshWidths
<1>2. \A w : LimitsOK(w) => Room(w) \in Nat \ {0}
  <2> SUFFICES ASSUME NEW w, LimitsOK(w) PROVE Room(w) \in Nat \ {0}
    OBVIOUS
  <2>1. w.min \in Int /\ w.max \in Int
    BY RangeFields DEF LimitsOK
  <2>2. Width(w.min) \in Nat \ {0} /\ Width(w.max) \in Nat \ {0}
    BY <2>1, WidthFact
  <2> QED
    BY <2>2 DEF Room, Higher
<1>3. \A w, e : LimitsOK(w) /\ e \in Ends => CutTo(w.text[e], Room(w)) \in Int \union NotNumbers
  BY <1>2, CutFact, RangeFields DEF LimitsOK
<1>4. "low" \in Ends /\ "high" \in Ends /\ "low" # "high"
  BY DEF Ends
<1>5. LimitsOK(z) /\ z.min = x.min /\ z.max = x.max
  BY <1>3, <1>4, SetTextFact DEF Touched
<1> HIDE DEF z
<1> QED
  BY <1>1, <1>3, <1>4, <1>5, SetTextFact DEF Touched

LEMMA ApplyRangeFact ==
  ASSUME NEW x, LimitsOK(x), NEW y, y = ApplyCurrentRange(RefreshWidths(x))
  PROVE  RangeOK(y) /\ y.min = x.min /\ y.max = x.max
<1> DEFINE z == RefreshWidths(x)
<1>1. LimitsOK(z) /\ z.min = x.min /\ z.max = x.max
  BY RefreshFact
<1>2. y = RangeSet(z, EndValue(z, "low"), EndValue(z, "high"))
  BY DEF ApplyCurrentRange
<1> HIDE DEF z
<1>3. EndValue(z, "low") \in Int /\ EndValue(z, "high") \in Int
  BY <1>1, EndValueFact DEF LimitsOK, Ends
<1> QED
  BY <1>1, <1>2, <1>3, RangeSetFact

LEMMA MinFact ==
  ASSUME NEW x, LimitsOK(x), NEW v \in RangeValues
  PROVE  \E y :
           /\ SetMin(x, v) = ApplyCurrentRange(RefreshWidths(y))
           /\ LimitsOK(y) /\ y.text = x.text /\ y.focus = x.focus
           /\ y.min = v /\ y.max = Higher(x.max, v)
<1>1. x \in Ranges /\ x.max \in RangeValues /\ x.max \in Int /\ v \in Int
  BY RangeAssumption DEF LimitsOK, Ranges
<1>2. PICK h : h = Higher(x.max, v)
  OBVIOUS
<1>3. h \in RangeValues /\ v <= h
  BY <1>1, <1>2 DEF Higher
<1>4. PICK y : y = [x EXCEPT !.min = v, !.max = h]
  OBVIOUS
<1>5. LimitsOK(y) /\ y.text = x.text /\ y.focus = x.focus /\ y.min = v /\ y.max = h
  BY <1>1, <1>3, <1>4 DEF LimitsOK, Ranges
<1>6. SetMin(x, v) = ApplyCurrentRange(RefreshWidths(y))
  BY <1>2, <1>4 DEF SetMin
<1> QED
  BY <1>2, <1>5, <1>6

LEMMA MaxFact ==
  ASSUME NEW x, LimitsOK(x), NEW v \in RangeValues
  PROVE  \E y :
           /\ SetMax(x, v) = ApplyCurrentRange(RefreshWidths(y))
           /\ LimitsOK(y) /\ y.text = x.text /\ y.focus = x.focus
           /\ y.max = v /\ y.min = Lower(x.min, v)
<1>1. x \in Ranges /\ x.min \in RangeValues /\ x.min \in Int /\ v \in Int
  BY RangeAssumption DEF LimitsOK, Ranges
<1>2. PICK l : l = Lower(x.min, v)
  OBVIOUS
<1>3. l \in RangeValues /\ l <= v
  BY <1>1, <1>2 DEF Lower
<1>4. PICK y : y = [x EXCEPT !.max = v, !.min = l]
  OBVIOUS
<1>5. LimitsOK(y) /\ y.text = x.text /\ y.focus = x.focus /\ y.max = v /\ y.min = l
  BY <1>1, <1>3, <1>4 DEF LimitsOK, Ranges
<1>6. SetMax(x, v) = ApplyCurrentRange(RefreshWidths(y))
  BY <1>2, <1>4 DEF SetMax
<1> QED
  BY <1>2, <1>5, <1>6

LEMMA SetLimitFact ==
  ASSUME NEW x, LimitsOK(x), NEW v \in RangeValues
  PROVE  RangeOK(SetMin(x, v)) /\ RangeOK(SetMax(x, v))
BY MinFact, MaxFact, ApplyRangeFact

-----------------------------------------------------------------------------
(* The steps. *)
LEMMA RangeInitFact == RangeInit => RangeIInv
<1> SUFFICES ASSUME RangeInit PROVE RangeIInv
  OBVIOUS
<1>1. PICK min, max \in RangeValues :
        min < max /\ range = [text |-> [low |-> min, high |-> max], min |-> min, max |-> max, focus |-> None]
  BY DEF RangeInit
<1>2. min \in Int /\ max \in Int
  BY RangeAssumption
<1>3. [low |-> min, high |-> max] \in [Ends -> Int]
  BY <1>2 DEF Ends
<1> QED
  BY <1>1, <1>2, <1>3 DEF RangeIInv, RangeOK, LimitsOK, Inside, Ranges, Ends

LEMMA TypeEndFact ==
  ASSUME RangeIInv, NEW t \in RangeTexts \union NotNumbers, TypeEnd(t)
  PROVE  RangeIInv'
<1>1. LimitsOK(range) /\ range.focus \in Ends /\ None \notin Ends /\ t \in Int \union NotNumbers
  BY RangeFields, RangeAssumption DEF RangeIInv, RangeOK, LimitsOK, TypeEnd
<1>2. PICK o \in Ends : o # range.focus /\ Ends = {o, range.focus}
  BY <1>1 DEF Ends
<1>3. Touched(range, range', range.focus, o)
  BY <1>1, <1>2, SetTextFact DEF TypeEnd
<1>4. Inside(range, o)
  BY <1>1, <1>2 DEF RangeIInv, RangeOK
<1> QED
  BY <1>1, <1>2, <1>3, <1>4 DEF Touched, RangeIInv, RangeOK, Inside

LEMMA MoveRangeFocusFact ==
  ASSUME RangeIInv, NEW f \in Ends \union {None}, MoveRangeFocus(f)
  PROVE  RangeIInv'
<1>1. LimitsOK(range) /\ range \in Ranges /\ range.focus \in Ends \union {None} /\ None \notin Ends
  BY RangeFields, RangeAssumption DEF RangeIInv, RangeOK, LimitsOK
<1>2. CASE range.focus = None
  <2>1. range' = [range EXCEPT !.focus = f] /\ f \in Ends
    BY <1>2 DEF MoveRangeFocus
  <2>2. /\ LimitsOK(range') /\ range'.min = range.min /\ range'.max = range.max
        /\ range'.focus = f /\ range'.text = range.text
    BY <1>1, <2>1, WithFocus
  <2> QED
    BY <1>1, <1>2, <2>1, <2>2 DEF RangeIInv, RangeOK, Inside
<1>3. CASE range.focus # None /\ Fails(range, range.focus, FALSE)
  <2>1. PICK b \in BOOLEAN : range' = Corrected(range, range.focus, b)
    BY <1>1, <1>3, Zenon DEF MoveRangeFocus
  <2>2. /\ LimitsOK(range') /\ range'.min = range.min /\ range'.max = range.max
        /\ range'.focus = range.focus
        /\ \A o \in Ends \ {range.focus} : range'.text[o] = range.text[o]
    BY <1>1, <1>3, <2>1, CorrectedFact
  <2> QED
    BY <1>1, <1>3, <2>2 DEF RangeIInv, RangeOK, Inside
<1>4. CASE range.focus # None /\ ~Fails(range, range.focus, FALSE)
  <2> DEFINE e == range.focus
  <2>1. range' = [range EXCEPT !.focus = f] /\ e \in Ends
    BY <1>1, <1>4 DEF MoveRangeFocus
  <2>2. /\ LimitsOK(range') /\ range'.min = range.min /\ range'.max = range.max
        /\ range'.focus = f /\ range'.text = range.text
    BY <1>1, <2>1 DEF LimitsOK, Ranges
  <2>3. range.text[e] \in Int /\ LowBound(range, e) <= range.text[e] /\ range.text[e] <= HighBound(range, e)
    BY <1>1, <1>4, <2>1, EndValueFact DEF Fails, FailsHigh, FailsLow, TooHigh, TooLow
  <2>4. PICK o \in Ends : o # e /\ Ends = {o, e}
    BY <2>1 DEF Ends
  <2>5. Inside(range, o) /\ EndValue(range, o) = range.text[o]
    BY <1>1, <2>1, <2>4, EndValueFact DEF RangeIInv, RangeOK, Inside
  <2>6. /\ range.min <= LowBound(range, e) /\ HighBound(range, e) <= range.max
        /\ range.text["low"] <= range.text["high"]
    <3>1. range.min \in Int /\ range.max \in Int
      BY <1>1, RangeFields
    <3> QED
      BY <2>1, <2>3, <2>4, <2>5, <3>1 DEF Inside, LowBound, HighBound, Ends
  <2>7. Inside(range, e)
    BY <1>1, <2>1, <2>3, <2>6, EndValueFact, RangeFields DEF Inside
  <2> QED
    BY <2>2, <2>4, <2>5, <2>6, <2>7 DEF RangeIInv, RangeOK, Inside
<1> QED
  BY <1>2, <1>3, <1>4

LEMMA AppSetsEndFact ==
  ASSUME RangeIInv, NEW e \in Ends, NEW v \in Int, AppSetsEnd(e, v)
  PROVE  RangeIInv'
<1>1. LimitsOK(range) /\ None \notin Ends
  BY RangeAssumption DEF RangeIInv, RangeOK
<1>2. PICK o \in Ends : o # e /\ Ends = {o, e}
  BY DEF Ends
<1>3. /\ Touched(range, range', e, o) /\ Inside(range', e)
      /\ range'.focus = None =>
           /\ range' = [range EXCEPT !.text[e] = InLimits(range, v)]
           /\ range' = range \/ Typeable(range', e)
  BY <1>1, <1>2, SetEndFact DEF AppSetsEnd
<1>4. range'.focus # o => Inside(range', o)
  BY <1>1, <1>2, <1>3 DEF Touched, RangeIInv, RangeOK, Inside
<1>5. ASSUME range'.focus = None PROVE range'.text["low"] <= range'.text["high"]
  <2>1. CASE range' = range
    BY <1>5, <2>1 DEF RangeIInv, RangeOK
  <2>2. CASE range' # range
    <3>1. Typeable(range', e) /\ range' = [range EXCEPT !.text[e] = InLimits(range, v)]
      BY <1>3, <1>5, <2>2
    <3>2. ~Fails(range', e, FALSE)
      BY <3>1 DEF AppSetsEnd, TakenForTyping, Typeable
    <3>3. range' \in Ranges /\ Inside(range', o) /\ Inside(range', e)
      BY <1>1, <1>2, <1>3, <1>4, <1>5 DEF Touched, LimitsOK
    <3>4. LowBound(range', e) <= range'.text[e] /\ range'.text[e] <= HighBound(range', e)
      BY <3>2, <3>3, EndValueFact, RangeAssumption
      DEF Fails, FailsHigh, FailsLow, TooHigh, TooLow, Inside
    <3>5. EndValue(range', o) = range'.text[o]
      BY <3>3, EndValueFact DEF Inside
    <3> QED
      BY <1>2, <3>4, <3>5 DEF LowBound, HighBound, Ends
  <2> QED
    BY <2>1, <2>2
<1> QED
  BY <1>1, <1>2, <1>3, <1>4, <1>5 DEF RangeIInv, RangeOK, Touched

LEMMA RangeStepFact == RangeIInv /\ [RangeNext]_rangeVars => RangeIInv'
<1> SUFFICES ASSUME RangeIInv, [RangeNext]_rangeVars PROVE RangeIInv'
  OBVIOUS
<1>1. LimitsOK(range) /\ RangeValues \subseteq Int
  BY RangeAssumption DEF RangeIInv, RangeOK
<1>2. ASSUME NEW t \in RangeTexts \union NotNumbers, TypeEnd(t) PROVE RangeIInv'
  BY <1>2, TypeEndFact
<1>3. ASSUME NEW f \in Ends \union {None}, MoveRangeFocus(f) PROVE RangeIInv'
  BY <1>3, MoveRangeFocusFact
<1>4. ASSUME NEW start \in RangeValues, NEW end \in RangeValues, AppSetsRangeEnds(start, end)
      PROVE  RangeIInv'
  BY <1>1, <1>4, RangeSetFact DEF AppSetsRangeEnds, RangeIInv
<1>5. ASSUME NEW min \in RangeValues, NEW max \in RangeValues, AppSetsLimits(min, max)
      PROVE  RangeIInv'
  <2>1. RangeOK(SetMin(range, min))
    BY <1>1, SetLimitFact
  <2>2. RangeOK(SetMax(SetMin(range, min), max))
    BY <2>1, SetLimitFact DEF RangeOK
  <2> QED
    BY <1>5, <2>2 DEF AppSetsLimits, SetLimits, RangeIInv
<1>6. ASSUME NEW v \in RangeValues, AppSetsMin(v) \/ AppSetsMax(v) PROVE RangeIInv'
  BY <1>1, <1>6, SetLimitFact DEF AppSetsMin, AppSetsMax, RangeIInv
<1>7. ASSUME NEW v \in RangeValues, NEW e \in Ends, AppSetsEnd(e, v) PROVE RangeIInv'
  BY <1>1, <1>7, AppSetsEndFact
<1>8. CASE UNCHANGED rangeVars
  BY <1>8 DEF rangeVars, RangeIInv
<1> QED
  BY <1>2, <1>3, <1>4, <1>5, <1>6, <1>7, <1>8 DEF RangeNext

-----------------------------------------------------------------------------
(* What the application sets is taken. *)
LEMMA OrderedSetText ==
  ASSUME NEW x, LimitsOK(x), NEW e \in Ends, NEW t \in Int,
         LowBound(x, e) <= t, t <= HighBound(x, e)
  PROVE  SetText(x, e, t) = [x EXCEPT !.text[e] = t]
<1>1. PICK z : z = [x EXCEPT !.text[e] = t]
  OBVIOUS
<1>2. /\ LimitsOK(z) /\ z.min = x.min /\ z.max = x.max /\ z.text[e] = t
      /\ \A o \in Ends \ {e} : z.text[o] = x.text[o]
  BY <1>1, WithText
<1>3. LowBound(z, e) = LowBound(x, e) /\ HighBound(z, e) = HighBound(x, e)
  BY <1>2 DEF LowBound, HighBound, EndValue, Ends
<1>4. LowBound(x, e) \in Int /\ HighBound(x, e) \in Int
  BY EndValueFact DEF LimitsOK
<1>5. Typeable(z, e)
  BY <1>2, <1>3, <1>4, RangeAssumption DEF Typeable, Fails, FailsHigh, FailsLow, TooHigh, TooLow
<1>6. ValidateEnd(z, e, TRUE) = z
  BY <1>5 DEF ValidateEnd, Typeable
<1>7. CASE t = x.text[e]
  <2>1. z = x
    BY <1>1, <1>7 DEF LimitsOK, Ranges
  <2> QED
    BY <1>1, <1>7, <2>1 DEF SetText
<1>8. CASE t # x.text[e]
  BY <1>1, <1>6, <1>8 DEF SetText
<1> QED
  BY <1>7, <1>8

LEMMA OrderedSetEnd ==
  ASSUME NEW x, LimitsOK(x), NEW v \in Int, NEW h, h = InLimits(x, v),
         x.text["low"] \in Int, x.text["low"] <= h, h <= x.max
  PROVE  SetEnd(x, "high", v) = [x EXCEPT !.text["high"] = h]
<1>1. "low" \in Ends /\ "high" \in Ends /\ h \in Int
  BY InLimitsFact DEF Ends
<1>2. EndValue(x, "low") = x.text["low"]
  BY <1>1, EndValueFact DEF LimitsOK
<1>3. LowBound(x, "high") <= h /\ h <= HighBound(x, "high")
  BY <1>2 DEF LowBound, HighBound
<1>4. SetText(x, "high", h) = [x EXCEPT !.text["high"] = h]
  BY <1>1, <1>3, OrderedSetText
<1> QED
  BY <1>4 DEF SetEnd

(* A lower end set above the higher one is taken for the beginning of a number *)
(* if it is negative, and becomes the higher one otherwise.                    *)
LEMMA LowerSet ==
  ASSUME NEW x, RangeOK(x), x.focus = None, NEW v \in Int, NEW l, l = InLimits(x, v)
  PROVE  \E y :
           /\ SetEnd(x, "low", v) = y
           /\ LimitsOK(y) /\ y.min = x.min /\ y.max = x.max
           /\ y.text["high"] = x.text["high"]
           /\ y.text["low"] = IF l > x.text["high"] /\ l >= 0 THEN x.text["high"] ELSE l
<1> DEFINE h == x.text["high"]
<1>1. /\ LimitsOK(x) /\ x \in Ranges /\ x.min \in Int /\ x.max \in Int
      /\ "low" \in Ends /\ "high" \in Ends \ {"low"} /\ None \notin Ends
      /\ l \in Int /\ x.min <= l /\ l <= x.max
      /\ h \in Int /\ x.min <= h /\ h <= x.max
      /\ x.text["low"] \in Int /\ x.text["low"] <= h
  BY RangeFields, RangeAssumption, InLimitsFact DEF RangeOK, LimitsOK, Inside, Ends
<1>2. SetEnd(x, "low", v) = SetText(x, "low", l)
  BY DEF SetEnd
<1>3. PICK z : z = [x EXCEPT !.text["low"] = l]
  OBVIOUS
<1>4. /\ LimitsOK(z) /\ z.min = x.min /\ z.max = x.max /\ z.focus = None
      /\ z.text["low"] = l /\ z.text["high"] = h
  BY <1>1, <1>3, WithText
<1> HIDE DEF h
<1>5. LowBound(x, "low") = x.min /\ HighBound(x, "low") = h
  BY <1>1, EndValueFact DEF LowBound, HighBound, h
<1>6. LowBound(z, "low") = x.min /\ HighBound(z, "low") = h
  <2>1. EndValue(z, "high") = h
    BY <1>1, <1>4, EndValueFact DEF LimitsOK
  <2> QED
    BY <1>4, <2>1 DEF LowBound, HighBound
<1>7. CASE l <= h
  <2>1. SetText(x, "low", l) = z
    BY <1>1, <1>3, <1>5, <1>7, OrderedSetText
  <2>2. ~(l > h)
    BY <1>1, <1>7
  <2> QED
    BY <1>2, <1>4, <2>1, <2>2 DEF h
<1>8. CASE l > h
  <2>1. l \notin NotNumbers /\ l # x.text["low"]
    BY <1>1, <1>8, RangeAssumption
  <2>2. SetText(x, "low", l) = ValidateEnd(z, "low", TRUE)
    BY <1>3, <2>1 DEF SetText
  <2>3. CASE l >= 0
    <3>1. FailsHigh(z, "low", TRUE)
      BY <1>1, <1>4, <1>6, <1>8, <2>1, <2>3 DEF FailsHigh, TooHigh
    <3>2. PICK w : w = [z EXCEPT !.text["low"] = h]
      OBVIOUS
    <3>3. InLimits(z, h) = h
      BY <1>1, <1>4, InLimitsFact
    <3>4. Corrected(z, "low", TRUE) = w
      BY <1>6, <3>1, <3>2, <3>3 DEF Corrected
    <3>5. /\ LimitsOK(w) /\ w.min = z.min /\ w.max = z.max /\ w.focus = None
          /\ w.text["low"] = h /\ w.text["high"] = h
      BY <1>1, <1>4, <3>2, WithText
    <3>6. PICK y : y = [w EXCEPT !.focus = "low"]
      OBVIOUS
    <3>7. LimitsOK(y) /\ y.min = w.min /\ y.max = w.max /\ y.text = w.text
      BY <1>1, <3>5, <3>6, WithFocus
    <3>8. GrabFocus(w, "low") = y
      BY <3>5, <3>6 DEF GrabFocus
    <3>9. SetText(x, "low", l) = y
      BY <2>2, <3>1, <3>4, <3>8 DEF ValidateEnd, Fails
    <3> QED
      BY <1>1, <1>2, <1>4, <1>8, <2>3, <3>5, <3>7, <3>9 DEF h
  <2>4. CASE l < 0
    <3>1. h < 0 /\ ~(l >= 0) /\ ~(l < x.min)
      BY <1>1, <1>8, <2>4
    <3>2. ~Fails(z, "low", TRUE)
      <4>1. ~FailsHigh(z, "low", TRUE)
        BY <1>1, <1>4, <1>6, <2>4, <3>1 DEF FailsHigh, TooHigh
      <4>2. ~FailsLow(z, "low", TRUE)
        BY <1>1, <1>4, <1>6, <3>1 DEF FailsLow, TooLow
      <4> QED
        BY <1>4, <2>1, <4>1, <4>2 DEF Fails
    <3>3. SetText(x, "low", l) = z
      BY <2>2, <3>2 DEF ValidateEnd
    <3> QED
      BY <1>2, <1>4, <3>1, <3>3 DEF h
  <2> QED
    BY <1>1, <2>3, <2>4
<1> QED
  BY <1>1, <1>7, <1>8

LEMMA TakenFact ==
  ASSUME NEW x, RangeOK(x), x.focus = None, NEW a \in Int, NEW b \in Int
  PROVE  LET low == InLimits(x, Lower(a, b))
             before == x.text["high"]
         IN RangeSet(x, a, b).text =
              [low |-> IF low > before /\ low >= 0 THEN before ELSE low,
               high |-> InLimits(x, Higher(a, b))]
<1>1. PICK l, h : l = InLimits(x, Lower(a, b)) /\ h = InLimits(x, Higher(a, b))
  OBVIOUS
<1>2. PICK k : k = IF l > x.text["high"] /\ l >= 0 THEN x.text["high"] ELSE l
  OBVIOUS
<1>3. /\ Lower(a, b) \in Int /\ Higher(a, b) \in Int /\ Lower(a, b) <= Higher(a, b)
      /\ LimitsOK(x) /\ x.min \in Int /\ x.max \in Int /\ x.text["high"] \in Int
      /\ "high" \in Ends /\ Ends = {"low", "high"} /\ None \notin Ends
  BY RangeFields, RangeAssumption DEF Lower, Higher, RangeOK, LimitsOK, Inside, Ends
<1>4. l \in Int /\ x.min <= l /\ h \in Int /\ l <= h /\ h <= x.max
  BY <1>1, <1>3, InLimitsFact
<1>5. k \in Int /\ k <= h
  BY <1>2, <1>3, <1>4
<1>6. PICK y :
        /\ SetEnd(x, "low", Lower(a, b)) = y
        /\ LimitsOK(y) /\ y.min = x.min /\ y.max = x.max
        /\ y.text["low"] = k
  BY <1>1, <1>2, <1>3, LowerSet
<1>7. PICK z : z = [y EXCEPT !.text["high"] = h]
  OBVIOUS
<1>8. SetEnd(y, "high", Higher(a, b)) = z
  <2>1. InLimits(y, Higher(a, b)) = h
    BY <1>1, <1>6 DEF InLimits
  <2> QED
    BY <1>3, <1>4, <1>5, <1>6, <1>7, <2>1, OrderedSetEnd
<1>9. LimitsOK(z) /\ z.text["high"] = h /\ z.text["low"] = k
  BY <1>3, <1>4, <1>6, <1>7, WithText DEF Ends
<1>10. z.text = [low |-> k, high |-> h]
  <2>1. z.text \in [Ends -> Int \union NotNumbers]
    BY <1>9, RangeFields DEF LimitsOK
  <2> QED
    BY <1>3, <1>9, <2>1
<1> QED
  BY <1>1, <1>2, <1>6, <1>8, <1>10 DEF RangeSet

(* An editor whose ends are in order within the limits is left as it is. *)
LEMMA SparedFact ==
  ASSUME NEW x, RangeOK(x), x.focus = None
  PROVE  ApplyCurrentRange(RefreshWidths(x)) = x
<1>1. /\ LimitsOK(x) /\ x \in Ranges /\ x.min \in Int /\ x.max \in Int
      /\ Ends = {"low", "high"} /\ None \notin Ends
      /\ Inside(x, "low") /\ Inside(x, "high") /\ x.text["low"] <= x.text["high"]
  BY RangeFields, RangeAssumption DEF RangeOK, LimitsOK, Ends
<1>2. \A e \in Ends : CutTo(x.text[e], Room(x)) = x.text[e]
  <2>1. \A e \in Ends : Width(x.text[e]) <= Room(x)
    BY <1>1, WidthFact DEF Inside, Room
  <2> QED
    BY <2>1 DEF CutTo
<1>3. RefreshWidths(x) = x
  <2>1. SetText(x, "low", CutTo(x.text["low"], Room(x))) = x
    BY <1>1, <1>2 DEF SetText
  <2>2. SetText(x, "high", CutTo(x.text["high"], Room(x))) = x
    BY <1>1, <1>2 DEF SetText
  <2> QED
    BY <2>1, <2>2 DEF RefreshWidths
<1>4. \A e \in Ends : EndValue(x, e) = x.text[e] /\ InLimits(x, x.text[e]) = x.text[e]
  BY <1>1, EndValueFact, InLimitsFact DEF Inside
<1>5. \A e \in Ends : SetEnd(x, e, x.text[e]) = x
  BY <1>4 DEF SetEnd, SetText
<1>6. /\ Lower(x.text["low"], x.text["high"]) = x.text["low"]
      /\ Higher(x.text["low"], x.text["high"]) = x.text["high"]
  BY <1>1 DEF Inside, Lower, Higher
<1> QED
  BY <1>1, <1>3, <1>4, <1>5, <1>6 DEF ApplyCurrentRange, RangeSet

LEMMA SpareFact ==
  ASSUME NEW x, RangeOK(x), x.focus = None, NEW min \in RangeValues, NEW max \in RangeValues,
         min <= x.text["low"], x.text["high"] <= max
  PROVE  SetLimits(x, min, max).text = x.text
<1>1. /\ LimitsOK(x) /\ x.min \in Int /\ x.max \in Int /\ min \in Int /\ max \in Int
      /\ Ends = {"low", "high"} /\ None \notin Ends
      /\ Inside(x, "low") /\ Inside(x, "high") /\ x.text["low"] <= x.text["high"]
  BY RangeFields, RangeAssumption DEF RangeOK, LimitsOK, Ends
<1>2. PICK y :
        /\ SetMin(x, min) = ApplyCurrentRange(RefreshWidths(y))
        /\ LimitsOK(y) /\ y.text = x.text /\ y.focus = x.focus
        /\ y.min = min /\ y.max = Higher(x.max, min)
  BY <1>1, MinFact
<1>3. RangeOK(y)
  BY <1>1, <1>2 DEF RangeOK, Inside, Higher
<1>4. SetMin(x, min) = y
  BY <1>2, <1>3, SparedFact
<1>5. PICK z :
        /\ SetMax(y, max) = ApplyCurrentRange(RefreshWidths(z))
        /\ LimitsOK(z) /\ z.text = y.text /\ z.focus = y.focus
        /\ z.max = max /\ z.min = Lower(y.min, max)
  BY <1>2, MaxFact
<1>6. RangeOK(z)
  BY <1>1, <1>2, <1>5 DEF RangeOK, Inside, Lower
<1>7. SetMax(y, max) = z
  BY <1>2, <1>5, <1>6, SparedFact
<1> QED
  BY <1>2, <1>4, <1>5, <1>7 DEF SetLimits

LEMMA RangeIInvImpliesInv == RangeIInv => RangeInv
<1> SUFFICES ASSUME RangeIInv PROVE RangeInv
  OBVIOUS
<1>1. /\ RangeOK(range) /\ LimitsOK(range) /\ RangeValues \subseteq Int
      /\ None \notin Ends /\ Ends = {"low", "high"} /\ NotNumbers \intersect Int = {}
  BY RangeAssumption DEF RangeIInv, RangeOK, Ends
<1>2. RangeTypeOK
  BY <1>1 DEF RangeTypeOK, LimitsOK, Ranges
<1>3. RangeAtRest
  BY <1>1 DEF RangeAtRest, AtRest, RangeOK, Inside
<1>4. RangeTaken
  BY <1>1, TakenFact DEF RangeTaken, AtRest
<1>5. LimitsSpare
  BY <1>1, SpareFact DEF LimitsSpare, AtRest
<1> QED
  BY <1>2, <1>3, <1>4, <1>5 DEF RangeInv

(* However a range editor is typed into and set by its application, once left *)
(* it holds a range within its limits; of any range it is given it shows both *)
(* ends within the limits, but for a start above the end shown before, which  *)
(* is lost unless it is negative; and new limits leave a range within them   *)
(* alone.                                                                    *)
THEOREM RangeSafe == RangeSpec => []RangeInv
<1>1. RangeInit => RangeIInv
  BY RangeInitFact
<1>2. RangeIInv /\ [RangeNext]_rangeVars => RangeIInv'
  BY RangeStepFact
<1>3. RangeIInv => RangeInv
  BY RangeIInvImpliesInv
<1> QED
  BY <1>1, <1>2, <1>3, PTL DEF RangeSpec

-----------------------------------------------------------------------------
(* The calendar.  Every move ends in a selected day that the month has, with  *)
(* the focus on its cell, but for a month or a day set by the application.    *)
Calendars ==
  [year : CalYears, month : 1 .. Months, selected : 1 .. LongDays, focus : Cells,
   min : CalYears, max : CalYears, today : Todays,
   pressed : Presses, spin : {None} \union Arrows,
   keys : BOOLEAN, bad : BOOLEAN, pending : BOOLEAN]

InYears(x) == x \in Calendars /\ x.min <= x.year /\ x.year <= x.max

OnDay(x) == x.selected \in 1 .. Length(x) /\ x.focus = CellOf(x, x.selected)

CalendarOK(x) ==
  /\ InYears(x)
  /\ ~x.pending => x.selected \in 1 .. Length(x) /\ (x.keys => x.focus = CellOf(x, x.selected))

CalendarIInv == CalendarOK(cal)

(* What a move over the grid leaves alone. *)
SameCalendar(x, y) ==
  /\ y.min = x.min /\ y.max = x.max /\ y.today = x.today /\ y.keys = x.keys
  /\ y.pressed = x.pressed /\ y.spin = x.spin /\ y.bad = x.bad

SameMonth(x, y) == y.month = x.month /\ y.year = x.year

LEMMA CalendarNumbers ==
  /\ Months \in Nat /\ Months > 2 /\ LongDays \in Nat /\ LongDays > 2
  /\ WeekDays \in Nat /\ WeekDays > 0 /\ CalYears \subseteq Nat \ {0}
  /\ \A y, z \in CalYears : y .. z \subseteq CalYears
  /\ \E n \in Nat : n = WeekDays * Weeks /\ Cells = 0 .. n - 1
                    /\ n >= WeekDays + LongDays /\ n <= 2 * (LongDays - 2)
<1>1. Months \in Nat /\ Months > 2 /\ LongDays \in Nat /\ LongDays > 2
  BY CalendarAssumption
<1>2. WeekDays \in Nat /\ WeekDays > 0 /\ Weeks \in Nat /\ CalYears \subseteq Nat \ {0}
      /\ \A y, z \in CalYears : y .. z \subseteq CalYears
  BY CalendarGridAssumption
<1>3. PICK n \in Nat : n = WeekDays * Weeks
  BY <1>2
<1>4. n \in WeekDays + LongDays .. 2 * (LongDays - 2)
  BY <1>3, CalendarGridAssumption
<1>5. Cells = 0 .. n - 1
  BY <1>3 DEF Cells
<1> QED
  BY <1>1, <1>2, <1>3, <1>4, <1>5

LEMMA MonthDaysFact ==
  ASSUME NEW m \in 1 .. Months, NEW y \in CalYears
  PROVE  /\ DaysIn(m, y) \in LongDays - 2 .. LongDays /\ DaysIn(m, y) \in Nat \ {0}
         /\ m # 2 => DaysIn(m, y) = LongDays
BY CalendarNumbers DEF DaysIn

LEMMA FirstFact ==
  ASSUME NEW m \in 1 .. Months, NEW y \in CalYears
  PROVE  DaysBefore(m, y) % WeekDays \in 0 .. WeekDays - 1
<1>1. PICK a \in Int : a = Months * LongDays - 2
  BY CalendarNumbers
<1>2. y - 1 \in Int /\ m - 1 \in Int
  BY CalendarNumbers
<1>3. PICK b \in Int : b = (y - 1) * a
  BY <1>1, <1>2
<1>4. PICK c \in Int : c = (m - 1) * LongDays
  BY <1>2, CalendarNumbers
<1>5. (y - 1) \div 2 \in Int
  BY <1>2
<1>6. DaysBefore(m, y) = b + (y - 1) \div 2 + c - (IF m <= 2 THEN 0 ELSE IF Leap(y) THEN 1 ELSE 2)
  BY <1>1, <1>3, <1>4 DEF DaysBefore
<1>7. DaysBefore(m, y) \in Int
  BY <1>3, <1>4, <1>5, <1>6
<1> QED
  BY <1>7, CalendarNumbers

LEMMA MonthFact ==
  ASSUME NEW x, InYears(x)
  PROVE  /\ FirstCell(x) \in 0 .. WeekDays - 1
         /\ Length(x) \in LongDays - 2 .. LongDays /\ Length(x) \in Nat \ {0}
         /\ LastOfPrev(x) \in LongDays - 2 .. LongDays /\ LastOfPrev(x) \in Nat \ {0}
         /\ \A d \in 1 .. Length(x) : CellOf(x, d) \in Cells
<1>1. x.month \in 1 .. Months /\ x.year \in CalYears
  BY DEF InYears, Calendars
<1>2. FirstCell(x) \in 0 .. WeekDays - 1
  BY <1>1, FirstFact DEF FirstCell
<1>3. Length(x) \in LongDays - 2 .. LongDays /\ Length(x) \in Nat \ {0}
  BY <1>1, MonthDaysFact DEF Length
<1>4. (IF x.month > 1 THEN x.month - 1 ELSE Months) \in 1 .. Months
  BY <1>1, CalendarNumbers
<1>5. LastOfPrev(x) \in LongDays - 2 .. LongDays /\ LastOfPrev(x) \in Nat \ {0}
  BY <1>1, <1>4, MonthDaysFact DEF LastOfPrev
<1>6. ASSUME NEW d \in 1 .. Length(x) PROVE CellOf(x, d) \in Cells
  BY <1>2, <1>3, CalendarNumbers DEF CellOf
<1> QED
  BY <1>2, <1>3, <1>5, <1>6

LEMMA CellFact ==
  ASSUME NEW x, InYears(x), NEW k \in Cells
  PROVE  /\ CellDay(x, k) \in 1 .. LongDays
         /\ CellKind(x, k) \in {"prev", "current", "next"}
         /\ CellKind(x, k) = "prev" => CellDay(x, k) <= LastOfPrev(x)
         /\ CellKind(x, k) = "next" => CellDay(x, k) <= LongDays - 2
         /\ CellKind(x, k) = "current" => CellDay(x, k) \in 1 .. Length(x)
         /\ CellKind(x, k) = "current" <=> k >= FirstCell(x) /\ k < FirstCell(x) + Length(x)
<1>1. PICK n \in Nat : Cells = 0 .. n - 1 /\ n >= WeekDays + LongDays /\ n <= 2 * (LongDays - 2)
  BY CalendarNumbers
<1>2. k \in Int /\ k >= 0 /\ k < n /\ WeekDays \in Nat /\ WeekDays > 0 /\ LongDays \in Nat
      /\ WeekDays <= LongDays - 4
  BY <1>1, CalendarNumbers
<1>3. /\ FirstCell(x) \in Int /\ FirstCell(x) >= 0 /\ FirstCell(x) < WeekDays
      /\ Length(x) \in Int /\ Length(x) >= LongDays - 2 /\ Length(x) <= LongDays
      /\ LastOfPrev(x) \in Int /\ LastOfPrev(x) >= LongDays - 2 /\ LastOfPrev(x) <= LongDays
  BY <1>2, MonthFact
<1>4. CASE k < FirstCell(x)
  <2>1. CellKind(x, k) = "prev"
    BY <1>4 DEF CellKind
  <2>2. CellDay(x, k) = LastOfPrev(x) - FirstCell(x) + 1 + k
    BY <2>1 DEF CellDay, LastOfPrev
  <2> QED
    BY <1>2, <1>3, <1>4, <2>1, <2>2
<1>5. CASE k >= FirstCell(x) /\ k < FirstCell(x) + Length(x)
  <2>1. CellKind(x, k) = "current"
    BY <1>2, <1>3, <1>5 DEF CellKind
  <2>2. CellDay(x, k) = k - FirstCell(x) + 1
    BY <2>1 DEF CellDay
  <2> QED
    BY <1>2, <1>3, <1>5, <2>1, <2>2
<1>6. CASE k >= FirstCell(x) + Length(x)
  <2>1. CellKind(x, k) = "next"
    BY <1>2, <1>3, <1>6 DEF CellKind
  <2>2. CellDay(x, k) = k - FirstCell(x) - Length(x) + 1
    BY <2>1 DEF CellDay
  <2> QED
    BY <1>1, <1>2, <1>3, <1>6, <2>1, <2>2
<1> QED
  BY <1>2, <1>3, <1>4, <1>5, <1>6

LEMMA SelectDayFact ==
  ASSUME NEW x, InYears(x), NEW d \in Nat \ {0}, NEW y, y = SelectDay(x, d)
  PROVE  /\ InYears(y) /\ SameCalendar(x, y) /\ SameMonth(x, y)
         /\ d \in 1 .. Length(x) => y.selected = d /\ ~y.pending /\ y.focus = CellOf(x, d)
         /\ d \notin 1 .. Length(x) => (y.pending <=> x.pending)
<1> DEFINE has == d \in 1 .. Length(x)
<1>1. CASE d > LongDays
  <2>1. y = x
    BY <1>1 DEF SelectDay
  <2>2. d \notin 1 .. Length(x)
    BY <1>1, MonthFact, CalendarNumbers
  <2> QED
    BY <2>1, <2>2 DEF SameCalendar, SameMonth
<1>2. CASE d \in 1 .. LongDays
  <2>0. x \in Calendars
    BY DEF InYears
  <2>1. PICK b \in BOOLEAN : b <=> (x.pending /\ ~has)
    BY Zenon
  <2>2. b = (x.pending /\ ~has)
    BY <2>1, Zenon
  <2>3. PICK f : f = IF has THEN CellOf(x, d) ELSE x.focus
    OBVIOUS
  <2>4. f \in Cells
    BY <2>3, MonthFact DEF InYears, Calendars
  <2>5. y = [x EXCEPT !.selected = d, !.pending = b, !.focus = f]
    BY <1>2, <2>2, <2>3, CalendarNumbers DEF SelectDay
  <2>6. /\ y \in Calendars /\ y.selected = d /\ y.pending = b /\ y.focus = f
        /\ y.min = x.min /\ y.max = x.max /\ y.today = x.today /\ y.keys = x.keys
        /\ y.pressed = x.pressed /\ y.spin = x.spin /\ y.bad = x.bad
        /\ y.month = x.month /\ y.year = x.year
    BY ONLY <2>0, d \in 1 .. LongDays, b \in BOOLEAN, <2>4, <2>5 DEF Calendars
  <2> QED
    BY <1>2, <2>1, <2>3, <2>6 DEF InYears, SameCalendar, SameMonth
<1> QED
  BY <1>1, <1>2, CalendarNumbers

(* A month that comes with a day of it. *)
Fresh(x, y) == InYears(y) /\ SameCalendar(x, y) /\ ~y.pending /\ OnDay(y)

LEMMA SameMonthFact ==
  ASSUME NEW x, NEW y, SameMonth(x, y)
  PROVE  /\ Length(y) = Length(x) /\ LastOfPrev(y) = LastOfPrev(x)
         /\ \A d : CellOf(y, d) = CellOf(x, d)
         /\ \A k : CellKind(y, k) = CellKind(x, k) /\ CellDay(y, k) = CellDay(x, k)
BY DEF SameMonth, Length, LastOfPrev, CellOf, CellKind, CellDay, FirstCell

LEMMA SelectFresh ==
  ASSUME NEW x, InYears(x), NEW d \in 1 .. Length(x), NEW y, y = SelectDay(x, d)
  PROVE  Fresh(x, y) /\ SameMonth(x, y) /\ y.selected = d
<1>1. d \in Nat \ {0} /\ Length(x) \in Nat
  BY MonthFact
<1>2. /\ InYears(y) /\ SameCalendar(x, y) /\ SameMonth(x, y)
      /\ y.selected = d /\ ~y.pending /\ y.focus = CellOf(x, d)
  BY <1>1, SelectDayFact
<1>3. Length(y) = Length(x) /\ CellOf(y, d) = CellOf(x, d)
  BY <1>2, SameMonthFact
<1> QED
  BY <1>2, <1>3 DEF Fresh, OnDay

LEMMA KeepDayFact ==
  ASSUME NEW x, InYears(x), NEW y, y = KeepDay(x)
  PROVE  /\ Fresh(x, y) /\ SameMonth(x, y)
         /\ y.selected = IF Length(x) < x.selected THEN Length(x) ELSE x.selected
<1> DEFINE d == IF Length(x) < x.selected THEN Length(x) ELSE x.selected
<1>1. Length(x) \in Nat \ {0}
  BY MonthFact
<1>2. x.selected \in 1 .. LongDays
  BY DEF InYears, Calendars
<1>3. d \in 1 .. Length(x)
  BY <1>1, <1>2, CalendarNumbers
<1>4. y = SelectDay(x, d)
  BY DEF KeepDay
<1> HIDE DEF d
<1>5. Fresh(x, y) /\ SameMonth(x, y) /\ y.selected = d
  BY <1>3, <1>4, SelectFresh
<1> QED
  BY <1>5 DEF d

(* The month before and the month after the one that is shown. *)
Earlier(x, y) ==
  IF x.month > 1 THEN y.month = x.month - 1 /\ y.year = x.year
  ELSE IF x.year > x.min THEN y.month = Months /\ y.year = x.year - 1 ELSE SameMonth(x, y)

Later(x, y) ==
  IF x.month < Months THEN y.month = x.month + 1 /\ y.year = x.year
  ELSE IF x.year < x.max THEN y.month = 1 /\ y.year = x.year + 1 ELSE SameMonth(x, y)

Shortened(x, y) == y.selected = IF Length(y) < x.selected THEN Length(y) ELSE x.selected

LEMMA YearsFact ==
  ASSUME NEW x, InYears(x)
  PROVE  /\ x.year \in CalYears /\ x.min \in CalYears /\ x.max \in CalYears
         /\ x.year \in Int /\ x.min \in Int /\ x.max \in Int
         /\ x.month \in 1 .. Months /\ x.month \in Int
         /\ \A n \in Int : x.min <= n /\ n <= x.max => n \in CalYears
<1>1. x.year \in CalYears /\ x.min \in CalYears /\ x.max \in CalYears /\ x.month \in 1 .. Months
  BY DEF InYears, Calendars
<1>2. x.year \in Int /\ x.min \in Int /\ x.max \in Int /\ x.month \in Int
  <2>1. \A y \in CalYears : y \in Int
    BY CalendarNumbers
  <2>2. x.month \in Int
    BY <1>1, CalendarNumbers
  <2> QED
    BY <1>1, <2>1, <2>2, Zenon
<1>3. x.min .. x.max \subseteq CalYears
  BY <1>1, CalendarGridAssumption
<1>4. ASSUME NEW n \in Int, x.min <= n, n <= x.max PROVE n \in CalYears
  BY <1>2, <1>3, <1>4
<1> QED
  BY <1>1, <1>2, <1>4

(* A month set within the years, and its day kept. *)
Moved(x, z, m, n) ==
  InYears(z) /\ SameCalendar(x, z) /\ z.month = m /\ z.year = n /\ z.selected = x.selected

LEMMA KeptMove ==
  ASSUME NEW x, NEW m, NEW n, NEW z, Moved(x, z, m, n), NEW y, y = KeepDay(z)
  PROVE  Fresh(x, y) /\ y.month = m /\ y.year = n /\ Shortened(x, y)
<1>1. /\ Fresh(z, y) /\ SameMonth(z, y)
      /\ y.selected = IF Length(z) < z.selected THEN Length(z) ELSE z.selected
  BY KeepDayFact DEF Moved
<1>2. Length(y) = Length(z)
  BY <1>1, SameMonthFact
<1> QED
  BY <1>1, <1>2 DEF Moved, Fresh, SameCalendar, SameMonth, Shortened

LEMMA MonthPrevFact ==
  ASSUME NEW x, InYears(x), NEW y, y = MonthPrev(x)
  PROVE  Fresh(x, y) /\ Earlier(x, y) /\ Shortened(x, y)
<1>1. /\ x.year \in Int /\ x.min \in Int /\ x.max \in Int /\ x.month \in 1 .. Months
      /\ x.min <= x.year /\ x.year <= x.max /\ Months \in Nat /\ Months > 2
  BY YearsFact, CalendarNumbers DEF InYears
<1>2. CASE x.month > 1
  <2>1. PICK z : z = [x EXCEPT !.month = @ - 1]
    OBVIOUS
  <2>2. y = KeepDay(z)
    BY <1>2, <2>1 DEF MonthPrev
  <2>3. Moved(x, z, x.month - 1, x.year)
    <3>1. x \in Calendars /\ x.month - 1 \in 1 .. Months /\ x.year \in CalYears
          /\ x.min <= x.year /\ x.year <= x.max
      BY <1>1, <1>2, YearsFact DEF InYears
    <3> QED
      BY <2>1, <3>1 DEF Moved, InYears, Calendars, SameCalendar
  <2>4. Fresh(x, y) /\ y.month = x.month - 1 /\ y.year = x.year /\ Shortened(x, y)
    BY <2>2, <2>3, KeptMove
  <2> QED
    BY <1>2, <2>4 DEF Earlier
<1>3. CASE x.month <= 1 /\ x.year > x.min
  <2>1. PICK z : z = [x EXCEPT !.month = Months, !.year = @ - 1]
    OBVIOUS
  <2>2. y = KeepDay(z)
    BY <1>1, <1>3, <2>1 DEF MonthPrev
  <2>3. Moved(x, z, Months, x.year - 1)
    <3>1. x \in Calendars /\ Months \in 1 .. Months /\ x.year - 1 \in CalYears
          /\ x.min <= x.year - 1 /\ x.year - 1 <= x.max
      BY <1>1, <1>3, YearsFact DEF InYears
    <3> QED
      BY <2>1, <3>1 DEF Moved, InYears, Calendars, SameCalendar
  <2>4. Fresh(x, y) /\ y.month = Months /\ y.year = x.year - 1 /\ Shortened(x, y)
    BY <2>2, <2>3, KeptMove
  <2> QED
    BY <1>1, <1>3, <2>4 DEF Earlier
<1>4. CASE x.month <= 1 /\ x.year <= x.min
  <2>1. y = KeepDay(x)
    BY <1>1, <1>4 DEF MonthPrev
  <2>2. Fresh(x, y) /\ y.month = x.month /\ y.year = x.year /\ Shortened(x, y)
    BY <2>1, KeptMove DEF Moved, SameCalendar
  <2> QED
    BY <1>1, <1>4, <2>2 DEF Earlier, SameMonth
<1> QED
  BY <1>1, <1>2, <1>3, <1>4

LEMMA MonthNextFact ==
  ASSUME NEW x, InYears(x), NEW y, y = MonthNext(x)
  PROVE  Fresh(x, y) /\ Later(x, y) /\ Shortened(x, y)
<1>1. /\ x.year \in Int /\ x.min \in Int /\ x.max \in Int /\ x.month \in 1 .. Months
      /\ x.min <= x.year /\ x.year <= x.max /\ Months \in Nat /\ Months > 2
  BY YearsFact, CalendarNumbers DEF InYears
<1>2. CASE x.month < Months
  <2>1. PICK z : z = [x EXCEPT !.month = @ + 1]
    OBVIOUS
  <2>2. y = KeepDay(z)
    BY <1>2, <2>1 DEF MonthNext
  <2>3. Moved(x, z, x.month + 1, x.year)
    <3>1. x \in Calendars /\ x.month + 1 \in 1 .. Months /\ x.year \in CalYears
          /\ x.min <= x.year /\ x.year <= x.max
      BY <1>1, <1>2, YearsFact DEF InYears
    <3> QED
      BY <2>1, <3>1 DEF Moved, InYears, Calendars, SameCalendar
  <2>4. Fresh(x, y) /\ y.month = x.month + 1 /\ y.year = x.year /\ Shortened(x, y)
    BY <2>2, <2>3, KeptMove
  <2> QED
    BY <1>2, <2>4 DEF Later
<1>3. CASE x.month >= Months /\ x.year < x.max
  <2>1. PICK z : z = [x EXCEPT !.month = 1, !.year = @ + 1]
    OBVIOUS
  <2>2. y = KeepDay(z)
    BY <1>1, <1>3, <2>1 DEF MonthNext
  <2>3. Moved(x, z, 1, x.year + 1)
    <3>1. x \in Calendars /\ 1 \in 1 .. Months /\ x.year + 1 \in CalYears
          /\ x.min <= x.year + 1 /\ x.year + 1 <= x.max
      BY <1>1, <1>3, YearsFact DEF InYears
    <3> QED
      BY <2>1, <3>1 DEF Moved, InYears, Calendars, SameCalendar
  <2>4. Fresh(x, y) /\ y.month = 1 /\ y.year = x.year + 1 /\ Shortened(x, y)
    BY <2>2, <2>3, KeptMove
  <2> QED
    BY <1>1, <1>3, <2>4 DEF Later
<1>4. CASE x.month >= Months /\ x.year >= x.max
  <2>1. y = KeepDay(x)
    BY <1>1, <1>4 DEF MonthNext
  <2>2. Fresh(x, y) /\ y.month = x.month /\ y.year = x.year /\ Shortened(x, y)
    BY <2>1, KeptMove DEF Moved, SameCalendar
  <2> QED
    BY <1>1, <1>4, <2>2 DEF Later, SameMonth
<1> QED
  BY <1>1, <1>2, <1>3, <1>4

LEMMA YearFact ==
  ASSUME NEW x, InYears(x), NEW y, y = YearPrev(x) \/ y = YearNext(x)
  PROVE  Fresh(x, y)
<1>1. /\ x.year \in Int /\ x.min \in Int /\ x.max \in Int /\ x.month \in 1 .. Months
      /\ x.min <= x.year /\ x.year <= x.max
  BY YearsFact DEF InYears
<1>2. \/ \E n \in Int : /\ x.min <= n /\ n <= x.max
                       /\ \E z : z = [x EXCEPT !.year = n] /\ y = KeepDay(z)
      \/ y = KeepDay(x)
  <2>1. CASE y = YearPrev(x)
    <3>1. CASE x.min < x.year
      <4>1. x.year - 1 \in Int /\ x.min <= x.year - 1 /\ x.year - 1 <= x.max
        BY <1>1, <3>1
      <4>2. y = KeepDay([x EXCEPT !.year = x.year - 1])
        BY <2>1, <3>1 DEF YearPrev
      <4> QED
        BY <4>1, <4>2
    <3> QED
      BY <2>1, <3>1 DEF YearPrev
  <2>2. CASE y = YearNext(x)
    <3>1. CASE x.max > x.year
      <4>1. x.year + 1 \in Int /\ x.min <= x.year + 1 /\ x.year + 1 <= x.max
        BY <1>1, <3>1
      <4>2. y = KeepDay([x EXCEPT !.year = x.year + 1])
        BY <2>2, <3>1 DEF YearNext
      <4> QED
        BY <4>1, <4>2
    <3> QED
      BY <2>2, <3>1 DEF YearNext
  <2> QED
    BY <2>1, <2>2
<1>3. CASE y = KeepDay(x)
  BY <1>3, KeepDayFact
<1>4. ASSUME NEW n \in Int, x.min <= n, n <= x.max, NEW z, z = [x EXCEPT !.year = n], y = KeepDay(z)
      PROVE  Fresh(x, y)
  <2>1. x \in Calendars /\ n \in CalYears
    BY <1>4, YearsFact DEF InYears
  <2>2. Moved(x, z, x.month, n)
    BY <1>4, <2>1 DEF Moved, InYears, Calendars, SameCalendar
  <2> QED
    BY <1>4, <2>2, KeptMove
<1> QED
  BY <1>2, <1>3, <1>4

LEMMA ArrowFact ==
  ASSUME NEW x, InYears(x), NEW a, NEW y, y = ArrowAction(x, a)
  PROVE  Fresh(x, y)
<1>1. y = YearPrev(x) \/ y = YearNext(x) \/ y = MonthPrev(x) \/ y = MonthNext(x)
  BY DEF ArrowAction
<1> QED
  BY <1>1, YearFact, MonthPrevFact, MonthNextFact

-----------------------------------------------------------------------------
(* The steps. *)
LEMMA FreshOK ==
  ASSUME NEW x, NEW y, Fresh(x, y)
  PROVE  CalendarOK(y)
BY DEF Fresh, CalendarOK, OnDay, SameCalendar

(* A day selected in a calendar whose own day may be pending. *)
LEMMA SelectOK ==
  ASSUME NEW x, InYears(x), NEW d \in Nat \ {0}, d \in 1 .. Length(x) \/ x.pending,
         NEW y, y = SelectDay(x, d)
  PROVE  CalendarOK(y)
<1>1. CASE d \in 1 .. Length(x)
  BY <1>1, SelectFresh, FreshOK
<1>2. CASE d \notin 1 .. Length(x)
  <2>1. InYears(y) /\ SameCalendar(x, y) /\ y.pending
    BY <1>2, SelectDayFact
  <2> QED
    BY <2>1 DEF CalendarOK, SameCalendar
<1> QED
  BY <1>1, <1>2

(* A day of the month before or after, selected with a month that is kept at *)
(* the end of the years.                                                    *)
LEMMA NeighbourFact ==
  ASSUME NEW x, InYears(x), NEW k \in Cells,
         NEW y, \/ CellKind(x, k) = "prev" /\ y = MonthPrev(x)
                \/ CellKind(x, k) = "next" /\ y = MonthNext(x)
                \/ CellKind(x, k) = "current" /\ y = x
  PROVE  InYears(y) /\ SameCalendar(x, y) /\ CellDay(x, k) \in 1 .. Length(y)
<1>1. /\ x.year \in Int /\ x.min \in Int /\ x.max \in Int /\ x.month \in 1 .. Months
      /\ x.min <= x.year /\ x.year <= x.max /\ Months \in Nat /\ Months > 2
      /\ LongDays \in Nat /\ CellDay(x, k) \in 1 .. LongDays
  BY YearsFact, CalendarNumbers, CellFact DEF InYears
<1>2. CASE CellKind(x, k) = "current"
  BY <1>2, CellFact DEF SameCalendar
<1>3. CASE CellKind(x, k) = "next"
  <2>1. Fresh(x, y) /\ CellDay(x, k) <= LongDays - 2
    BY <1>3, MonthNextFact, CellFact
  <2>2. InYears(y) /\ SameCalendar(x, y)
    BY <2>1 DEF Fresh
  <2>3. Length(y) \in LongDays - 2 .. LongDays
    BY <2>2, MonthFact
  <2> QED
    BY <1>1, <2>1, <2>2, <2>3
<1>4. CASE CellKind(x, k) = "prev"
  <2>1. Fresh(x, y) /\ Earlier(x, y) /\ CellDay(x, k) <= LastOfPrev(x)
    BY <1>4, MonthPrevFact, CellFact
  <2>2. InYears(y) /\ SameCalendar(x, y)
    BY <2>1 DEF Fresh
  <2>3. Length(y) = LastOfPrev(x) \/ Length(y) = LongDays
    <3>1. CASE x.month > 1
      BY <2>1, <3>1 DEF Earlier, Length, LastOfPrev
    <3>2. CASE x.month = 1
      <4>1. y.month \in 1 .. Months /\ y.month # 2 /\ y.year \in CalYears
        BY <1>1, <2>1, <2>2, <3>2, YearsFact DEF Earlier, SameMonth
      <4> QED
        BY <4>1, MonthDaysFact DEF Length
    <3> QED
      BY <1>1, <3>1, <3>2
  <2>4. LastOfPrev(x) \in Int
    BY MonthFact
  <2> QED
    BY <1>1, <2>1, <2>2, <2>3, <2>4
<1> QED
  BY <1>2, <1>3, <1>4

(* A key moves the focus to a cell. *)
LEMMA CellFocusFact ==
  ASSUME NEW x, InYears(x), NEW k \in Cells, NEW y, y = [x EXCEPT !.focus = k]
  PROVE  /\ InYears(y) /\ SameCalendar(x, y) /\ SameMonth(x, y) /\ y.focus = k
         /\ y.selected = x.selected /\ y.pending = x.pending
BY DEF InYears, Calendars, SameCalendar, SameMonth

LEMMA SelectedFact ==
  ASSUME NEW x, InYears(x), NEW d \in 1 .. LongDays, NEW y, y = [x EXCEPT !.selected = d]
  PROVE  /\ InYears(y) /\ SameCalendar(x, y) /\ SameMonth(x, y) /\ y.selected = d
BY DEF InYears, Calendars, SameCalendar, SameMonth

(* Without keyboard navigation only the focus moves. *)
LEMMA FocusOnly ==
  ASSUME NEW x, CalendarOK(x), ~x.keys, NEW k \in Cells, NEW y, y = [x EXCEPT !.focus = k]
  PROVE  CalendarOK(y)
<1>1. /\ InYears(y) /\ SameCalendar(x, y) /\ SameMonth(x, y)
      /\ y.selected = x.selected /\ y.pending = x.pending
  BY CellFocusFact DEF CalendarOK
<1>2. Length(y) = Length(x)
  BY <1>1, SameMonthFact
<1> QED
  BY <1>1, <1>2 DEF CalendarOK, SameCalendar

LEMMA CellSteps ==
  ASSUME NEW k \in Cells
  PROVE  /\ k \in Int /\ (IF k > 0 THEN k - 1 ELSE k) \in Cells
         /\ (IF k + 1 \in Cells THEN k + 1 ELSE k) \in Cells
         /\ (IF k >= WeekDays THEN k - WeekDays ELSE k) \in Cells
         /\ (IF k + WeekDays \in Cells THEN k + WeekDays ELSE k) \in Cells
<1>1. PICK n \in Nat : Cells = 0 .. n - 1
  BY CalendarNumbers
<1> QED
  BY <1>1, CalendarNumbers

(* What a key does after the focus has moved. *)
KeyMoves(x, y) ==
  /\ InYears(x) /\ InYears(y) /\ SameCalendar(x, y) /\ SameMonth(x, y)
  /\ y.selected = x.selected /\ y.pending = x.pending
  /\ Length(y) = Length(x) /\ x.selected \in 1 .. LongDays /\ x.selected \in Nat \ {0}
  /\ ~x.pending => x.selected \in 1 .. Length(x)

LEMMA KeyMovesFact ==
  ASSUME NEW x, CalendarOK(x), NEW k \in Cells, NEW y, y = [x EXCEPT !.focus = k]
  PROVE  KeyMoves(x, y) /\ y.focus = k
<1>1. /\ InYears(y) /\ SameCalendar(x, y) /\ SameMonth(x, y) /\ y.focus = k
      /\ y.selected = x.selected /\ y.pending = x.pending
  BY CellFocusFact DEF CalendarOK
<1>2. Length(y) = Length(x)
  BY <1>1, SameMonthFact
<1>3. x.selected \in 1 .. LongDays /\ x.selected \in Nat \ {0}
  BY CalendarNumbers DEF CalendarOK, InYears, Calendars
<1> QED
  BY <1>1, <1>2, <1>3 DEF CalendarOK, KeyMoves, SameCalendar

LEMMA KeyMonth ==
  ASSUME NEW x, NEW y, KeyMoves(x, y), NEW d \in 1 .. LongDays, NEW z, z = [y EXCEPT !.selected = d]
  PROVE  /\ CalendarOK(MonthPrev(z)) /\ CalendarOK(MonthNext(z))
         /\ CalendarOK(MonthPrev(y)) /\ CalendarOK(MonthNext(y))
<1>1. InYears(z) /\ InYears(y)
  BY SelectedFact DEF KeyMoves
<1> QED
  BY <1>1, MonthPrevFact, MonthNextFact, FreshOK

LEMMA KeyDay ==
  ASSUME NEW x, NEW y, KeyMoves(x, y), NEW d \in Nat \ {0}, x.pending \/ d \in 1 .. Length(x)
  PROVE  CalendarOK(SelectDay(y, d))
BY SelectOK DEF KeyMoves

LEMMA KeyLeftFact ==
  ASSUME NEW x, CalendarOK(x)
  PROVE  CalendarOK(KeyLeft(x))
<1>1. x.focus \in Cells /\ InYears(x)
  BY DEF CalendarOK, InYears, Calendars
<1>2. PICK k \in Cells : k = IF x.focus > 0 THEN x.focus - 1 ELSE x.focus
  BY <1>1, CellSteps
<1>3. PICK y : y = [x EXCEPT !.focus = k]
  OBVIOUS
<1>4. KeyMoves(x, y)
  BY <1>3, KeyMovesFact
<1>5. \/ KeyLeft(x) = x
      \/ ~x.keys /\ KeyLeft(x) = y
      \/ x.selected # 1 /\ KeyLeft(x) = SelectDay(y, x.selected - 1)
      \/ KeyLeft(x) = MonthPrev([y EXCEPT !.selected = LastOfPrev(x)])
  BY <1>2, <1>3 DEF KeyLeft
<1>6. CASE ~x.keys /\ KeyLeft(x) = y
  BY <1>3, <1>6, FocusOnly
<1>7. CASE x.selected # 1 /\ KeyLeft(x) = SelectDay(y, x.selected - 1)
  <2>1. x.selected - 1 \in Nat \ {0} /\ (~x.pending => x.selected - 1 \in 1 .. Length(x))
    <3>1. Length(x) \in Nat
      BY <1>1, MonthFact
    <3> QED
      BY <1>4, <1>7, <3>1 DEF KeyMoves
  <2> QED
    BY <1>4, <1>7, <2>1, KeyDay
<1>8. CASE KeyLeft(x) = MonthPrev([y EXCEPT !.selected = LastOfPrev(x)])
  <2>1. LastOfPrev(x) \in 1 .. LongDays
    BY <1>1, MonthFact, CalendarNumbers
  <2> QED
    BY <1>4, <1>8, <2>1, KeyMonth
<1> QED
  BY <1>5, <1>6, <1>7, <1>8

LEMMA KeyRightFact ==
  ASSUME NEW x, CalendarOK(x)
  PROVE  CalendarOK(KeyRight(x))
<1>1. x.focus \in Cells /\ InYears(x)
  BY DEF CalendarOK, InYears, Calendars
<1>2. PICK k \in Cells : k = IF x.focus + 1 \in Cells THEN x.focus + 1 ELSE x.focus
  BY <1>1, CellSteps
<1>3. PICK y : y = [x EXCEPT !.focus = k]
  OBVIOUS
<1>4. KeyMoves(x, y) /\ y.focus = k
  BY <1>3, KeyMovesFact
<1>5. \/ KeyRight(x) = x
      \/ ~x.keys /\ KeyRight(x) = y
      \/ x.keys /\ CellKind(y, k) = "current" /\ KeyRight(x) = SelectDay(y, x.selected + 1)
      \/ KeyRight(x) = MonthNext([y EXCEPT !.selected = 1])
  BY <1>2, <1>3, <1>4 DEF KeyRight
<1>6. CASE ~x.keys /\ KeyRight(x) = y
  BY <1>3, <1>6, FocusOnly
<1>7. CASE x.keys /\ CellKind(y, k) = "current" /\ KeyRight(x) = SelectDay(y, x.selected + 1)
  <2>1. x.selected + 1 \in Nat \ {0}
    BY <1>4 DEF KeyMoves
  <2>2. ASSUME ~x.pending PROVE x.selected + 1 \in 1 .. Length(x)
    <3>1. x.focus = FirstCell(x) + x.selected - 1 /\ x.selected \in 1 .. Length(x)
      BY <1>7, <2>2 DEF CalendarOK, CellOf
    <3>2. k < FirstCell(x) + Length(x)
      BY <1>1, <1>4, <1>7, CellFact, SameMonthFact DEF KeyMoves
    <3>3. /\ FirstCell(x) \in 0 .. WeekDays - 1 /\ Length(x) \in LongDays - 2 .. LongDays
          /\ Length(x) \in Nat
      BY <1>1, MonthFact
    <3>4. PICK n \in Nat : Cells = 0 .. n - 1 /\ n >= WeekDays + LongDays
      BY CalendarNumbers
    <3>5. LongDays \in Nat /\ WeekDays \in Nat
      BY CalendarNumbers
    <3>6. x.focus + 1 \in 0 .. n - 1
      BY <3>1, <3>3, <3>4, <3>5
    <3>7. k = x.focus + 1
      BY <1>2, <3>4, <3>6
    <3> QED
      BY <3>1, <3>2, <3>3, <3>5, <3>7
  <2> QED
    BY <1>4, <1>7, <2>1, <2>2, KeyDay
<1>8. CASE KeyRight(x) = MonthNext([y EXCEPT !.selected = 1])
  <2>1. 1 \in 1 .. LongDays
    BY CalendarNumbers
  <2> QED
    BY <1>4, <1>8, <2>1, KeyMonth
<1> QED
  BY <1>5, <1>6, <1>7, <1>8

LEMMA KeyUpFact ==
  ASSUME NEW x, CalendarOK(x)
  PROVE  CalendarOK(KeyUp(x))
<1>1. x.focus \in Cells /\ InYears(x) /\ WeekDays \in Nat \ {0}
  BY CalendarNumbers DEF CalendarOK, InYears, Calendars
<1>2. PICK k \in Cells : k = IF x.focus >= WeekDays THEN x.focus - WeekDays ELSE x.focus
  BY <1>1, CellSteps
<1>3. PICK y : y = [x EXCEPT !.focus = k]
  OBVIOUS
<1>4. KeyMoves(x, y) /\ y.focus = k
  BY <1>3, KeyMovesFact
<1>5. \/ ~x.keys /\ KeyUp(x) = y
      \/ x.selected > WeekDays /\ KeyUp(x) = SelectDay(y, x.selected - WeekDays)
      \/ KeyUp(x) = MonthPrev([y EXCEPT !.selected = LastOfPrev(x)])
      \/ KeyUp(x) = MonthPrev([y EXCEPT !.selected = CellDay(y, k)])
  BY <1>2, <1>3, <1>4 DEF KeyUp
<1>6. CASE ~x.keys /\ KeyUp(x) = y
  BY <1>3, <1>6, FocusOnly
<1>7. CASE x.selected > WeekDays /\ KeyUp(x) = SelectDay(y, x.selected - WeekDays)
  <2>1. /\ x.selected - WeekDays \in Nat \ {0}
        /\ ~x.pending => x.selected - WeekDays \in 1 .. Length(x)
    <3>1. Length(x) \in Nat
      BY <1>1, MonthFact
    <3> QED
      BY <1>1, <1>4, <1>7, <3>1 DEF KeyMoves
  <2> QED
    BY <1>4, <1>7, <2>1, KeyDay
<1>8. CASE KeyUp(x) = MonthPrev([y EXCEPT !.selected = LastOfPrev(x)])
  <2>1. LastOfPrev(x) \in 1 .. LongDays
    BY <1>1, MonthFact, CalendarNumbers
  <2> QED
    BY <1>4, <1>8, <2>1, KeyMonth
<1>9. CASE KeyUp(x) = MonthPrev([y EXCEPT !.selected = CellDay(y, k)])
  <2>1. CellDay(y, k) \in 1 .. LongDays
    BY <1>4, CellFact DEF KeyMoves
  <2> QED
    BY <1>4, <1>9, <2>1, KeyMonth
<1> QED
  BY <1>5, <1>6, <1>7, <1>8, <1>9

LEMMA KeyDownFact ==
  ASSUME NEW x, CalendarOK(x)
  PROVE  CalendarOK(KeyDown(x))
<1>1. x.focus \in Cells /\ InYears(x) /\ WeekDays \in Nat \ {0}
  BY CalendarNumbers DEF CalendarOK, InYears, Calendars
<1>2. PICK k \in Cells : k = IF x.focus + WeekDays \in Cells THEN x.focus + WeekDays ELSE x.focus
  BY <1>1, CellSteps
<1>3. PICK y : y = [x EXCEPT !.focus = k]
  OBVIOUS
<1>4. KeyMoves(x, y) /\ y.focus = k
  BY <1>3, KeyMovesFact
<1>5. \/ ~x.keys /\ KeyDown(x) = y
      \/ /\ x.selected + WeekDays <= Length(x)
         /\ KeyDown(x) = SelectDay(y, x.selected + WeekDays)
      \/ KeyDown(x) = MonthNext([y EXCEPT !.selected = 1])
      \/ KeyDown(x) = MonthNext([y EXCEPT !.selected = CellDay(y, k)])
  BY <1>2, <1>3, <1>4 DEF KeyDown
<1>6. CASE ~x.keys /\ KeyDown(x) = y
  BY <1>3, <1>6, FocusOnly
<1>7. CASE x.selected + WeekDays <= Length(x) /\ KeyDown(x) = SelectDay(y, x.selected + WeekDays)
  <2>1. /\ x.selected + WeekDays \in Nat \ {0} /\ x.selected + WeekDays \in 1 .. Length(x)
    <3>1. Length(x) \in Nat
      BY <1>1, MonthFact
    <3> QED
      BY <1>1, <1>4, <1>7, <3>1 DEF KeyMoves
  <2> QED
    BY <1>4, <1>7, <2>1, KeyDay
<1>8. CASE KeyDown(x) = MonthNext([y EXCEPT !.selected = 1])
  <2>1. 1 \in 1 .. LongDays
    BY CalendarNumbers
  <2> QED
    BY <1>4, <1>8, <2>1, KeyMonth
<1>9. CASE KeyDown(x) = MonthNext([y EXCEPT !.selected = CellDay(y, k)])
  <2>1. CellDay(y, k) \in 1 .. LongDays
    BY <1>4, CellFact DEF KeyMoves
  <2> QED
    BY <1>4, <1>9, <2>1, KeyMonth
<1> QED
  BY <1>5, <1>6, <1>7, <1>8, <1>9

(* Only what is not the date and the focus changes. *)
SameDate(x, y) ==
  /\ y \in Calendars /\ y.min = x.min /\ y.max = x.max /\ y.year = x.year /\ y.month = x.month
  /\ y.selected = x.selected /\ y.focus = x.focus /\ y.keys = x.keys /\ y.pending = x.pending

LEMMA SameDateOK ==
  ASSUME NEW x, CalendarOK(x), NEW y, SameDate(x, y)
  PROVE  CalendarOK(y)
<1>1. Length(y) = Length(x) /\ \A d : CellOf(y, d) = CellOf(x, d)
  BY SameMonthFact DEF SameDate, SameMonth
<1> QED
  BY <1>1 DEF CalendarOK, InYears, SameDate

LEMMA SpaceKeyFact ==
  ASSUME CalendarIInv, SpaceKey
  PROVE  CalendarIInv'
<1>1. InYears(cal) /\ cal.focus \in Cells
  BY DEF CalendarIInv, CalendarOK, InYears, Calendars
<1>2. PICK y :
        /\ \/ CellKind(cal, cal.focus) = "prev" /\ y = MonthPrev(cal)
           \/ CellKind(cal, cal.focus) = "next" /\ y = MonthNext(cal)
           \/ CellKind(cal, cal.focus) = "current" /\ y = cal
        /\ cal' = SelectDay(y, CellDay(cal, cal.focus))
  BY <1>1, CellFact DEF SpaceKey
<1>3. InYears(y) /\ SameCalendar(cal, y) /\ CellDay(cal, cal.focus) \in 1 .. Length(y)
  BY <1>1, <1>2, NeighbourFact
<1>4. Fresh(y, cal')
  BY <1>2, <1>3, SelectFresh
<1> QED
  BY <1>4, FreshOK DEF CalendarIInv

(* The words read out of the grid are small numbers; the last days of the grid *)
(* belong to the month shown or to the next one.                              *)
LEMMA DayAtFact ==
  ASSUME NEW x, InYears(x), NEW n \in StylusPlaces
  PROVE  /\ DayAt(x, n) \in 1 .. LongDays
         /\ \A kind \in KindsAt(x, n) :
              kind \notin {"prev", "next"} => DayAt(x, n) \in 1 .. Length(x)
<1>1. PICK m \in Nat :
        m = WeekDays * Weeks /\ Cells = 0 .. m - 1 /\ m >= WeekDays + LongDays /\ m <= 2 * (LongDays - 2)
  BY CalendarNumbers
<1>2. LongDays \in Nat /\ WeekDays \in Nat /\ WeekDays > 0 /\ LongDays >= 5
      /\ WeekDays <= LongDays - 4
  BY <1>1, CalendarNumbers
<1>3. Length(x) \in LongDays - 2 .. LongDays /\ Length(x) \in Nat /\ FirstCell(x) \in 0 .. WeekDays - 1
  BY MonthFact
<1>4. CASE n \in Cells
  <2>1. DayAt(x, n) = CellDay(x, n)
    BY <1>4, Zenon DEF DayAt
  <2>2. KindsAt(x, n) = {CellKind(x, n)}
    <3>1. n # -1 /\ n # -2 /\ n # -3
      BY <1>1, <1>4
    <3> QED
      BY <1>4, <3>1 DEF KindsAt
  <2> QED
    BY <1>4, <2>1, <2>2, CellFact
<1>5. CASE n \notin Cells
  <2>1. n \in Int /\ -WeekDays - 1 <= n /\ n <= -1
    BY <1>2, <1>5 DEF StylusPlaces, Before
  <2>2. n + m \in Cells /\ n + m >= FirstCell(x)
    <3>1. n + m \in Int /\ n + m >= LongDays - 1 /\ n + m <= m - 1
      BY <1>1, <1>2, <2>1
    <3> QED
      BY <1>1, <1>2, <1>3, <3>1
  <2>3. CellKind(x, n + m) \in {"current", "next"}
    <3>1. ~(n + m < FirstCell(x))
      BY <1>1, <1>2, <1>3, <2>1, <2>2
    <3> QED
      BY <3>1 DEF CellKind
  <2>4. DayAt(x, n) \in {1, 2}
    BY <1>1, <1>5, <2>3 DEF DayAt, KindWord
  <2> QED
    BY <1>2, <1>3, <2>4
<1> QED
  BY <1>4, <1>5

LEMMA PressFact ==
  ASSUME CalendarIInv, NEW n \in StylusPlaces, PressAt(n)
  PROVE  CalendarIInv'
<1>1. InYears(cal) /\ DayAt(cal, n) \in 1 .. LongDays
  BY DayAtFact DEF CalendarIInv, CalendarOK
<1>2. cal.month \in 0 .. Months /\ cal.year \in CalYears
  BY <1>1, YearsFact, CalendarNumbers
<1>3. PICK kind \in KindsAt(cal, n) :
        LET x == IF kind = "current" THEN SelectDay(cal, DayAt(cal, n)) ELSE cal
            own == kind = "current" /\ n \in Cells
        IN cal' = [x EXCEPT !.pressed = [day |-> DayAt(cal, n), month |-> cal.month,
                                         year |-> cal.year, own |-> own]]
  BY DEF PressAt
<1>4. PICK x : x = IF kind = "current" THEN SelectDay(cal, DayAt(cal, n)) ELSE cal
  OBVIOUS
<1>5. CalendarOK(x)
  <2>1. CASE kind = "current"
    <3>1. DayAt(cal, n) \in 1 .. Length(cal) /\ x = SelectDay(cal, DayAt(cal, n))
      BY <1>1, <1>4, <2>1, DayAtFact
    <3> QED
      BY <1>1, <3>1, SelectFresh, FreshOK
  <2>2. CASE kind # "current"
    BY <1>4, <2>2 DEF CalendarIInv
  <2> QED
    BY <2>1, <2>2
<1>6. PICK own \in BOOLEAN : own <=> kind = "current" /\ n \in Cells
  BY Zenon
<1>7. own = (kind = "current" /\ n \in Cells)
  BY <1>6, Zenon
<1>8. PICK p : p = [day |-> DayAt(cal, n), month |-> cal.month, year |-> cal.year, own |-> own]
  OBVIOUS
<1>9. p \in Presses
  <2>1. DayAt(cal, n) \in 0 .. LongDays
    BY <1>1, CalendarNumbers
  <2> QED
    BY ONLY <1>2, <1>8, <2>1, own \in BOOLEAN DEF Presses
<1>10. cal' = [x EXCEPT !.pressed = p]
  BY <1>3, <1>4, <1>7, <1>8, Zenon
<1>11. x \in Calendars
  BY <1>5 DEF CalendarOK, InYears
<1>12. SameDate(x, cal')
  BY <1>9, <1>10, <1>11 DEF Calendars, SameDate
<1> QED
  BY <1>5, <1>12, SameDateOK DEF CalendarIInv

LEMMA SlideFact ==
  ASSUME CalendarIInv, NEW n \in StylusPlaces, SlideTo(n)
  PROVE  CalendarIInv'
<1>1. InYears(cal)
  BY DEF CalendarIInv, CalendarOK
<1>2. DayAt(cal, n) \in 1 .. Length(cal) /\ cal' = SelectDay(cal, DayAt(cal, n))
  BY <1>1, DayAtFact DEF SlideTo
<1> QED
  BY <1>1, <1>2, SelectFresh, FreshOK DEF CalendarIInv

LEMMA ReleasedFact ==
  ASSUME CalendarIInv, NEW k \in Cells, NEW x, x = Released(cal, k)
  PROVE  /\ CalendarOK(x) /\ x.pressed = cal.pressed
         /\ x.bad \/ (x.month = cal.month => x.selected = CellDay(x, k) /\ x.year = cal.year)
<1>1. /\ InYears(cal) /\ cal \in Calendars
      /\ cal.year \in Int /\ cal.min \in Int /\ cal.max \in Int /\ cal.month \in 1 .. Months
      /\ cal.min <= cal.year /\ cal.year <= cal.max /\ Months \in Nat /\ Months > 2
  BY YearsFact, CalendarNumbers DEF CalendarIInv, CalendarOK, InYears
<1>2. CASE OutOfYears(cal, k)
  <2>1. PICK b \in BOOLEAN : b /\ x = [cal EXCEPT !.bad = b]
    BY <1>2, Zenon DEF Released
  <2>2. SameDate(cal, x) /\ x.pressed = cal.pressed /\ x.bad = b
    BY <1>1, <2>1 DEF Calendars, SameDate
  <2>3. CalendarOK(x)
    BY <2>2, SameDateOK DEF CalendarIInv
  <2> QED
    BY <2>1, <2>2, <2>3
<1>3. CASE ~OutOfYears(cal, k)
  <2>1. PICK y :
          /\ \/ CellKind(cal, k) = "prev" /\ y = MonthPrev(cal)
             \/ CellKind(cal, k) = "next" /\ y = MonthNext(cal)
             \/ CellKind(cal, k) = "current" /\ y = cal
          /\ x = SelectDay(y, CellDay(cal, k))
    BY <1>1, <1>3, CellFact DEF Released
  <2>2. InYears(y) /\ SameCalendar(cal, y) /\ CellDay(cal, k) \in 1 .. Length(y)
    BY <1>1, <2>1, NeighbourFact
  <2>3. Fresh(y, x) /\ SameMonth(y, x) /\ x.selected = CellDay(cal, k)
    BY <2>1, <2>2, SelectFresh
  <2>5. CalendarOK(x)
    BY <2>3, FreshOK
  <2>6. x.pressed = cal.pressed
    BY <2>2, <2>3 DEF Fresh, SameCalendar
  <2>7. ASSUME x.month = cal.month PROVE x.selected = CellDay(x, k) /\ x.year = cal.year
    <3>1. CASE CellKind(cal, k) = "current"
      <4>1. y = cal
        BY <2>1, <3>1
      <4> QED
        BY <2>3, <4>1, SameMonthFact DEF SameMonth
    <3>2. CASE CellKind(cal, k) = "prev"
      <4>1. Earlier(cal, y) /\ ~(cal.year = cal.min /\ cal.month = 1)
        BY <1>1, <1>3, <2>1, <3>2, MonthPrevFact DEF OutOfYears
      <4>2. y.month # cal.month
        BY <1>1, <4>1 DEF Earlier
      <4> QED
        BY <2>3, <2>7, <4>2 DEF SameMonth
    <3>3. CASE CellKind(cal, k) = "next"
      <4>1. Later(cal, y) /\ ~(cal.year = cal.max /\ cal.month = Months)
        BY <1>1, <1>3, <2>1, <3>3, MonthNextFact DEF OutOfYears
      <4>2. y.month # cal.month
        BY <1>1, <4>1 DEF Later
      <4> QED
        BY <2>3, <2>7, <4>2 DEF SameMonth
    <3> QED
      BY <2>1, <3>1, <3>2, <3>3
  <2> QED
    BY <2>5, <2>6, <2>7
<1> QED
  BY <1>2, <1>3

LEMMA NoPressFact == NoPress \in Presses
<1>1. 0 \in 0 .. LongDays /\ 0 \in 0 .. Months /\ 0 \in {0} \union CalYears
  BY CalendarNumbers
<1>2. PICK no \in BOOLEAN : no = FALSE
  BY Zenon
<1>3. NoPress = [day |-> 0, month |-> 0, year |-> 0, own |-> no]
  BY <1>2, Zenon DEF NoPress
<1> QED
  BY ONLY <1>1, <1>3, no \in BOOLEAN DEF Presses

LEMMA ReleaseFact ==
  ASSUME CalendarIInv, NEW n, NEW inside \in BOOLEAN, inside => n \in Cells, ReleaseAt(n, inside)
  PROVE  CalendarIInv'
<1>1. PICK x : x = IF inside THEN Released(cal, n) ELSE cal
  OBVIOUS
<1>2. CalendarOK(x)
  BY <1>1, ReleasedFact DEF CalendarIInv
<1>3. x \in Calendars
  BY <1>2 DEF CalendarOK, InYears
<1>4. PICK p \in Presses : p = NoPress
  BY NoPressFact
<1>5. PICK b \in BOOLEAN : b <=> x.bad /\ ~SameDay(x, n)
  BY Zenon
<1>6. b = (x.bad /\ ~SameDay(x, n))
  BY <1>5, Zenon
<1>7. cal' = [x EXCEPT !.bad = b, !.pressed = p]
  BY <1>1, <1>4, <1>6, Zenon DEF ReleaseAt
<1>8. SameDate(x, cal')
  BY ONLY <1>3, <1>7, b \in BOOLEAN, p \in Presses DEF Calendars, SameDate
<1> QED
  BY <1>2, <1>8, SameDateOK DEF CalendarIInv

(* What a plain press announces. *)
LEMMA ToldFact == CalendarIInv => ToldPressed
<1> SUFFICES ASSUME CalendarIInv, PlainPress, NEW k \in Cells, NEW x, x = Released(cal, k),
                    Announces(x, k)
             PROVE  ShownOf(x) = [year |-> cal.pressed.year, month |-> cal.pressed.month,
                                  day |-> cal.pressed.day]
  BY DEF ToldPressed
<1>1. x.pressed = cal.pressed /\ ~x.bad /\ DayAt(x, k) = CellDay(x, k)
  BY ReleasedFact DEF Announces, DayAt
<1>2. cal.pressed.day = CellDay(x, k) /\ x.month = cal.pressed.month
  BY <1>1 DEF Announces, SameDay
<1>3. cal.pressed.month = cal.month /\ cal.pressed.year = cal.year
  BY DEF PlainPress
<1>4. x.selected = CellDay(x, k) /\ x.year = cal.year
  BY <1>1, <1>2, <1>3, ReleasedFact
<1> QED
  BY <1>2, <1>3, <1>4 DEF ShownOf

LEMMA ArrowsFact ==
  ASSUME CalendarIInv, (\E a \in Arrows : PressArrow(a)) \/ CalendarTimer \/ ReleaseArrow
  PROVE  CalendarIInv'
<1>1. InYears(cal) /\ cal \in Calendars
  BY DEF CalendarIInv, CalendarOK, InYears
<1>2. \A a : CalendarOK(ArrowAction(cal, a))
  BY <1>1, ArrowFact, FreshOK
<1>3. ASSUME NEW x, CalendarOK(x), NEW a \in Arrows \union {None}, cal' = [x EXCEPT !.spin = a]
      PROVE  CalendarIInv'
  <2>1. x \in Calendars
    BY <1>3 DEF CalendarOK, InYears
  <2>2. SameDate(x, cal')
    BY <1>3, <2>1 DEF Calendars, SameDate
  <2> QED
    BY <1>3, <2>1, <2>2, SameDateOK DEF CalendarIInv
<1>4. ASSUME NEW a \in Arrows, PressArrow(a) PROVE CalendarIInv'
  BY <1>2, <1>3, <1>4 DEF PressArrow
<1>5. CASE CalendarTimer
  BY <1>2, <1>5 DEF CalendarTimer, CalendarIInv
<1>6. CASE ReleaseArrow
  BY <1>3, <1>6 DEF ReleaseArrow, CalendarIInv
<1> QED
  BY <1>4, <1>5, <1>6

(* A month set by the application waits for its day. *)
LEMMA SelectMonthFact ==
  ASSUME NEW x, x \in Calendars, x.min <= x.max, NEW m \in 1 .. Months, NEW n \in CalYears
  PROVE  CalendarOK(SelectMonth(x, m, n))
<1>1. /\ x.min \in CalYears /\ x.max \in CalYears /\ \A y \in CalYears : y \in Int
  BY CalendarNumbers DEF Calendars
<1>2. PICK low : low = IF n > x.max THEN x.max ELSE n
  OBVIOUS
<1>3. PICK year : year = IF low < x.min THEN x.min ELSE low
  OBVIOUS
<1>4. x.min \in Int /\ x.max \in Int /\ n \in Int
  BY <1>1, Zenon
<1>5. low \in CalYears /\ low \in Int /\ low <= x.max
  BY <1>1, <1>2, <1>4
<1>6. year \in CalYears /\ x.min <= year /\ year <= x.max
  BY <1>1, <1>3, <1>4, <1>5
<1>7. PICK b \in BOOLEAN : b /\ b = TRUE
  BY Zenon
<1>8. PICK y : y = [x EXCEPT !.month = m, !.pending = b, !.year = year]
  OBVIOUS
<1>9. y \in Calendars /\ y.year = year /\ y.min = x.min /\ y.max = x.max /\ y.pending = b
  BY ONLY x \in Calendars, m \in 1 .. Months, b \in BOOLEAN, <1>6, <1>8 DEF Calendars
<1>10. CalendarOK(y)
  BY <1>6, <1>7, <1>9 DEF CalendarOK, InYears
<1>11. SelectMonth(x, m, n) = y
  BY <1>2, <1>3, <1>7, <1>8, Zenon DEF SelectMonth
<1> QED
  BY <1>10, <1>11

LEMMA AppFact ==
  ASSUME CalendarIInv,
         \/ \E m \in 1 .. Months, y \in CalYears : AppSelectsMonth(m, y)
         \/ \E day \in 1 .. LongDays : AppSelectsDay(day)
         \/ \E min, max \in CalYears : SetYears(min, max)
  PROVE  CalendarIInv'
<1>1. InYears(cal) /\ cal \in Calendars
  BY DEF CalendarIInv, CalendarOK, InYears
<1>2. ASSUME NEW m \in 1 .. Months, NEW y \in CalYears, AppSelectsMonth(m, y) PROVE CalendarIInv'
  <2>1. cal.min <= cal.max
    BY <1>1, YearsFact DEF InYears
  <2> QED
    BY <1>1, <1>2, <2>1, SelectMonthFact DEF AppSelectsMonth, CalendarIInv
<1>3. ASSUME NEW day \in 1 .. LongDays, AppSelectsDay(day) PROVE CalendarIInv'
  BY <1>1, <1>3, SelectFresh, FreshOK DEF AppSelectsDay, CalendarIInv
<1>4. ASSUME NEW min \in CalYears, NEW max \in CalYears, SetYears(min, max) PROVE CalendarIInv'
  <2>1. PICK x : x = [cal EXCEPT !.min = min, !.max = max]
    OBVIOUS
  <2>2. /\ x \in Calendars /\ x.min = min /\ x.max = max
        /\ x.month = cal.month /\ x.year = cal.year /\ x.selected = cal.selected
        /\ x.focus = cal.focus /\ x.keys = cal.keys /\ x.pending = cal.pending
    BY <1>1, <2>1 DEF Calendars
  <2>3. Length(x) = Length(cal) /\ \A d : CellOf(x, d) = CellOf(cal, d)
    BY <1>1, <2>2, SameMonthFact DEF SameMonth
  <2>4. CASE cal.year \in min .. max
    <3>1. cal' = x
      BY <1>4, <2>1, <2>4 DEF SetYears
    <3>2. min \in Int /\ max \in Int
      BY CalendarNumbers
    <3>3. InYears(x)
      BY <2>2, <2>4, <3>2 DEF InYears
    <3> QED
      BY <2>2, <2>3, <3>1, <3>3 DEF CalendarIInv, CalendarOK
  <2>5. CASE cal.year \notin min .. max
    <3>1. cal' = SelectMonth(x, x.month, x.year) /\ x.min <= x.max
      BY <1>4, <2>1, <2>2, <2>5 DEF SetYears
    <3>2. x.month \in 1 .. Months /\ x.year \in CalYears
      BY <2>2 DEF Calendars
    <3> QED
      BY <2>2, <2>3, <3>1, <3>2, SelectMonthFact DEF CalendarIInv
  <2> QED
    BY <2>4, <2>5
<1> QED
  BY <1>2, <1>3, <1>4

-----------------------------------------------------------------------------
(* The popup's date. *)
LEMMA PopupFact ==
  ASSUME NEW today \in Todays, NEW d \in CalDates
  PROVE  /\ PopupNew(today, d) \in CalDates /\ ValidDate(PopupNew(today, d))
         /\ ValidDate(d) /\ today["day"] <= LongDays - 2 => PopupNew(today, d) = d
<1>1. today \in CalDates /\ ValidDate(today)
  BY CalendarGridAssumption
<1>2. PICK y0 : y0 = [today EXCEPT !["year"] = d["year"]]
  OBVIOUS
<1>3. y0 \in CalDates /\ y0["year"] = d["year"] /\ y0["month"] = today["month"] /\ y0["day"] = today["day"]
  BY <1>1, <1>2 DEF CalDates
<1>4. PICK y : y = OrToday(today, y0)
  OBVIOUS
<1>5. y \in CalDates /\ ValidDate(y)
  BY <1>1, <1>3, <1>4 DEF OrToday
<1>6. PICK m0 : m0 = [y EXCEPT !["month"] = d["month"]]
  OBVIOUS
<1>7. m0 \in CalDates /\ m0["year"] = y["year"] /\ m0["month"] = d["month"] /\ m0["day"] = y["day"]
  BY <1>5, <1>6 DEF CalDates
<1>8. PICK m : m = OrToday(today, m0)
  OBVIOUS
<1>9. m \in CalDates /\ ValidDate(m)
  BY <1>1, <1>7, <1>8 DEF OrToday
<1>10. PICK e : e = [m EXCEPT !["day"] = d["day"]]
  OBVIOUS
<1>11. e \in CalDates /\ e["year"] = m["year"] /\ e["month"] = m["month"] /\ e["day"] = d["day"]
  BY <1>9, <1>10 DEF CalDates
<1>12. PopupNew(today, d) = OrToday(today, e)
  BY <1>2, <1>4, <1>6, <1>8, <1>10 DEF PopupNew
<1>13. PopupNew(today, d) \in CalDates /\ ValidDate(PopupNew(today, d))
  BY <1>1, <1>11, <1>12 DEF OrToday
<1>14. ASSUME ValidDate(d), today["day"] <= LongDays - 2 PROVE PopupNew(today, d) = d
  <2>1. /\ today["day"] \in 1 .. LongDays /\ today["month"] \in 1 .. Months
        /\ d["year"] \in CalYears /\ d["month"] \in 1 .. Months
    BY <1>1 DEF CalDates
  <2>2. \A n \in 1 .. Months, z \in CalYears : today["day"] \in 1 .. DaysIn(n, z)
    BY <1>14, <2>1, MonthDaysFact, CalendarNumbers
  <2>3. y = y0
    BY <1>3, <1>4, <2>1, <2>2 DEF OrToday, ValidDate
  <2>4. m = m0
    BY <1>3, <1>7, <1>8, <2>1, <2>2, <2>3 DEF OrToday, ValidDate
  <2>5. e["year"] = d["year"] /\ e["month"] = d["month"] /\ e["day"] = d["day"]
    BY <1>3, <1>7, <1>11, <2>3, <2>4
  <2>6. e = d
    BY <1>11, <2>5 DEF CalDates
  <2> QED
    BY <1>12, <1>14, <2>6 DEF OrToday
<1> QED
  BY <1>13, <1>14

LEMMA CalendarInitFact == CalendarInit => CalendarIInv
<1> SUFFICES ASSUME CalendarInit PROVE CalendarIInv
  OBVIOUS
<1>1. PICK d \in {t \in CalDates : ValidDate(t)}, today \in Todays, keys \in BOOLEAN,
         min \in CalYears, max \in CalYears :
        LET shown == PopupNew(today, d)
            x == [year |-> shown["year"], month |-> shown["month"], selected |-> shown["day"],
                  focus |-> 0, min |-> min, max |-> max, today |-> today,
                  pressed |-> NoPress, spin |-> None,
                  keys |-> keys, bad |-> FALSE, pending |-> FALSE]
        IN min <= shown["year"] /\ shown["year"] <= max /\ cal = SelectDay(x, shown["day"])
  BY DEF CalendarInit
<1>2. PICK shown : shown = PopupNew(today, d)
  OBVIOUS
<1>3. shown \in CalDates /\ ValidDate(shown)
  BY <1>2, PopupFact
<1>4. shown["year"] \in CalYears /\ shown["month"] \in 1 .. Months /\ shown["day"] \in 1 .. LongDays
  BY <1>3 DEF CalDates
<1>5. PICK no \in BOOLEAN : no = FALSE
  BY Zenon
<1>6. PICK p \in Presses : p = NoPress
  BY NoPressFact
<1>7. PICK x :
        x = [year |-> shown["year"], month |-> shown["month"], selected |-> shown["day"],
             focus |-> 0, min |-> min, max |-> max, today |-> today,
             pressed |-> p, spin |-> None, keys |-> keys, bad |-> no, pending |-> no]
  OBVIOUS
<1>8. min <= shown["year"] /\ shown["year"] <= max /\ cal = SelectDay(x, shown["day"])
  BY <1>1, <1>2, <1>5, <1>6, <1>7, Zenon
<1>9. 0 \in Cells
  BY CalendarNumbers
<1>10. x \in Calendars /\ x.min = min /\ x.max = max /\ x.year = shown["year"]
       /\ x.month = shown["month"]
  BY ONLY <1>4, <1>7, <1>9, p \in Presses, no \in BOOLEAN,
          keys \in BOOLEAN, today \in Todays, min \in CalYears, max \in CalYears DEF Calendars
<1>11. InYears(x) /\ shown["day"] \in 1 .. Length(x)
  BY <1>3, <1>8, <1>10 DEF InYears, ValidDate, Length
<1>12. Fresh(x, cal)
  BY <1>8, <1>11, SelectFresh
<1> QED
  BY <1>11, <1>12, FreshOK DEF CalendarIInv

-----------------------------------------------------------------------------
(* Left and Right. *)
(* A cell in the month, or beyond its end. *)
LEMMA KindFact ==
  ASSUME NEW x, InYears(x), NEW d \in Int
  PROVE  /\ d \in 1 .. Length(x) => CellKind(x, FirstCell(x) + d - 1) = "current"
         /\ d < 1 => CellKind(x, FirstCell(x) + d - 1) = "prev"
         /\ d > Length(x) => CellKind(x, FirstCell(x) + d - 1) = "next"
         /\ d \in 1 .. Length(x) + 1 => FirstCell(x) + d - 1 \in Cells
<1>1. /\ FirstCell(x) \in 0 .. WeekDays - 1 /\ Length(x) \in LongDays - 2 .. LongDays
      /\ Length(x) \in Nat
  BY MonthFact
<1>2. PICK n \in Nat : Cells = 0 .. n - 1 /\ n >= WeekDays + LongDays
  BY CalendarNumbers
<1>3. LongDays \in Nat /\ WeekDays \in Nat
  BY CalendarNumbers
<1> QED
  BY <1>1, <1>2, <1>3 DEF CellKind

LEMMA RightSteps ==
  ASSUME NEW x, InYears(x), OnDay(x), x.keys
  PROVE  /\ x.selected < Length(x) =>
              SameMonth(x, KeyRight(x)) /\ KeyRight(x).selected = x.selected + 1
         /\ x.selected = Length(x) /\ ~(x.year = x.max /\ x.month = Months) =>
              Later(x, KeyRight(x)) /\ KeyRight(x).selected = 1
<1>1. x.selected \in 1 .. Length(x) /\ x.focus = FirstCell(x) + x.selected - 1
  BY DEF OnDay, CellOf
<1>2. /\ FirstCell(x) \in 0 .. WeekDays - 1 /\ Length(x) \in LongDays - 2 .. LongDays
      /\ Length(x) \in Nat \ {0} /\ LongDays \in Nat /\ WeekDays \in Nat
  BY MonthFact, CalendarNumbers
<1>3. x.focus + 1 = FirstCell(x) + (x.selected + 1) - 1 /\ x.selected + 1 \in 1 .. Length(x) + 1
  BY <1>1, <1>2
<1>4. x.focus + 1 \in Cells
  BY <1>1, <1>2, <1>3, KindFact
<1>5. PICK y : y = [x EXCEPT !.focus = x.focus + 1]
  OBVIOUS
<1>6. InYears(y) /\ SameMonth(x, y) /\ SameCalendar(x, y) /\ y.focus = x.focus + 1 /\ y.selected = x.selected
  BY <1>4, <1>5, CellFocusFact
<1>7. ASSUME x.selected < Length(x)
      PROVE  SameMonth(x, KeyRight(x)) /\ KeyRight(x).selected = x.selected + 1
  <2>1. x.selected + 1 \in 1 .. Length(x)
    BY <1>1, <1>2, <1>7
  <2>2. CellKind(x, x.focus + 1) = "current" /\ CellKind(y, y.focus) = "current"
    BY <1>1, <1>2, <1>3, <1>6, <2>1, KindFact, SameMonthFact
  <2>3. KeyRight(x) = SelectDay(y, x.selected + 1)
    BY <1>4, <1>5, <2>2 DEF KeyRight
  <2>4. x.selected + 1 \in 1 .. Length(y)
    BY <1>6, <2>1, SameMonthFact
  <2>5. SameMonth(y, KeyRight(x)) /\ KeyRight(x).selected = x.selected + 1
    BY <1>6, <2>3, <2>4, SelectFresh
  <2> QED
    BY <1>6, <2>5 DEF SameMonth
<1>8. ASSUME x.selected = Length(x), ~(x.year = x.max /\ x.month = Months)
      PROVE  Later(x, KeyRight(x)) /\ KeyRight(x).selected = 1
  <2>1. CellKind(x, x.focus + 1) = "next" /\ CellKind(y, y.focus) = "next"
    BY <1>1, <1>2, <1>3, <1>6, <1>8, KindFact, SameMonthFact
  <2>2. PICK z : z = [y EXCEPT !.selected = 1]
    OBVIOUS
  <2>3. KeyRight(x) = MonthNext(z)
    BY <1>4, <1>5, <1>8, <2>1, <2>2 DEF KeyRight
  <2>4. 1 \in 1 .. LongDays
    BY CalendarNumbers
  <2>5. InYears(z) /\ SameMonth(y, z) /\ SameCalendar(y, z) /\ z.selected = 1
    BY <1>6, <2>2, <2>4, SelectedFact
  <2>6. PICK w : w = MonthNext(z)
    OBVIOUS
  <2>7. Fresh(z, w) /\ Later(z, w) /\ Shortened(z, w)
    BY <2>5, <2>6, MonthNextFact
  <2>8. w.selected = 1
    <3>1. Length(w) \in Nat \ {0}
      BY <2>7, MonthFact DEF Fresh
    <3> QED
      BY <2>5, <2>7, <3>1 DEF Shortened
  <2>9. Later(x, w)
    BY <1>6, <2>5, <2>7 DEF Later, SameMonth, SameCalendar
  <2> QED
    BY <2>3, <2>6, <2>8, <2>9
<1> QED
  BY <1>7, <1>8

LEMMA LeftRightFact ==
  ASSUME NEW x, CalendarOK(x), x.keys, ~x.pending,
         ~(x.year = x.min /\ x.month = 1 /\ x.selected = 1), KeyLeft(x) # x
  PROVE  LET z == KeyRight(KeyLeft(x))
         IN z.year = x.year /\ z.month = x.month /\ z.selected = x.selected
<1>1. InYears(x) /\ OnDay(x)
  BY DEF CalendarOK, OnDay
<1>2. x.selected \in 1 .. Length(x) /\ x.focus = FirstCell(x) + x.selected - 1 /\ x.focus \in Cells
  BY <1>1 DEF OnDay, CellOf, InYears, Calendars
<1>3. /\ FirstCell(x) \in 0 .. WeekDays - 1 /\ Length(x) \in Nat \ {0} /\ WeekDays \in Nat
      /\ LastOfPrev(x) \in Nat \ {0} /\ LastOfPrev(x) \in LongDays - 2 .. LongDays
      /\ LongDays \in Nat
  BY <1>1, MonthFact, CalendarNumbers
<1>4. PICK k \in Cells : k = IF x.focus > 0 THEN x.focus - 1 ELSE x.focus
  BY <1>2, CellSteps
<1>5. PICK y : y = [x EXCEPT !.focus = k]
  OBVIOUS
<1>6. /\ InYears(y) /\ SameCalendar(x, y) /\ SameMonth(x, y) /\ y.focus = k
      /\ y.selected = x.selected
  BY <1>1, <1>5, CellFocusFact
<1>7. CASE x.selected # 1
  <2>1. k = FirstCell(x) + (x.selected - 1) - 1 /\ x.selected - 1 \in 1 .. Length(x)
        /\ k = x.focus - 1 /\ x.focus > 0
    BY <1>2, <1>3, <1>4, <1>7
  <2>2. CellKind(x, k) = "current" /\ CellKind(y, y.focus) = "current"
    BY <1>1, <1>6, <2>1, KindFact, SameMonthFact
  <2>3. KeyLeft(x) = SelectDay(y, x.selected - 1)
    BY <1>4, <1>5, <1>7, <2>1, <2>2 DEF KeyLeft
  <2>4. PICK z : z = KeyLeft(x)
    OBVIOUS
  <2>5. x.selected - 1 \in 1 .. Length(y)
    BY <1>6, <2>1, SameMonthFact
  <2>6. Fresh(y, z) /\ SameMonth(y, z) /\ z.selected = x.selected - 1
    BY <1>6, <2>3, <2>4, <2>5, SelectFresh
  <2>7. Length(z) = Length(x) /\ z.selected < Length(z) /\ z.keys /\ InYears(z) /\ OnDay(z)
    BY <1>2, <1>3, <1>6, <2>6, SameMonthFact DEF Fresh, SameCalendar
  <2>8. SameMonth(z, KeyRight(z)) /\ KeyRight(z).selected = z.selected + 1
    BY <2>7, RightSteps
  <2> QED
    BY <1>2, <1>3, <1>6, <2>4, <2>6, <2>8 DEF SameMonth
<1>8. CASE x.selected = 1
  <2>1. ~(x.year = x.min /\ x.month = 1)
    BY <1>8
  <2>2. PICK y0 : y0 = [y EXCEPT !.selected = LastOfPrev(x)]
    OBVIOUS
  <2>3. KeyLeft(x) = MonthPrev(y0)
    BY <1>4, <1>5, <1>8, <2>1, <2>2 DEF KeyLeft
  <2>4. InYears(y0) /\ SameCalendar(y, y0) /\ SameMonth(y, y0) /\ y0.selected = LastOfPrev(x)
    <3>1. LastOfPrev(x) \in 1 .. LongDays
      BY <1>3
    <3> QED
      BY <1>6, <2>2, <3>1, SelectedFact
  <2>5. PICK z : z = KeyLeft(x)
    OBVIOUS
  <2>6. Fresh(y0, z) /\ Earlier(y0, z) /\ Shortened(y0, z)
    BY <2>3, <2>4, <2>5, MonthPrevFact
  <2>7. Earlier(x, z) /\ InYears(z) /\ OnDay(z) /\ z.keys /\ z.min = x.min /\ z.max = x.max
    BY <1>6, <2>4, <2>6 DEF Earlier, SameMonth, SameCalendar, Fresh
  <2>8. /\ x.year \in Int /\ x.min \in Int /\ x.max \in Int /\ x.month \in 1 .. Months
        /\ x.min <= x.year /\ x.year <= x.max /\ Months \in Nat /\ Months > 2
        /\ z.year \in CalYears
    BY <1>1, <2>7, YearsFact, CalendarNumbers DEF InYears
  <2>9. \/ x.month > 1 /\ z.month = x.month - 1 /\ z.year = x.year
        \/ x.month = 1 /\ x.year > x.min /\ z.month = Months /\ z.year = x.year - 1
    BY <2>1, <2>7, <2>8 DEF Earlier
  <2>10. Length(z) = LastOfPrev(x)
    <3>1. CASE x.month > 1
      BY <2>8, <2>9, <3>1 DEF Length, LastOfPrev
    <3>2. CASE x.month = 1
      <4>1. Months \in 1 .. Months /\ Months # 2 /\ x.year \in CalYears
        BY <1>1, <2>8, YearsFact
      <4>2. z.month = Months
        BY <2>9, <3>2
      <4>3. Length(z) = LongDays
        BY <2>8, <4>1, <4>2, MonthDaysFact DEF Length
      <4>4. LastOfPrev(x) = LongDays
        BY <3>2, <4>1, MonthDaysFact DEF LastOfPrev
      <4> QED
        BY <4>3, <4>4
    <3> QED
      BY <2>8, <3>1, <3>2
  <2>11. z.selected = Length(z)
    BY <1>3, <2>4, <2>6, <2>10 DEF Shortened
  <2>12. ~(z.year = z.max /\ z.month = Months)
    BY <2>7, <2>8, <2>9
  <2>13. Later(z, KeyRight(z)) /\ KeyRight(z).selected = 1
    BY <2>7, <2>11, <2>12, RightSteps
  <2>14. KeyRight(z).month = x.month /\ KeyRight(z).year = x.year
    BY <2>7, <2>8, <2>9, <2>13 DEF Later
  <2> QED
    BY <1>8, <2>5, <2>13, <2>14
<1> QED
  BY <1>7, <1>8

LEMMA CalendarStepFact == CalendarIInv /\ [CalendarNext]_calVars => CalendarIInv'
<1> SUFFICES ASSUME CalendarIInv, [CalendarNext]_calVars PROVE CalendarIInv'
  OBVIOUS
<1>1. CASE cal' = KeyLeft(cal) \/ cal' = KeyRight(cal)
  BY <1>1, KeyLeftFact, KeyRightFact DEF CalendarIInv
<1>2. CASE VerticalKey
  BY <1>2, KeyUpFact, KeyDownFact DEF CalendarIInv, VerticalKey
<1>3. CASE SpaceKey
  BY <1>3, SpaceKeyFact
<1>4. CASE \/ \E n \in StylusPlaces : PressAt(n) \/ SlideTo(n)
           \/ \E n \in Cells : ReleaseAt(n, TRUE)
           \/ \E n \in OutOfGrid : ReleaseAt(n, FALSE)
  BY <1>4, PressFact, SlideFact, ReleaseFact
<1>5. CASE (\E a \in Arrows : PressArrow(a)) \/ CalendarTimer \/ ReleaseArrow
  BY <1>5, ArrowsFact
<1>6. CASE \/ \E m \in 1 .. Months, y \in CalYears : AppSelectsMonth(m, y)
           \/ \E day \in 1 .. LongDays : AppSelectsDay(day)
           \/ \E min, max \in CalYears : SetYears(min, max)
  BY <1>6, AppFact
<1>7. CASE UNCHANGED calVars
  BY <1>7 DEF calVars, CalendarIInv
<1> QED
  BY <1>1, <1>2, <1>3, <1>4, <1>5, <1>6, <1>7 DEF CalendarNext

LEMMA CalendarIInvImpliesInv == CalendarIInv => CalendarInv
<1> SUFFICES ASSUME CalendarIInv PROVE CalendarInv
  OBVIOUS
<1>1. InYears(cal) /\ cal \in Calendars /\ CalendarOK(cal)
  BY DEF CalendarIInv, CalendarOK, InYears
<1>2. CalendarTypeOK
  BY <1>1 DEF CalendarTypeOK, InYears, Calendars
<1>3. SelectedExists /\ FocusOnSelected /\ ToldPressed
  BY <1>1, ToldFact DEF CalendarOK, SelectedExists, FocusOnSelected
<1>4. LeftRightReturns
  BY <1>1, LeftRightFact DEF LeftRightReturns
<1>5. PopupShowsGiven
  <2>1. cal.today \in Todays /\ ShownOf(cal) \in CalDates
    BY <1>1 DEF Calendars, ShownOf, CalDates
  <2> QED
    BY <2>1, PopupFact DEF PopupShowsGiven, PopupShowsDate
<1> QED
  BY <1>2, <1>3, <1>4, <1>5 DEF CalendarInv

(* Whatever the user and the application do to a calendar, the selected day   *)
(* exists in the month shown and the keys are on it, Left and Right undo each *)
(* other, a plain press announces the date pressed, and a popup shows its     *)
(* date unless today is at the end of a long month.                           *)
THEOREM CalendarSafe == CalendarSpec => []CalendarInv
<1>1. CalendarInit => CalendarIInv
  BY CalendarInitFact
<1>2. CalendarIInv /\ [CalendarNext]_calVars => CalendarIInv'
  BY CalendarStepFact
<1>3. CalendarIInv => CalendarInv
  BY CalendarIInvImpliesInv
<1> QED
  BY <1>1, <1>2, <1>3, PTL DEF CalendarSpec
=================================================================================
