---------------------------- MODULE Panels_proofs ----------------------------
(***************************************************************************)
(* The parts of the desktop that panels hold and show.  The popup windows  *)
(* of the desktop library: for any number of panes one window has the      *)
(* grabs while it is open, and none once it is closed, if no other client  *)
(* has the pointer when it opens.  Their menus: for any items, in any      *)
(* height, the selection and the scrolling stay with them.                 *)
(*                                                                         *)
(* What the notification manager keeps in step, for any largest id and     *)
(* any texts, as long as clients do not change the persistent hint of an   *)
(* open notification; that it keeps its promise to them until the ids have *)
(* been used up; and that no system note of the desktop is left behind,    *)
(* for any number of notifications.                                        *)
(*                                                                         *)
(* And that a container of plugins holds what its configuration file       *)
(* names, for any plugins, files and news of them.                         *)
(***************************************************************************)
EXTENDS PopupWindow, PopupMenu, PluginContainer, NotificationManager, SystemNotes, Lists_proofs,
  FiniteSetTheorems, FunctionTheorems, SequenceTheorems, TLAPS

PopupRecords ==
  [open : BOOLEAN, haveGrab : BOOLEAN, withGrab : ExtraPanes \union {None},
   shown : SUBSET PopupWindows, filled : SUBSET ExtraPanes, grabs : Seq(PopupWindows),
   xgrab : PopupWindows \union {Transfer, None}]

(* The window is open, and its own grabs and those of the X server belong   *)
(* together.  Beyond the invariant: the window itself is on the screen, so   *)
(* that the grab can always go back to it, and with have_xgrab it has both.  *)
PopupOpen(p) ==
  /\ p \in PopupRecords /\ p.open
  /\ TheWindow \in p.shown /\ p.xgrab \in p.shown
  /\ p.haveGrab => p.xgrab = TheWindow /\ p.grabs = <<TheWindow>>
  /\ ~p.haveGrab => p.withGrab \in ExtraPanes /\ p.grabs = <<p.withGrab>>

PopupClosed(p) ==
  /\ p \in PopupRecords /\ ~p.open
  /\ p.shown = {} /\ p.xgrab = None /\ p.grabs = <<>>

PopupIInv == PopupOpen(popup) \/ PopupClosed(popup)

LEMMA PopupIInvImpliesInv == PopupIInv => PopupInv
  BY DEF PopupIInv, PopupInv, PopupOpen, PopupClosed, PopupRecords, PopupTypeOK, OneGrab, ClosedFree, GrabSeen

LEMMA PopupNumbers ==
  /\ TheWindow \notin ExtraPanes /\ Transfer \notin PopupWindows
  /\ None \notin PopupWindows \union {Transfer}
  /\ PopupWindows = ExtraPanes \union {TheWindow}
  BY PopupAssumption DEF TheWindow, ExtraPanes, Transfer, PopupWindows

(* Taking windows out of a list of one. *)
LEMMA ReleasedFact ==
  ASSUME NEW w, NEW S
  PROVE  Released(<<w>>, S) = IF w \in S THEN <<>> ELSE <<w>>
<1> DEFINE kept == {k \in DOMAIN <<w>> : <<w>>[k] \notin S}
           Place(k) == Cardinality({j \in kept : j <= k})
<1>1. DOMAIN <<w>> = {1} /\ <<w>>[1] = w
  OBVIOUS
<1>2. CASE w \in S
  <2>1. kept = {}
    BY <1>1, <1>2
  <2>2. Cardinality(kept) = 0
    BY <2>1, FS_EmptySet
  <2>3. 1 .. Cardinality(kept) = {}
    BY <2>2
  <2> QED
    BY <1>2, <2>3 DEF Released
<1>3. CASE w \notin S
  <2>1. kept = {1}
    BY <1>1, <1>3
  <2>2. Cardinality(kept) = 1
    BY <2>1, FS_Singleton
  <2>3. {j \in kept : j <= 1} = kept
    BY <2>1
  <2>4. (CHOOSE k \in kept : Place(k) = 1) = 1
    BY <2>1, <2>2, <2>3
  <2>5. 1 .. Cardinality(kept) = {1}
    BY <2>2
  <2> HIDE DEF kept, Place
  <2>6. [n \in 1 .. Cardinality(kept) |-> <<w>>[CHOOSE k \in kept : Place(k) = n]] = [n \in {1} |-> w]
    <3>1. ASSUME NEW n \in {1}
          PROVE  <<w>>[CHOOSE k \in kept : Place(k) = n] = w
      <4>1. n = 1
        OBVIOUS
      <4> QED
        BY <2>4, <4>1, <1>1
    <3> QED
      BY <2>5, <3>1, Zenon
  <2>7. [n \in {1} |-> w] = <<w>>
    OBVIOUS
  <2> QED
    BY <1>3, <2>6, <2>7 DEF Released, kept, Place
<1> QED
  BY <1>2, <1>3

(* The grab goes from the window that has it to another. *)
LEMMA GrabMoves ==
  ASSUME NEW p \in PopupRecords, p.open, TheWindow \in p.shown,
         NEW from \in PopupWindows, p.grabs = <<from>>,
         NEW w \in PopupWindows, w = TheWindow \/ p.xgrab \in p.shown
  PROVE  PopupOpen(GrabMovesTo(p, from, w))
<1>1. p.grabs # <<>> /\ Released(p.grabs, {from}) = <<>>
  BY ReleasedFact
<1>2. /\ GrabRemove(p, from) \in PopupRecords
      /\ GrabRemove(p, from) = [p EXCEPT !.grabs = <<>>]
  <2>1. GrabRemove(p, from) = [p EXCEPT !.grabs = <<>>]
    BY <1>1 DEF GrabRemove
  <2>2. <<>> \in Seq(PopupWindows)
    OBVIOUS
  <2> QED
    BY <2>1, <2>2 DEF PopupRecords
<1> DEFINE q == GrabOnWindow(GrabRemove(p, from), w)
           r == GrabAdd(q, w)
<1>3. /\ q \in PopupRecords /\ q.open /\ q.shown = p.shown /\ q.grabs = <<>>
      /\ q.xgrab \in q.shown /\ (w = TheWindow => q.xgrab = TheWindow)
  <2> DEFINE free == GrabRemove(p, from)
  <2>1. /\ free \in PopupRecords /\ free.open /\ free.shown = p.shown /\ free.grabs = <<>>
        /\ free.xgrab = p.xgrab
    BY <1>2 DEF PopupRecords
  <2> HIDE DEF free
  <2>2. q = [free EXCEPT !.xgrab = IF w \in p.shown \union {Transfer} THEN w ELSE @]
    BY <2>1 DEF GrabOnWindow, free
  <2> HIDE DEF q
  <2>3. q = [free EXCEPT !.xgrab = IF w \in p.shown THEN w ELSE p.xgrab]
    BY <2>1, <2>2, PopupNumbers
  <2>4. w \in p.shown \/ w # TheWindow
    OBVIOUS
  <2> QED
    BY <2>1, <2>3, <2>4 DEF PopupRecords
<1>4. <<w>> \in Seq(PopupWindows) /\ <<w>> \o <<>> = <<w>>
  OBVIOUS
<1> HIDE DEF q
<1>5. r = [q EXCEPT !.grabs = <<w>>]
  BY <1>3, <1>4 DEF GrabAdd
<1>6. /\ r \in PopupRecords /\ r.open /\ r.shown = q.shown /\ r.grabs = <<w>>
      /\ r.xgrab = q.xgrab
  BY <1>3, <1>4, <1>5 DEF PopupRecords
<1> HIDE DEF r
<1>7. GrabMovesTo(p, from, w) =
        [r EXCEPT !.withGrab = IF w = TheWindow THEN None ELSE w, !.haveGrab = (w = TheWindow)]
  BY DEF GrabMovesTo, q, r
<1>8. CASE w = TheWindow
  <2>1. GrabMovesTo(p, from, w) = [r EXCEPT !.withGrab = None, !.haveGrab = TRUE]
    BY <1>7, <1>8
  <2> DEFINE t == GrabMovesTo(p, from, w)
  <2>2. /\ t \in PopupRecords /\ t.open /\ t.haveGrab /\ t.shown = r.shown
        /\ t.grabs = r.grabs /\ t.xgrab = r.xgrab
    BY <1>6, <2>1 DEF PopupRecords
  <2>3. TheWindow \in r.shown /\ r.xgrab = TheWindow /\ r.grabs = <<TheWindow>>
    BY <1>3, <1>6, <1>8
  <2> QED
    BY <1>3, <1>6, <2>2, <2>3 DEF PopupOpen
<1>9. CASE w # TheWindow
  <2>1. GrabMovesTo(p, from, w) = [r EXCEPT !.withGrab = w, !.haveGrab = FALSE]
    BY <1>7, <1>9
  <2>2. w \in ExtraPanes
    BY <1>9, PopupNumbers
  <2> QED
    BY <1>3, <1>6, <2>1, <2>2 DEF PopupOpen, PopupRecords
<1> QED
  BY <1>8, <1>9

LEMMA PopdownFact ==
  ASSUME NEW p, PopupOpen(p) \/ PopupClosed(p)
  PROVE  PopupClosed(PopdownAll(p))
<1>1. CASE PopupClosed(p)
  BY <1>1 DEF PopupClosed, PopdownAll
<1>2. CASE PopupOpen(p)
  <2> DEFINE hidden == HideWindows(p, PopupWindows)
             S == IF p.haveGrab THEN {TheWindow} ELSE ExtraPanes
  <2>1. Released(p.grabs, S) = <<>>
    <3>1. CASE p.haveGrab
      BY <1>2, <3>1, ReleasedFact DEF PopupOpen
    <3>2. CASE ~p.haveGrab
      BY <1>2, <3>2, ReleasedFact DEF PopupOpen
    <3> QED
      BY <3>1, <3>2
  <2>2. /\ hidden \in PopupRecords /\ hidden.shown = {} /\ hidden.xgrab = None
        /\ hidden.grabs = p.grabs
    BY <1>2, PopupNumbers DEF PopupOpen, HideWindows, PopupRecords
  <2> HIDE DEF hidden
  <2>3. PopdownAll(p) =
          [[hidden EXCEPT !.grabs = Released(@, S)]
             EXCEPT !.open = FALSE, !.xgrab = IF @ = Transfer THEN None ELSE @]
    BY <1>2 DEF PopupOpen, PopdownAll, hidden
  <2>4. [hidden EXCEPT !.grabs = Released(@, S)] = [hidden EXCEPT !.grabs = <<>>]
    BY <2>1, <2>2
  <2> DEFINE free == [hidden EXCEPT !.grabs = <<>>]
  <2>5. /\ free \in PopupRecords /\ free.shown = {} /\ free.xgrab = None /\ free.grabs = <<>>
    <3>1. <<>> \in Seq(PopupWindows)
      OBVIOUS
    <3> QED
      BY <2>2, <3>1 DEF PopupRecords
  <2>6. PopdownAll(p) = [free EXCEPT !.open = FALSE, !.xgrab = IF @ = Transfer THEN None ELSE @]
    BY <2>3, <2>4, Zenon
  <2> HIDE DEF free, S
  <2>7. PopdownAll(p) = [free EXCEPT !.open = FALSE, !.xgrab = None]
    BY <2>5, <2>6, PopupNumbers
  <2> QED
    BY <2>5, <2>7 DEF PopupClosed, PopupRecords
<1> QED
  BY <1>1, <1>2

LEMMA JumpFact ==
  ASSUME NEW p \in PopupRecords, p.open, TheWindow \in p.shown,
         p.haveGrab => p.xgrab = TheWindow /\ p.grabs = <<TheWindow>>,
         ~p.haveGrab => p.withGrab \in ExtraPanes /\ p.grabs = <<p.withGrab>>,
         NEW w \in PopupWindows, w = TheWindow \/ p.xgrab \in p.shown
  PROVE  PopupOpen(JumpToPane(p, w))
<1> DEFINE holder == IF p.haveGrab THEN TheWindow ELSE p.withGrab
<1>1. holder \in PopupWindows /\ p.grabs = <<holder>>
  BY PopupNumbers
<1>2. CASE holder = w
  BY <1>2, PopupNumbers DEF PopupOpen, JumpToPane
<1>3. CASE holder # w
  <2>1. JumpToPane(p, w) = GrabMovesTo(p, holder, w)
    BY <1>3 DEF JumpToPane
  <2> HIDE DEF holder
  <2> QED
    BY <1>1, <2>1, GrabMoves
<1> QED
  BY <1>2, <1>3

LEMMA OpensFact ==
  ASSUME ~OthersGrab, PopupIInv, PopupOpens
  PROVE  PopupOpen(popup')
<1>1. PopupClosed(popup)
  BY DEF PopupIInv, PopupOpen, PopupOpens
<1> DEFINE asked == [GrabOnWindow(popup, Transfer) EXCEPT !.haveGrab = TRUE]
           there == [asked EXCEPT !.shown = {TheWindow} \union popup.filled]
           granted == GrabOnWindow(there, TheWindow)
<1>2. popup' = [GrabAdd(granted, TheWindow) EXCEPT !.open = TRUE]
  <2>1. PICK refused \in {FALSE, OthersGrab} :
           popup' = LET asked1 == IF refused THEN popup
                                  ELSE [GrabOnWindow(popup, Transfer) EXCEPT !.haveGrab = TRUE]
                        there1 == [asked1 EXCEPT !.shown = {TheWindow} \union popup.filled]
                        granted1 == IF refused THEN there1 ELSE GrabOnWindow(there1, TheWindow)
                    IN  [GrabAdd(granted1, TheWindow) EXCEPT !.open = TRUE]
    BY DEF PopupOpens
  <2>2. ~refused
    BY PopupAssumption
  <2> QED
    BY <2>1, <2>2
<1>3. /\ asked \in PopupRecords /\ asked.grabs = <<>> /\ asked.haveGrab
  BY <1>1, PopupNumbers DEF PopupClosed, GrabOnWindow, PopupRecords
<1>4. /\ there \in PopupRecords /\ there.grabs = <<>> /\ there.haveGrab
      /\ TheWindow \in there.shown
  <2> HIDE DEF asked
  <2>1. {TheWindow} \union popup.filled \subseteq PopupWindows
    BY <1>1, PopupNumbers DEF PopupClosed, PopupRecords
  <2> QED
    BY <1>3, <2>1 DEF PopupRecords
<1> HIDE DEF there
<1>5. /\ granted \in PopupRecords /\ granted.grabs = <<>> /\ granted.haveGrab
      /\ TheWindow \in granted.shown /\ granted.xgrab = TheWindow
  BY <1>4, PopupNumbers DEF GrabOnWindow, PopupRecords
<1> HIDE DEF granted
<1>6. <<TheWindow>> \in Seq(PopupWindows) /\ <<TheWindow>> \o <<>> = <<TheWindow>>
  BY PopupNumbers
<1>7. GrabAdd(granted, TheWindow) = [granted EXCEPT !.grabs = <<TheWindow>>]
  BY <1>5, <1>6 DEF GrabAdd
<1> QED
  BY <1>2, <1>5, <1>6, <1>7 DEF PopupOpen, PopupRecords

LEMMA ItemsGoFact ==
  ASSUME PopupIInv, NEW w \in ExtraPanes, ItemsGo(w)
  PROVE  PopupIInv'
<1> DEFINE hidden == HideWindows(popup, {w})
           without == [hidden EXCEPT !.filled = @ \ {w}]
<1>1. popup' = IF popup.open THEN JumpToPane(without, TheWindow) ELSE without
  BY DEF ItemsGo
<1>2. CASE PopupClosed(popup)
  <2>1. PopupClosed(without)
    BY <1>2, PopupNumbers DEF PopupClosed, HideWindows, PopupRecords
  <2> QED
    BY <1>1, <1>2, <2>1 DEF PopupClosed, PopupIInv
<1>3. CASE PopupOpen(popup)
  <2>1. /\ hidden \in PopupRecords /\ hidden.open /\ TheWindow \in hidden.shown
        /\ hidden.haveGrab = popup.haveGrab /\ hidden.withGrab = popup.withGrab
        /\ hidden.grabs = popup.grabs
        /\ popup.xgrab # w => hidden.xgrab = popup.xgrab
    BY <1>3, PopupNumbers DEF PopupOpen, HideWindows, PopupRecords
  <2> HIDE DEF hidden
  <2>2. /\ without \in PopupRecords /\ without.open /\ TheWindow \in without.shown
        /\ without.haveGrab => without.xgrab = TheWindow /\ without.grabs = <<TheWindow>>
        /\ ~without.haveGrab => without.withGrab \in ExtraPanes
                                /\ without.grabs = <<without.withGrab>>
    BY <1>3, <2>1, PopupNumbers DEF PopupOpen, PopupRecords
  <2> HIDE DEF without
  <2>3. PopupOpen(JumpToPane(without, TheWindow))
    BY <2>2, JumpFact, PopupNumbers
  <2> QED
    BY <1>1, <1>3, <2>3 DEF PopupOpen, PopupIInv
<1> QED
  BY <1>2, <1>3 DEF PopupIInv

LEMMA PopupNextKeeps ==
  ASSUME ~OthersGrab, PopupIInv, PopupNext
  PROVE  PopupIInv'
<1>1. ASSUME popup.grabs # <<>>
      PROVE  /\ PopupOpen(popup) /\ popup \in PopupRecords /\ popup.open
             /\ TheWindow \in popup.shown /\ popup.xgrab \in popup.shown
             /\ Head(popup.grabs) \in PopupWindows /\ popup.grabs = <<Head(popup.grabs)>>
  BY <1>1, PopupNumbers DEF PopupIInv, PopupOpen, PopupClosed
<1>2. CASE PopupOpens
  BY <1>2, OpensFact DEF PopupIInv
<1>3. ASSUME popup' = PopdownAll(popup)
      PROVE  PopupIInv'
  BY <1>3, PopdownFact DEF PopupIInv
<1>4. ASSUME NEW w \in PopupWindows, popup.grabs # <<>>,
             popup' = GrabMovesTo(popup, Head(popup.grabs), w)
      PROVE  PopupIInv'
  BY <1>1, <1>4, GrabMoves DEF PopupIInv
<1>5. ASSUME NEW w \in ExtraPanes, PopupMotion(w)
      PROVE  PopupIInv'
  BY <1>4, <1>5, PopupNumbers DEF PopupMotion
<1>6. ASSUME NEW w \in ExtraPanes, PopupLeave(w)
      PROVE  PopupIInv'
  BY <1>1, <1>4, <1>6, PopupNumbers DEF PopupLeave
<1>7. ASSUME NEW w \in ExtraPanes, ItemsCome(w)
      PROVE  PopupIInv'
  <2>1. popup \in PopupRecords /\ popup' = [popup EXCEPT !.filled = @ \union {w}]
    BY <1>7 DEF ItemsCome, PopupIInv, PopupOpen, PopupClosed
  <2>2. /\ popup' \in PopupRecords /\ popup'.open = popup.open /\ popup'.shown = popup.shown
        /\ popup'.xgrab = popup.xgrab /\ popup'.grabs = popup.grabs
        /\ popup'.haveGrab = popup.haveGrab /\ popup'.withGrab = popup.withGrab
    BY <2>1 DEF PopupRecords
  <2> QED
    BY <2>2 DEF PopupIInv, PopupOpen, PopupClosed
<1>8. ASSUME NEW w \in PopupWindows, CompositedLeaveNotify(w)
      PROVE  PopupIInv'
  BY <1>4, <1>8 DEF CompositedLeaveNotify
<1>9. ASSUME NEW w \in PopupWindows, JumpTo(w)
      PROVE  PopupIInv'
  <2>1. PopupOpen(popup)
    BY <1>9 DEF JumpTo, PopupIInv, PopupClosed
  <2>2. PopupOpen(JumpToPane(popup, w))
    BY <2>1, JumpFact DEF PopupOpen
  <2> QED
    BY <1>9, <2>2 DEF JumpTo, PopupIInv
<1> QED
  BY <1>2, <1>3, <1>5, <1>6, <1>7, <1>8, <1>9, ItemsGoFact
  DEF PopupNext, PopupCloses, ButtonPress, CompositedButtonPress

(* For any number of panes, an open popup window has just one grab, that of *)
(* the window its fields name, and a closed one none                        *)
(* (hildon-desktop-popup-window.c).                                         *)
THEOREM PopupSafe == ASSUME ~OthersGrab PROVE PopupSpec => []PopupInv
<1>1. PopupInit => PopupIInv
  BY PopupNumbers DEF PopupInit, PopupIInv, PopupClosed, PopupRecords
<1>2. PopupIInv /\ [PopupNext]_popup => PopupIInv'
  BY PopupNextKeeps DEF PopupIInv, PopupOpen, PopupClosed
<1> QED
  BY <1>1, <1>2, PopupIInvImpliesInv, PTL DEF PopupSpec

-----------------------------------------------------------------------------
(* The heights of the items. *)
LEMMA ListedFinite ==
  ASSUME NEW s \in Seq(MenuItems)
  PROVE  IsFiniteSet(ItemsIn(s)) /\ ItemsIn(s) \subseteq MenuItems
<1> DEFINE f == [k \in DOMAIN s |-> s[k]]
<1>1. DOMAIN s = 1 .. Len(s) /\ \A k \in DOMAIN s : s[k] \in MenuItems
  BY LenProperties, ElementOfSeq
<1>2. IsFiniteSet(DOMAIN s)
  <2>1. Len(s) \in Int
    BY LenProperties
  <2> QED
    BY <1>1, <2>1, FS_Interval
<1>3. f \in Surjection(DOMAIN s, ItemsIn(s))
  BY DEF ItemsIn, Surjection
<1> QED
  BY <1>1, <1>2, <1>3, FS_Surjection DEF ItemsIn

LEMMA HeightFact ==
  ASSUME NEW T, IsFiniteSet(T), NEW S \in SUBSET T
  PROVE  /\ ItemsHeight(S) \in Nat /\ ItemsHeight(T) \in Nat
         /\ ItemsHeight(S) <= ItemsHeight(T)
         /\ \A i \in T \ (S \union Separators) : ItemsHeight(S) + ItemHeight <= ItemsHeight(T)
<1>1. /\ IsFiniteSet(T \ Separators) /\ IsFiniteSet(T \intersect Separators)
      /\ IsFiniteSet(S \ Separators) /\ IsFiniteSet(S \intersect Separators)
  BY FS_Subset
<1> DEFINE a == Cardinality(S \ Separators)
           b == Cardinality(S \intersect Separators)
           c == Cardinality(T \ Separators)
           d == Cardinality(T \intersect Separators)
<1>2. a \in Nat /\ b \in Nat /\ c \in Nat /\ d \in Nat
  BY <1>1, FS_CardinalityType
<1>3. a <= c /\ b <= d
  <2>1. S \ Separators \in SUBSET (T \ Separators)
    OBVIOUS
  <2>2. S \intersect Separators \in SUBSET (T \intersect Separators)
    OBVIOUS
  <2> QED
    BY <1>1, <2>1, <2>2, FS_Subset
<1>4. ASSUME NEW i \in T \ (S \union Separators) PROVE a + 1 <= c
  <2>1. Cardinality((S \ Separators) \union {i}) = a + 1
    BY <1>1, FS_AddElement
  <2>2. (S \ Separators) \union {i} \in SUBSET (T \ Separators)
    OBVIOUS
  <2> QED
    BY <1>1, <2>1, <2>2, FS_Subset
<1>5. ItemsHeight(S) = ItemHeight * a + b /\ ItemsHeight(T) = ItemHeight * c + d
  BY DEF ItemsHeight
<1> HIDE DEF a, b, c, d
<1>6. ASSUME NEW x \in Nat, NEW y \in Nat, x <= y PROVE ItemHeight * x <= ItemHeight * y
  BY <1>6, PopupMenuAssumption
<1>7. \A x \in Nat : ItemHeight * x \in Nat /\ ItemHeight * (x + 1) = ItemHeight * x + ItemHeight
  BY PopupMenuAssumption
<1>8. ItemsHeight(S) \in Nat /\ ItemsHeight(T) \in Nat /\ ItemsHeight(S) <= ItemsHeight(T)
  <2>1. ItemHeight * a <= ItemHeight * c /\ ItemHeight * a \in Nat /\ ItemHeight * c \in Nat
    BY <1>2, <1>3, <1>6, <1>7
  <2> QED
    BY <1>2, <1>3, <1>5, <2>1
<1>9. ASSUME NEW i \in T \ (S \union Separators) PROVE ItemsHeight(S) + ItemHeight <= ItemsHeight(T)
  <2>1. a + 1 <= c /\ a + 1 \in Nat
    BY <1>2, <1>4
  <2>2. ItemHeight * (a + 1) <= ItemHeight * c
    BY <1>2, <1>6, <2>1
  <2>3. /\ ItemHeight * (a + 1) = ItemHeight * a + ItemHeight
        /\ ItemHeight * a \in Nat /\ ItemHeight * c \in Nat
    BY <1>2, <1>7
  <2> QED
    BY <1>2, <1>3, <1>5, <2>2, <2>3, PopupMenuAssumption
<1> QED
  BY <1>8, <1>9

-----------------------------------------------------------------------------
(* The inductive invariant of a menu.  Beyond PopupMenuInv: the button that   *)
(* is held tells the direction; the viewport asks for what the items need,    *)
(* and has it unless a resize is queued; an item that is placed is in the     *)
(* menu, and not below its end; under a timer the menu has not grown since    *)
(* the items were placed.                                                    *)
MenuRecords ==
  [items : Seq(MenuItems), selected : (MenuItems \ Separators) \union {None},
   highlighted : SUBSET MenuItems, controls : BOOLEAN, pending : BOOLEAN,
   held : {"up", "down", None}, dir : {-1, 1}, timer : {"initial", "step", None},
   strays : [{"initial", "step"} -> Nat], crossed : BOOLEAN,
   request : Nat, page : Nat, upper : Nat, value : Int, top : [MenuItems -> Nat \union {-1}]]

Whole(m) == ItemsHeight(ItemsIn(m.items))
Distinct(s) == \A j, k \in DOMAIN s : s[j] = s[k] => j = k

HeldRight(m) ==
  m \in MenuRecords /\ (m.held = "down" => m.dir = 1) /\ (m.held = "up" => m.dir = -1)
Marked(m) == m.highlighted = {m.selected} \ {None}
Chosen(m) == m.selected \in ItemsIn(m.items) \union {None} /\ Marked(m)
Asked(m) ==
  /\ (m.controls <=> Whole(m) > MaxHeight)
  /\ m.request = IF m.controls THEN MaxHeight - ButtonsHeight ELSE Whole(m)
Boxed(m) ==
  Distinct(m.items) /\ Placed(m) \subseteq ItemsIn(m.items) /\ m.page <= m.upper
InRange(m) == ~m.pending => m.value \in 0 .. m.upper - m.page
Laid(m) ==
  ~m.pending => /\ m.page = m.request
                /\ m.upper = IF Whole(m) > m.page THEN Whole(m) ELSE m.page
                /\ Placed(m) = ItemsIn(m.items)
                /\ \A i \in ItemsIn(m.items) \ Separators : m.top[i] + ItemHeight <= m.upper
Ending(m) == (~m.crossed /\ m.held = None /\ m.timer # None) => (AtEnd(m) \/ ~m.controls)
Shrinking(m) ==
  ~m.crossed /\ m.timer # None /\ m.controls => m.page = m.request /\ Whole(m) <= m.upper
NoStrays(m) == ~m.crossed => \A kind \in {"initial", "step"} : m.strays[kind] = 0

MenuSound(m) ==
  /\ HeldRight(m) /\ Chosen(m) /\ Asked(m) /\ Boxed(m)
  /\ InRange(m) /\ Laid(m) /\ Ending(m) /\ Shrinking(m) /\ NoStrays(m)

PopupMenuIInv == MenuSound(popupMenu)

LEMMA WholeNat ==
  ASSUME NEW m \in MenuRecords
  PROVE  Whole(m) \in Nat /\ ItemsIn(m.items) \subseteq MenuItems /\ IsFiniteSet(ItemsIn(m.items))
<1>1. m.items \in Seq(MenuItems)
  BY DEF MenuRecords
<1> QED
  BY <1>1, ListedFinite, HeightFact DEF Whole

LEMMA MenuNumbers ==
  /\ ItemHeight \in Nat /\ ItemHeight > 0 /\ MaxHeight \in Nat /\ ButtonsHeight \in Nat
  /\ MaxHeight - ButtonsHeight \in Nat /\ MaxHeight - ButtonsHeight <= MaxHeight
  /\ None \notin MenuItems /\ None # "up" /\ None # "down" /\ None # "initial" /\ None # "step"
  BY PopupMenuAssumption

LEMMA PopupMenuIInvImpliesInv == PopupMenuIInv => PopupMenuInv
<1> SUFFICES ASSUME PopupMenuIInv PROVE PopupMenuInv
  OBVIOUS
<1>1. PopupMenuTypeOK
  BY DEF PopupMenuIInv, MenuSound, HeldRight, Boxed, Distinct, MenuRecords, PopupMenuTypeOK
<1>2. SelectedListed /\ ScrollEnds
  BY DEF PopupMenuIInv, MenuSound, Chosen, Marked, Ending, NoStrays, SelectedListed, ScrollEnds, InMenu
<1>3. ScrolledInRange
  <2>1. ASSUME ~popupMenu.pending PROVE popupMenu.controls <=> popupMenu.upper > popupMenu.page
    <3> DEFINE w == Whole(popupMenu)
    <3>1. /\ popupMenu.request \in Nat /\ popupMenu.controls \in BOOLEAN /\ w \in Nat
      BY WholeNat DEF PopupMenuIInv, MenuSound, HeldRight, MenuRecords
    <3>2. /\ (popupMenu.controls <=> w > MaxHeight)
          /\ popupMenu.request = IF popupMenu.controls THEN MaxHeight - ButtonsHeight ELSE w
          /\ popupMenu.page = popupMenu.request
          /\ popupMenu.upper = IF w > popupMenu.page THEN w ELSE popupMenu.page
      BY <2>1 DEF PopupMenuIInv, MenuSound, Asked, Laid
    <3> HIDE DEF w
    <3> QED
      BY <3>1, <3>2, MenuNumbers
  <2> QED
    BY <2>1 DEF PopupMenuIInv, MenuSound, InRange, Laid, ScrolledInRange, InMenu
<1> QED
  BY <1>1, <1>2, <1>3 DEF PopupMenuInv

-----------------------------------------------------------------------------
(* What scrolling leaves alone. *)
Unscrolled(m, n) ==
  /\ n.items = m.items /\ n.controls = m.controls /\ n.pending = m.pending
  /\ n.request = m.request /\ n.page = m.page /\ n.upper = m.upper /\ n.top = m.top

SameTimer(m, n) == n.timer = m.timer /\ n.strays = m.strays /\ n.crossed = m.crossed

LEMMA ScrolledSound ==
  ASSUME NEW m, MenuSound(m), NEW n, HeldRight(n), Unscrolled(m, n),
         Chosen(n), InRange(n), Ending(n), NoStrays(n),
         n.crossed \/ n.timer = None \/ (m.timer # None /\ ~m.crossed) \/ ~m.pending
  PROVE  MenuSound(n)
<1>1. Whole(n) = Whole(m) /\ Placed(n) = Placed(m)
  BY DEF Unscrolled, Whole, Placed
<1>2. Asked(n) /\ Boxed(n) /\ Laid(n)
  BY <1>1 DEF MenuSound, Asked, Boxed, Laid, Unscrolled
<1>3. Shrinking(n)
  <2>1. CASE n.crossed \/ n.timer = None \/ (m.timer # None /\ ~m.crossed)
    BY <1>1, <2>1 DEF MenuSound, Shrinking, Unscrolled
  <2>2. ASSUME ~m.pending, n.controls PROVE n.page = n.request /\ Whole(n) <= n.upper
    <3>1. /\ m.page = m.request /\ m.page \in Nat /\ Whole(m) \in Nat
          /\ m.upper = IF Whole(m) > m.page THEN Whole(m) ELSE m.page
      BY <2>2, WholeNat DEF MenuSound, Laid, HeldRight, MenuRecords
    <3> QED
      BY <1>1, <3>1 DEF Unscrolled
  <2> QED
    BY <2>1, <2>2 DEF Shrinking
<1> QED
  BY <1>2, <1>3 DEF MenuSound

LEMMA ScrollToFact ==
  ASSUME NEW m, HeldRight(m), NEW v \in Int
  PROVE  LET n == ScrollTo(m, v)
         IN  /\ HeldRight(n) /\ Unscrolled(m, n) /\ n.value = v /\ n.dir = m.dir
             /\ n.selected = m.selected /\ n.highlighted = m.highlighted /\ SameTimer(m, n)
             /\ n.held = m.held \/ AtEnd(n)
             /\ n.held \in {m.held, None}
<1> DEFINE moved == [m EXCEPT !.value = v]
           n == ScrollTo(m, v)
<1>1. /\ moved \in MenuRecords /\ Unscrolled(m, moved) /\ moved.value = v /\ moved.dir = m.dir
      /\ moved.selected = m.selected /\ moved.highlighted = m.highlighted
      /\ SameTimer(m, moved) /\ moved.held = m.held
  BY DEF HeldRight, MenuRecords, Unscrolled, SameTimer
<1> HIDE DEF moved
<1>2. n = [moved EXCEPT !.held = IF \/ moved.held = "up" /\ moved.value <= 0
                                    \/ moved.held = "down" /\ moved.value >= moved.upper - moved.page
                                 THEN None ELSE moved.held]
  BY <1>1 DEF ScrollTo, UpdateScrollButtons, moved, MenuRecords
<1>3. PICK h \in {m.held, None} :
        /\ n = [moved EXCEPT !.held = h]
        /\ h = m.held \/ (m.held = "up" /\ v <= 0)
           \/ (m.held = "down" /\ v >= moved.upper - moved.page)
  BY <1>1, <1>2
<1> HIDE DEF n
<1>4. h \in {"up", "down", None}
  BY DEF HeldRight, MenuRecords
<1>5. /\ n \in MenuRecords /\ Unscrolled(m, n) /\ n.value = v /\ n.dir = m.dir
      /\ n.selected = m.selected /\ n.highlighted = m.highlighted /\ SameTimer(m, n)
      /\ n.held = h
  BY <1>1, <1>3, <1>4 DEF MenuRecords, Unscrolled, SameTimer
<1>6. HeldRight(n)
  BY <1>5, MenuNumbers DEF HeldRight
<1>7. h = m.held \/ AtEnd(n)
  BY <1>1, <1>3, <1>5 DEF AtEnd, HeldRight, Unscrolled
<1> QED
  BY <1>5, <1>6, <1>7 DEF n

LEMMA CheckScrollFact ==
  ASSUME NEW m, HeldRight(m), m.selected # None, m.page <= m.upper
  PROVE  LET n == CheckScrollItem(m)
         IN  /\ HeldRight(n) /\ Unscrolled(m, n) /\ n.dir = m.dir
             /\ n.selected = m.selected /\ n.highlighted = m.highlighted /\ SameTimer(m, n)
             /\ n.held = m.held \/ AtEnd(n)
             /\ (InRange(m) /\ Laid(m) /\ m.selected \in ItemsIn(m.items) => InRange(n))
<1> DEFINE y == m.top[m.selected]
           below == y + HeightOf(m, m.selected) - m.page
           n == CheckScrollItem(m)
<1>1. /\ m \in MenuRecords /\ m.selected \in MenuItems \ Separators
      /\ m.page \in Nat /\ m.upper \in Nat /\ m.value \in Int
  BY DEF HeldRight, MenuRecords
<1>2. y \in Nat \union {-1} /\ HeightOf(m, m.selected) \in Nat
  BY <1>1, MenuNumbers DEF MenuRecords, HeightOf
<1>3. y \in Int /\ below \in Int
  BY <1>1, <1>2
<1>4. PICK v \in Int :
        /\ n = m \/ n = ScrollTo(m, v)
        /\ (v = y /\ y < m.value) \/ (v = below /\ below > m.value) \/ n = m
  BY <1>3 DEF CheckScrollItem
<1> HIDE DEF n
<1>5. CASE n = m
  BY <1>1, <1>5 DEF Unscrolled, SameTimer, n
<1>6. CASE n # m
  <2>1. /\ n = ScrollTo(m, v)
        /\ (v = y /\ y < m.value) \/ (v = below /\ below > m.value)
    BY <1>4, <1>6
  <2>2. /\ HeldRight(n) /\ Unscrolled(m, n) /\ n.dir = m.dir /\ n.value = v
        /\ n.selected = m.selected /\ n.highlighted = m.highlighted /\ SameTimer(m, n)
        /\ n.held = m.held \/ AtEnd(n)
    BY <2>1, ScrollToFact
  <2>3. ASSUME ~m.pending, InRange(m), Laid(m), m.selected \in ItemsIn(m.items)
        PROVE  v \in 0 .. m.upper - m.page
    <3>1. y # -1 /\ HeightOf(m, m.selected) = ItemHeight /\ y + ItemHeight <= m.upper
      BY <1>1, <2>3 DEF Laid, Placed, HeightOf
    <3>2. m.value \in 0 .. m.upper - m.page
      BY <2>3 DEF InRange
    <3> HIDE DEF y
    <3> QED
      BY <1>1, <1>2, <2>1, <3>1, <3>2, MenuNumbers
  <2>4. InRange(m) /\ Laid(m) /\ m.selected \in ItemsIn(m.items) => InRange(n)
    BY <2>2, <2>3 DEF InRange, Unscrolled
  <2> QED
    BY <2>2, <2>4 DEF n
<1> QED
  BY <1>5, <1>6

LEMMA SelectItemFact ==
  ASSUME NEW m, HeldRight(m), Marked(m), m.page <= m.upper, NEW i \in MenuItems
  PROVE  LET n == SelectItem(m, i)
         IN  /\ HeldRight(n) /\ Unscrolled(m, n) /\ Marked(n) /\ n.dir = m.dir
             /\ n.selected \in {i, m.selected} /\ SameTimer(m, n)
             /\ n.held = m.held \/ AtEnd(n)
             /\ (InRange(m) /\ Laid(m) /\ i \in ItemsIn(m.items) => InRange(n))
<1> DEFINE marked == Mark(m, i)
           n == SelectItem(m, i)
<1>1. CASE i \in Separators
  BY <1>1 DEF SelectItem, Unscrolled, SameTimer
<1>2. CASE i \notin Separators
  <2>1. marked = [m EXCEPT !.selected = i, !.highlighted = {i}]
    BY DEF Mark, Marked, HeldRight, MenuRecords
  <2>2. /\ marked \in MenuRecords /\ Unscrolled(m, marked) /\ marked.selected = i
        /\ marked.highlighted = {i} /\ SameTimer(m, marked) /\ marked.held = m.held
        /\ marked.dir = m.dir /\ marked.value = m.value
    <3>1. m \in MenuRecords /\ i \in (MenuItems \ Separators) \union {None} /\ {i} \in SUBSET MenuItems
      BY <1>2 DEF HeldRight
    <3> HIDE DEF marked
    <3> QED
      BY <2>1, <3>1 DEF MenuRecords, Unscrolled, SameTimer
  <2>3. n = CheckScrollItem(marked)
    BY <1>2 DEF SelectItem
  <2> HIDE DEF marked, n
  <2>4. HeldRight(marked) /\ marked.selected # None /\ marked.page <= marked.upper
    BY <2>2, MenuNumbers DEF HeldRight, Unscrolled
  <2>5. /\ HeldRight(n) /\ Unscrolled(marked, n) /\ n.dir = marked.dir
        /\ n.selected = marked.selected /\ n.highlighted = marked.highlighted
        /\ SameTimer(marked, n)
        /\ n.held = marked.held \/ AtEnd(n)
        /\ (InRange(marked) /\ Laid(marked) /\ marked.selected \in ItemsIn(marked.items) => InRange(n))
    BY <2>3, <2>4, CheckScrollFact
  <2>6. InRange(m) /\ Laid(m) => InRange(marked) /\ Laid(marked)
    BY <2>2 DEF InRange, Laid, Unscrolled, Whole, Placed
  <2>7. Unscrolled(m, n) /\ Marked(n)
    BY <2>2, <2>5, MenuNumbers DEF Unscrolled, Marked
  <2>9. SameTimer(m, n)
    BY <2>2, <2>5 DEF SameTimer
  <2>8. InRange(m) /\ Laid(m) /\ i \in ItemsIn(m.items) => InRange(n)
    BY <2>2, <2>5, <2>6 DEF Unscrolled
  <2> QED
    BY <2>2, <2>5, <2>7, <2>8, <2>9 DEF n
<1> QED
  BY <1>1, <1>2

-----------------------------------------------------------------------------
(* Changes of the list. *)
LEMMA ParentSizeFact ==
  ASSUME NEW m, HeldRight(m), Chosen(m), Boxed(m), NoStrays(m),
         m.crossed \/ m.timer = None \/ m.held # None,
         ~m.crossed /\ m.timer # None /\ Whole(m) > MaxHeight =>
           m.page = MaxHeight - ButtonsHeight /\ Whole(m) <= m.upper
  PROVE  MenuSound(ParentSize(m))
<1> DEFINE n == ParentSize(m)
<1>1. /\ m \in MenuRecords /\ Whole(m) \in Nat /\ ItemsHeight(ItemsIn(m.items)) = Whole(m)
  BY WholeNat DEF HeldRight, Whole
<1>2. PICK large \in BOOLEAN : large = (Whole(m) > MaxHeight)
  <2>1. CASE Whole(m) > MaxHeight
    <3>1. (Whole(m) > MaxHeight) = TRUE
      BY <2>1
    <3> QED
      BY <3>1, Zenon
  <2>2. CASE ~(Whole(m) > MaxHeight)
    <3>1. (Whole(m) > MaxHeight) = FALSE
      BY <2>2
    <3> QED
      BY <3>1, Zenon
  <2> QED
    BY <2>1, <2>2
<1>3. n = [m EXCEPT !.pending = TRUE, !.controls = large,
                     !.request = IF large THEN MaxHeight - ButtonsHeight ELSE Whole(m),
                     !.held = IF large THEN m.held ELSE None]
  BY <1>1, <1>2, Zenon DEF ParentSize
<1>4. large <=> Whole(m) > MaxHeight
  BY <1>2
<1> DEFINE request == IF large THEN MaxHeight - ButtonsHeight ELSE Whole(m)
           held == IF large THEN m.held ELSE None
<1>5. request \in Nat /\ held \in {"up", "down", None}
  BY <1>1, MenuNumbers DEF MenuRecords
<1>6. n = [m EXCEPT !.pending = TRUE, !.controls = large, !.request = request, !.held = held]
  BY <1>3
<1> HIDE DEF n, request, held
<1>7. /\ n \in MenuRecords /\ n.pending = TRUE /\ n.controls = large /\ n.request = request
      /\ n.held = held /\ n.dir = m.dir /\ SameTimer(m, n) /\ n.items = m.items
      /\ n.selected = m.selected /\ n.highlighted = m.highlighted /\ n.top = m.top
      /\ n.page = m.page /\ n.upper = m.upper
  BY <1>1, <1>5, <1>6 DEF MenuRecords, SameTimer
<1>8. Whole(n) = Whole(m) /\ Placed(n) = Placed(m)
  BY <1>7 DEF Whole, Placed
<1>9. HeldRight(n)
  BY <1>7, MenuNumbers DEF HeldRight, held
<1>10. Chosen(n) /\ Boxed(n)
  BY <1>7, <1>8 DEF Chosen, Marked, Boxed
<1>11. Asked(n)
  BY <1>1, <1>4, <1>7, <1>8 DEF Asked, request
<1>12. InRange(n) /\ Laid(n)
  BY <1>7 DEF InRange, Laid
<1>13. Ending(n) /\ NoStrays(n)
  BY <1>7 DEF Ending, NoStrays, SameTimer, held
<1>14. Shrinking(n)
  BY <1>4, <1>7, <1>8 DEF Shrinking, SameTimer, request
<1> QED
  BY <1>9, <1>10, <1>11, <1>12, <1>13, <1>14 DEF MenuSound, n

LEMMA BoxRemoveFact ==
  ASSUME NEW m, HeldRight(m), Marked(m), NEW gone \in SUBSET MenuItems, NEW left \in Seq(MenuItems),
         NEW n, n = BoxRemove(m, gone, left)
  PROVE  /\ HeldRight(n) /\ Marked(n) /\ n.items = left
         /\ n.selected = IF m.selected \in gone THEN None ELSE m.selected
         /\ Placed(n) = Placed(m) \ gone
         /\ n.held = m.held /\ SameTimer(m, n) /\ n.page = m.page /\ n.upper = m.upper
<1> DEFINE top == [i \in MenuItems |-> IF i \in gone THEN -1 ELSE m.top[i]]
           without == BoxRemoveUnseen(m, gone, left)
<1>1. m \in MenuRecords
  BY DEF HeldRight
<1>2. top \in [MenuItems -> Nat \union {-1}]
  BY <1>1 DEF MenuRecords
<1>3. without = [m EXCEPT !.items = left, !.top = top]
  BY <1>1 DEF BoxRemoveUnseen, MenuRecords
<1> HIDE DEF top
<1>4. /\ without \in MenuRecords /\ without.items = left /\ without.top = top
      /\ without.selected = m.selected /\ without.highlighted = m.highlighted
      /\ without.held = m.held /\ SameTimer(m, without) /\ without.dir = m.dir
      /\ without.page = m.page /\ without.upper = m.upper
  BY <1>1, <1>2, <1>3 DEF MenuRecords, SameTimer
<1>5. Placed(without) = Placed(m) \ gone
  BY <1>4 DEF Placed, top
<1> HIDE DEF without
<1>6. CASE m.selected \notin gone
  <2>1. n = without
    BY <1>6 DEF BoxRemove, without
  <2> QED
    BY <1>4, <1>5, <1>6, <2>1 DEF HeldRight, Marked
<1>7. CASE m.selected \in gone
  <2>1. n = [without EXCEPT !.selected = None, !.highlighted = @ \ {m.selected}]
    BY <1>7 DEF BoxRemove, without
  <2>2. without.highlighted \ {m.selected} = {}
    BY <1>4 DEF Marked
  <2>3. n = [without EXCEPT !.selected = None, !.highlighted = {}]
    BY <1>4, <2>1, <2>2 DEF MenuRecords
  <2>4. {} \in SUBSET MenuItems
    OBVIOUS
  <2>5. /\ n \in MenuRecords /\ n.items = left /\ n.top = top
        /\ n.selected = None /\ n.highlighted = {}
        /\ n.held = m.held /\ SameTimer(m, n) /\ n.dir = m.dir
        /\ n.page = m.page /\ n.upper = m.upper
    BY <1>4, <2>3, <2>4 DEF MenuRecords, SameTimer
  <2>6. Placed(n) = Placed(without)
    BY <1>4, <2>5 DEF Placed
  <2> QED
    BY <1>5, <1>7, <2>5, <2>6 DEF HeldRight, Marked
<1> QED
  BY <1>6, <1>7

(* What is done under a timer is remembered, and nothing else. *)
LEMMA CrossedFact ==
  ASSUME PopupMenuIInv, NEW m, m = Crossed(popupMenu) \/ m = CrossedAlone(popupMenu)
  PROVE  /\ MenuSound(m) /\ Unscrolled(popupMenu, m) /\ m.value = popupMenu.value
         /\ m.selected = popupMenu.selected
         /\ m.crossed \/ m.timer = None \/ m.held # None
         /\ m = Crossed(popupMenu) => m.crossed \/ m.timer = None
<1>1. popupMenu \in MenuRecords /\ popupMenu.crossed \in BOOLEAN
  BY DEF PopupMenuIInv, MenuSound, HeldRight, MenuRecords
<1>2. PICK b \in BOOLEAN :
        /\ m = [popupMenu EXCEPT !.crossed = b]
        /\ popupMenu.crossed => b
        /\ b \/ popupMenu.timer = None \/ popupMenu.held # None
        /\ m = Crossed(popupMenu) => b \/ popupMenu.timer = None
  <2>1. CASE m = Crossed(popupMenu)
    <3>1. m = [popupMenu EXCEPT !.crossed = popupMenu.crossed \/ popupMenu.timer # None]
      BY <1>1, <2>1 DEF Crossed, MenuRecords
    <3>2. (popupMenu.crossed \/ popupMenu.timer # None) \in BOOLEAN
      OBVIOUS
    <3> QED
      BY <3>1, <3>2
  <2>2. CASE m # Crossed(popupMenu) /\ m = CrossedAlone(popupMenu)
    <3> DEFINE b == popupMenu.crossed \/ (popupMenu.timer # None /\ popupMenu.held = None)
    <3>1. m = [popupMenu EXCEPT !.crossed = b]
      BY <1>1, <2>2 DEF CrossedAlone, MenuRecords
    <3>2. b \in BOOLEAN /\ (popupMenu.crossed => b)
          /\ (b \/ popupMenu.timer = None \/ popupMenu.held # None)
      OBVIOUS
    <3> HIDE DEF b
    <3> QED
      BY <2>2, <3>1, <3>2
  <2> QED
    BY <2>1, <2>2
<1>3. /\ m \in MenuRecords /\ Unscrolled(popupMenu, m) /\ m.value = popupMenu.value
      /\ m.selected = popupMenu.selected /\ m.highlighted = popupMenu.highlighted
      /\ m.held = popupMenu.held /\ m.dir = popupMenu.dir /\ m.timer = popupMenu.timer
      /\ m.strays = popupMenu.strays /\ m.crossed = b
  BY <1>1, <1>2 DEF MenuRecords, Unscrolled
<1>4. Whole(m) = Whole(popupMenu) /\ Placed(m) = Placed(popupMenu) /\ AtEnd(m) = AtEnd(popupMenu)
  BY <1>3 DEF Unscrolled, Whole, Placed, AtEnd
<1>5. HeldRight(m) /\ Chosen(m) /\ Asked(m) /\ Boxed(m) /\ InRange(m) /\ Laid(m)
  BY <1>3, <1>4 DEF PopupMenuIInv, MenuSound, HeldRight, Chosen, Marked, Asked, Boxed, InRange,
                    Laid, Unscrolled
<1>6. Ending(m) /\ Shrinking(m) /\ NoStrays(m)
  BY <1>2, <1>3, <1>4 DEF PopupMenuIInv, MenuSound, Ending, Shrinking, NoStrays, Unscrolled
<1> QED
  BY <1>2, <1>3, <1>5, <1>6 DEF MenuSound

LEMMA AddMenuItemKeeps ==
  ASSUME PopupMenuIInv, NEW i \in MenuItems, AddMenuItem(i)
  PROVE  PopupMenuIInv'
<1> DEFINE s == popupMenu.items
           items == <<i>> \o s
           c == Crossed(popupMenu)
           m == [c EXCEPT !.items = items]
<1>1. /\ MenuSound(c) /\ c \in MenuRecords /\ c.items = s /\ s \in Seq(MenuItems)
      /\ c.crossed \/ c.timer = None
  <2>1. MenuSound(c) /\ Unscrolled(popupMenu, c) /\ (c.crossed \/ c.timer = None)
    BY CrossedFact
  <2> HIDE DEF c
  <2> QED
    BY <2>1 DEF MenuSound, HeldRight, MenuRecords, Unscrolled
<1>9. popupMenu' = ParentSize([c EXCEPT !.items = <<i>> \o s])
  BY <1>1 DEF AddMenuItem, MenuRecords
<1> HIDE DEF c
<1>2. /\ items \in Seq(MenuItems) /\ Len(items) = Len(s) + 1
      /\ DOMAIN items = 1 .. Len(s) + 1 /\ DOMAIN s = 1 .. Len(s) /\ Len(s) \in Nat
      /\ items[1] = i /\ \A k \in 2 .. Len(s) + 1 : items[k] = s[k - 1]
  BY <1>1
<1> HIDE DEF s, items
<1>3. ItemsIn(items) = {i} \union ItemsIn(s)
  <2>1. ASSUME NEW k \in DOMAIN items PROVE items[k] \in {i} \union ItemsIn(s)
    <3>1. CASE k = 1
      BY <1>2, <3>1
    <3>2. CASE k # 1
      <4>1. k - 1 \in DOMAIN s /\ items[k] = s[k - 1]
        BY <1>2, <3>2
      <4> QED
        BY <4>1 DEF ItemsIn
    <3> QED
      BY <3>1, <3>2
  <2>2. ASSUME NEW k \in DOMAIN s PROVE s[k] \in ItemsIn(items)
    <3>1. k + 1 \in DOMAIN items /\ items[k + 1] = s[k]
      BY <1>2
    <3> QED
      BY <3>1 DEF ItemsIn
  <2>3. i \in ItemsIn(items)
    BY <1>2 DEF ItemsIn
  <2> QED
    BY <2>1, <2>2, <2>3 DEF ItemsIn
<1>4. Distinct(items)
  <2>1. Distinct(s) /\ i \notin ItemsIn(s)
    BY <1>1 DEF MenuSound, Boxed, s, AddMenuItem, InMenu
  <2>2. ASSUME NEW j \in DOMAIN items, NEW k \in DOMAIN items, items[j] = items[k]
        PROVE  j = k
    <3>1. CASE j = 1 \/ k = 1
      BY <1>2, <2>1, <2>2, <3>1 DEF ItemsIn
    <3>2. CASE j # 1 /\ k # 1
      <4>1. j - 1 \in DOMAIN s /\ k - 1 \in DOMAIN s /\ s[j - 1] = s[k - 1]
        BY <1>2, <2>2, <3>2
      <4>2. j - 1 = k - 1
        BY <2>1, <4>1 DEF Distinct
      <4> QED
        BY <1>2, <4>2
    <3> QED
      BY <3>1, <3>2
  <2> QED
    BY <2>2 DEF Distinct
<1>5. /\ m \in MenuRecords /\ m.items = items /\ m.selected = c.selected
      /\ m.highlighted = c.highlighted /\ m.held = c.held
      /\ m.dir = c.dir /\ SameTimer(c, m) /\ m.page = c.page
      /\ m.upper = c.upper /\ m.top = c.top
  BY <1>1, <1>2 DEF MenuRecords, SameTimer
<1> HIDE DEF m
<1>6. HeldRight(m) /\ Chosen(m) /\ Boxed(m) /\ NoStrays(m)
  BY <1>1, <1>3, <1>4, <1>5
  DEF MenuSound, HeldRight, Chosen, Marked, Boxed, Placed, NoStrays, SameTimer
<1>7. popupMenu' = ParentSize(m)
  BY <1>9 DEF m, items
<1>8. MenuSound(ParentSize(m))
  BY <1>1, <1>5, <1>6, ParentSizeFact DEF SameTimer
<1> QED
  BY <1>7, <1>8 DEF PopupMenuIInv

(* One element taken out of a sequence. *)
LEMMA ItemOutFact ==
  ASSUME NEW s \in Seq(MenuItems), Distinct(s), NEW k \in DOMAIN s
  PROVE  LET left == SubSeq(s, 1, k - 1) \o SubSeq(s, k + 1, Len(s))
         IN  /\ left \in Seq(MenuItems) /\ Distinct(left)
             /\ ItemsIn(left) = ItemsIn(s) \ {s[k]}
<1> DEFINE low == SubSeq(s, 1, k - 1)
           high == SubSeq(s, k + 1, Len(s))
           left == low \o high
<1>1. DOMAIN s = 1 .. Len(s) /\ Len(s) \in Nat /\ k \in 1 .. Len(s)
  OBVIOUS
<1>2. low \in Seq(MenuItems) /\ Len(low) = k - 1 /\ \A j \in 1 .. k - 1 : low[j] = s[j]
  BY <1>1
<1>3. /\ high \in Seq(MenuItems) /\ Len(high) = Len(s) - k
      /\ \A j \in 1 .. Len(s) - k : high[j] = s[j + k]
  <2>1. \A j \in 1 .. Len(s) - k : high[j] = s[(k + 1) + j - 1] /\ (k + 1) + j - 1 = j + k
    BY <1>1
  <2> QED
    BY <1>1, <2>1
<1> HIDE DEF low, high
<1>4. PICK n \in Nat : n = Len(s)
  BY <1>1
<1>5. /\ left \in Seq(MenuItems) /\ DOMAIN left = 1 .. n - 1
      /\ \A j \in 1 .. n - 1 : left[j] = IF j < k THEN s[j] ELSE s[j + 1]
  <2>1. /\ left \in Seq(MenuItems) /\ Len(left) = n - 1
        /\ \A j \in 1 .. n - 1 : left[j] = IF j <= k - 1 THEN low[j] ELSE high[j - (k - 1)]
    <3>1. Len(low) = k - 1 /\ Len(low) + Len(high) = n - 1
      <4>1. Len(low) = k - 1 /\ Len(high) = n - k /\ k \in 1 .. n
        BY <1>1, <1>2, <1>3, <1>4
      <4> QED
        BY <4>1
    <3> QED
      <4>1. low \in Seq(MenuItems) /\ high \in Seq(MenuItems)
        BY <1>2, <1>3
      <4>2. /\ left \in Seq(MenuItems) /\ Len(left) = Len(low) + Len(high)
            /\ \A j \in 1 .. Len(low) + Len(high) :
                 left[j] = IF j <= Len(low) THEN low[j] ELSE high[j - Len(low)]
        BY <4>1, ConcatProperties
      <4> QED
        BY <3>1, <4>2
  <2>2. ASSUME NEW j \in 1 .. n - 1, ~(j <= k - 1)
        PROVE  high[j - (k - 1)] = s[j + 1]
    <3>1. j - (k - 1) \in 1 .. n - k /\ (j - (k - 1)) + k = j + 1
      BY <1>1, <1>4, <2>2
    <3> QED
      BY <1>3, <1>4, <3>1
  <2> HIDE DEF left
  <2>3. DOMAIN left = 1 .. n - 1
    BY <2>1
  <2>4. ASSUME NEW j \in 1 .. n - 1 PROVE left[j] = IF j < k THEN s[j] ELSE s[j + 1]
    <3>1. CASE j <= k - 1
      <4>1. j \in 1 .. k - 1 /\ j < k
        BY <1>1, <3>1
      <4> QED
        BY <1>2, <2>1, <3>1, <4>1
    <3>2. CASE ~(j <= k - 1)
      <4>1. ~(j < k)
        BY <1>1, <3>2
      <4> QED
        BY <2>1, <2>2, <3>2, <4>1
    <3> QED
      BY <3>1, <3>2
  <2> QED
    BY <2>1, <2>3, <2>4
<1> DEFINE P(j) == IF j < k THEN j ELSE j + 1
<1> HIDE DEF left
<1>6. \A j \in DOMAIN left : P(j) \in DOMAIN s \ {k} /\ left[j] = s[P(j)]
  BY <1>1, <1>4, <1>5
<1>7. \A j \in DOMAIN s \ {k} : \E i \in DOMAIN left : P(i) = j
  <2> SUFFICES ASSUME NEW j \in DOMAIN s \ {k} PROVE \E i \in DOMAIN left : P(i) = j
    OBVIOUS
  <2>1. CASE j < k
    <3>1. j \in DOMAIN left /\ P(j) = j
      BY <1>1, <1>4, <1>5, <2>1
    <3> QED
      BY <3>1
  <2>2. CASE ~(j < k)
    <3>1. j - 1 \in DOMAIN left /\ P(j - 1) = j
      BY <1>1, <1>4, <1>5, <2>2
    <3> QED
      BY <3>1
  <2> QED
    BY <2>1, <2>2
<1>8. Distinct(left)
  <2> SUFFICES ASSUME NEW j \in DOMAIN left, NEW i \in DOMAIN left, left[j] = left[i]
               PROVE  j = i
    BY DEF Distinct
  <2>1. P(j) \in DOMAIN s /\ P(i) \in DOMAIN s /\ s[P(j)] = s[P(i)]
    BY <1>6
  <2>2. P(j) = P(i)
    BY <2>1 DEF Distinct
  <2> QED
    BY <1>1, <1>4, <1>5, <2>2
<1>9. ItemsIn(left) = ItemsIn(s) \ {s[k]}
  <2>1. ASSUME NEW j \in DOMAIN left PROVE left[j] \in ItemsIn(s) \ {s[k]}
    BY <1>6 DEF ItemsIn, Distinct
  <2>2. ASSUME NEW j \in DOMAIN s, s[j] # s[k] PROVE s[j] \in ItemsIn(left)
    BY <1>6, <1>7, <2>2 DEF ItemsIn
  <2> QED
    BY <2>1, <2>2 DEF ItemsIn
<1> QED
  BY <1>5, <1>8, <1>9 DEF left, low, high

LEMMA RemoveMenuItemKeeps ==
  ASSUME PopupMenuIInv, NEW i \in MenuItems, RemoveMenuItem(i)
  PROVE  PopupMenuIInv'
<1> DEFINE c == CrossedAlone(popupMenu)
<1>0. /\ MenuSound(c) /\ c.items = popupMenu.items
      /\ c.crossed \/ c.timer = None \/ c.held # None
  BY CrossedFact DEF Unscrolled
<1>1. PICK k \in DOMAIN c.items :
        /\ c.items[k] = i
        /\ popupMenu' = ParentSize(BoxRemove(c, {i},
                          SubSeq(c.items, 1, k - 1)
                            \o SubSeq(c.items, k + 1, Len(c.items))))
  BY <1>0 DEF RemoveMenuItem
<1> HIDE DEF c
<1> DEFINE left == SubSeq(c.items, 1, k - 1)
                     \o SubSeq(c.items, k + 1, Len(c.items))
           gone == {i}
           m == BoxRemove(c, gone, left)
<1>2. /\ HeldRight(c) /\ Chosen(c) /\ Boxed(c) /\ Asked(c)
      /\ Shrinking(c) /\ c \in MenuRecords
  BY <1>0 DEF MenuSound, HeldRight
<1>3. c.items \in Seq(MenuItems) /\ Distinct(c.items)
  BY <1>2 DEF MenuRecords, Boxed
<1>4. /\ left \in Seq(MenuItems) /\ Distinct(left)
      /\ ItemsIn(left) = ItemsIn(c.items) \ {i}
  BY <1>1, <1>3, ItemOutFact
<1> HIDE DEF left
<1>5. /\ HeldRight(m) /\ Marked(m) /\ m.items = left
      /\ m.selected = IF c.selected \in gone THEN None ELSE c.selected
      /\ Placed(m) = Placed(c) \ gone
      /\ m.held = c.held /\ SameTimer(c, m)
      /\ m.page = c.page /\ m.upper = c.upper
  <2>1. m = BoxRemove(c, gone, left) /\ gone \in SUBSET MenuItems
    OBVIOUS
  <2>2. HeldRight(c) /\ Marked(c) /\ left \in Seq(MenuItems)
    BY <1>2, <1>4 DEF Chosen
  <2> HIDE DEF m, gone
  <2> QED
    BY <2>1, <2>2, BoxRemoveFact
<1> HIDE DEF m
<1>6. Chosen(m) /\ Boxed(m)
  BY <1>2, <1>4, <1>5 DEF Chosen, Boxed
<1>7. Whole(m) <= Whole(c) /\ Whole(m) \in Nat /\ Whole(c) \in Nat
  BY <1>2, <1>4, <1>5, WholeNat, HeightFact DEF Whole
<1>8. ~m.crossed /\ m.timer # None /\ Whole(m) > MaxHeight =>
        m.page = MaxHeight - ButtonsHeight /\ Whole(m) <= m.upper
  <2> SUFFICES ASSUME ~m.crossed, m.timer # None, Whole(m) > MaxHeight
               PROVE  m.page = MaxHeight - ButtonsHeight /\ Whole(m) <= m.upper
    OBVIOUS
  <2>1. c.controls
    BY <1>2, <1>7, MenuNumbers DEF Asked
  <2>2. /\ c.page = c.request /\ Whole(c) <= c.upper
        /\ c.request = MaxHeight - ButtonsHeight
    BY <1>2, <1>5, <2>1 DEF Asked, Shrinking, SameTimer
  <2>3. c.upper \in Nat
    BY <1>2 DEF MenuRecords
  <2> QED
    BY <1>5, <1>7, <2>2, <2>3
<1>9. (m.crossed \/ m.timer = None \/ m.held # None) /\ NoStrays(m)
  BY <1>0, <1>5 DEF MenuSound, NoStrays, SameTimer
<1>10. MenuSound(ParentSize(m))
  BY <1>5, <1>6, <1>8, <1>9, ParentSizeFact
<1> QED
  BY <1>1, <1>10 DEF PopupMenuIInv, m, left

LEMMA ReplaceItemsKeeps ==
  ASSUME PopupMenuIInv, NEW i \in MenuItems, NEW j \in MenuItems, i # j,
         NEW c \in {i, None}, ReplaceItems(c, <<i, j>>)
  PROVE  PopupMenuIInv'
<1> DEFINE items == <<i, j>>
           d == Crossed(popupMenu)
           m == IF c = None THEN d ELSE SelectItem(d, c)
           n == BoxRemove(m, InMenu, items)
<1>1. /\ items \in Seq(MenuItems) /\ ItemsIn(items) = {i, j} /\ Distinct(items)
  <2>1. DOMAIN items = {1, 2} /\ items[1] = i /\ items[2] = j
    OBVIOUS
  <2> HIDE DEF items
  <2>2. ItemsIn(items) = {i, j}
    BY <2>1 DEF ItemsIn
  <2>3. Distinct(items)
    BY <2>1 DEF Distinct
  <2>4. items \in Seq(MenuItems)
    BY DEF items
  <2> QED
    BY <2>2, <2>3, <2>4
<1>2. ItemsIn(items) \intersect InMenu = {} /\ popupMenu' = ParentSize(n)
  BY DEF ReplaceItems
<1> HIDE DEF items
<1>10. MenuSound(d) /\ d.items = popupMenu.items /\ (d.crossed \/ d.timer = None)
  BY CrossedFact DEF Unscrolled
<1> HIDE DEF d
<1>3. /\ HeldRight(d) /\ Chosen(d) /\ Boxed(d) /\ NoStrays(d)
      /\ d.crossed \/ d.timer = None
      /\ d \in MenuRecords /\ InMenu = ItemsIn(d.items)
  BY <1>10 DEF MenuSound, HeldRight, InMenu
<1>4. InMenu \in SUBSET MenuItems
  BY <1>3, WholeNat
<1>5. /\ HeldRight(m) /\ Marked(m) /\ SameTimer(d, m) /\ m.page <= m.upper
      /\ m.selected \in InMenu \union {None} \union {c} /\ m.top = d.top
  <2>1. CASE c = None
    BY <1>3, <2>1 DEF Chosen, Boxed, SameTimer
  <2>2. CASE c # None
    <3>1. m = SelectItem(d, c) /\ c \in MenuItems
      BY <2>2
    <3>2. /\ HeldRight(m) /\ Unscrolled(d, m) /\ Marked(m)
          /\ m.selected \in {c, d.selected} /\ SameTimer(d, m)
      BY <1>3, <3>1, SelectItemFact DEF Chosen, Boxed
    <3> QED
      BY <1>3, <3>2 DEF Unscrolled, Boxed, Chosen
  <2> QED
    BY <2>1, <2>2
<1> HIDE DEF m
<1>6. /\ HeldRight(n) /\ Marked(n) /\ n.items = items
      /\ n.selected = IF m.selected \in InMenu THEN None ELSE m.selected
      /\ Placed(n) = Placed(m) \ InMenu
      /\ SameTimer(m, n) /\ n.page = m.page /\ n.upper = m.upper
  <2>1. n = BoxRemove(m, InMenu, items)
    OBVIOUS
  <2> HIDE DEF n
  <2> QED
    BY <1>1, <1>4, <1>5, <2>1, BoxRemoveFact
<1> HIDE DEF n
<1>7. Placed(n) = {}
  <2>1. Placed(m) = Placed(d)
    BY <1>5 DEF Placed
  <2> QED
    BY <1>3, <1>6, <2>1 DEF Boxed
<1>8. Chosen(n) /\ Boxed(n)
  BY <1>1, <1>5, <1>6, <1>7 DEF Chosen, Boxed
<1>11. NoStrays(n) /\ (n.crossed \/ n.timer = None)
  BY <1>3, <1>5, <1>6 DEF NoStrays, SameTimer
<1>9. MenuSound(ParentSize(n))
  BY <1>6, <1>8, <1>11, ParentSizeFact
<1> QED
  BY <1>2, <1>9 DEF PopupMenuIInv

-----------------------------------------------------------------------------
(* GTK+ places the items. *)
LEMMA LayoutKeeps ==
  ASSUME PopupMenuIInv, Layout
  PROVE  PopupMenuIInv'
<1> DEFINE page == popupMenu.request
           height == ItemsHeight(InMenu)
           upper == IF height > page THEN height ELSE page
           top == [i \in MenuItems |-> IF i \in InMenu THEN ItemsHeight(Above(i)) ELSE -1]
           placed == [popupMenu EXCEPT !.pending = FALSE, !.page = page, !.upper = upper, !.top = top]
           v == IF popupMenu.value < 0 THEN 0
                ELSE IF popupMenu.value > upper - page THEN upper - page ELSE popupMenu.value
<1>1. popupMenu' = ScrollTo(placed, v)
  BY DEF Layout
<1>2. /\ popupMenu \in MenuRecords /\ page \in Nat /\ popupMenu.value \in Int
      /\ height \in Nat /\ height = Whole(popupMenu) /\ IsFiniteSet(InMenu) /\ InMenu \subseteq MenuItems
  BY WholeNat DEF PopupMenuIInv, MenuSound, HeldRight, MenuRecords, Whole, InMenu
<1>3. ASSUME NEW i \in InMenu
      PROVE  /\ ItemsHeight(Above(i)) \in Nat
             /\ i \notin Separators => ItemsHeight(Above(i)) + ItemHeight <= height
  <2>1. Above(i) \in SUBSET InMenu
    BY DEF Above, InMenu, ItemsIn
  <2>2. i \notin Above(i)
    <3>1. ASSUME i \in Above(i) PROVE FALSE
      <4>1. PICK k \in DOMAIN popupMenu.items, n \in DOMAIN popupMenu.items :
              popupMenu.items[k] = i /\ popupMenu.items[n] = i /\ k < n
        BY <3>1 DEF Above
      <4>2. Distinct(popupMenu.items) /\ popupMenu.items \in Seq(MenuItems)
        BY <1>2 DEF PopupMenuIInv, MenuSound, Boxed, MenuRecords
      <4>3. k = n
        BY <4>1, <4>2 DEF Distinct
      <4> QED
        BY <4>1, <4>2, <4>3
    <3> QED
      BY <3>1
  <2> QED
    BY <1>2, <2>1, <2>2, HeightFact
<1>4. top \in [MenuItems -> Nat \union {-1}]
  BY <1>3
<1>5. upper \in Nat /\ page <= upper /\ v \in 0 .. upper - page
  BY <1>2
<1>6. /\ \A i \in MenuItems : top[i] # -1 <=> i \in InMenu
      /\ \A i \in InMenu \ Separators : top[i] + ItemHeight <= height
  BY <1>2, <1>3
<1>7. upper = IF height > page THEN height ELSE page
  OBVIOUS
<1> HIDE DEF height, top, upper
<1>8. /\ placed \in MenuRecords /\ placed.pending = FALSE /\ placed.page = page
      /\ placed.upper = upper /\ placed.top = top /\ placed.value = popupMenu.value
      /\ placed.items = popupMenu.items /\ placed.controls = popupMenu.controls
      /\ placed.request = popupMenu.request /\ placed.dir = popupMenu.dir
      /\ placed.selected = popupMenu.selected /\ placed.highlighted = popupMenu.highlighted
      /\ SameTimer(popupMenu, placed) /\ placed.held = popupMenu.held
  BY <1>2, <1>4, <1>5 DEF MenuRecords, SameTimer
<1> HIDE DEF placed, v
<1>9. HeldRight(placed)
  BY <1>8 DEF PopupMenuIInv, MenuSound, HeldRight
<1> DEFINE n == ScrollTo(placed, v)
<1>10. /\ HeldRight(n) /\ Unscrolled(placed, n) /\ n.value = v /\ n.dir = placed.dir
       /\ n.selected = placed.selected /\ n.highlighted = placed.highlighted
       /\ SameTimer(placed, n)
       /\ n.held = placed.held \/ AtEnd(n)
  BY <1>5, <1>9, ScrollToFact
<1> HIDE DEF n
<1>11. Whole(n) = height /\ Placed(n) = InMenu /\ ItemsIn(n.items) = InMenu
  BY <1>2, <1>6, <1>8, <1>10 DEF Unscrolled, Whole, Placed, InMenu
<1>12. Chosen(n) /\ Asked(n) /\ Boxed(n)
  BY <1>2, <1>5, <1>8, <1>10, <1>11
  DEF PopupMenuIInv, MenuSound, Chosen, Marked, Asked, Boxed, Unscrolled, InMenu
<1>13. InRange(n)
  BY <1>5, <1>8, <1>10 DEF InRange, Unscrolled
<1>14. Laid(n)
  <2>1. ASSUME NEW i \in InMenu \ Separators PROVE top[i] + ItemHeight <= upper
    <3>1. top[i] + ItemHeight <= height /\ top[i] \in Int
      BY <1>2, <1>4, <1>6
    <3> QED
      BY <1>2, <1>5, <1>7, <3>1, MenuNumbers
  <2> QED
    BY <1>7, <1>8, <1>10, <1>11, <2>1 DEF Laid, Unscrolled
<1>15. Shrinking(n)
  BY <1>2, <1>5, <1>7, <1>8, <1>10, <1>11 DEF Shrinking, Unscrolled
<1>17. NoStrays(n)
  BY <1>8, <1>10 DEF PopupMenuIInv, MenuSound, NoStrays, SameTimer
<1>16. Ending(n)
  <2> SUFFICES ASSUME ~n.crossed, n.held = None, n.timer # None, n.controls, ~AtEnd(n) PROVE FALSE
    BY DEF Ending
  <2>1. /\ popupMenu.held = None /\ popupMenu.timer # None /\ popupMenu.controls
        /\ ~popupMenu.crossed
    BY <1>8, <1>10 DEF Unscrolled, SameTimer
  <2>2. AtEnd(popupMenu) /\ popupMenu.page = page /\ height <= popupMenu.upper
    BY <1>2, <2>1 DEF PopupMenuIInv, MenuSound, Ending, Shrinking
  <2>3. /\ n.value = v /\ n.upper = upper /\ n.page = page /\ n.dir = popupMenu.dir
        /\ popupMenu.dir \in {-1, 1} /\ popupMenu.upper \in Nat /\ popupMenu.page <= popupMenu.upper
    BY <1>2, <1>8, <1>10 DEF Unscrolled, MenuRecords, PopupMenuIInv, MenuSound, Boxed
  <2>4. upper <= popupMenu.upper
    BY <1>7, <2>2, <2>3
  <2>5. CASE popupMenu.dir = 1
    <3>1. popupMenu.value >= popupMenu.upper - page
      BY <2>2, <2>5 DEF AtEnd
    <3>2. v = upper - page
      BY <1>2, <1>5, <2>2, <2>3, <2>4, <3>1 DEF v
    <3> QED
      BY <1>2, <1>5, <2>3, <2>5, <3>2 DEF AtEnd
  <2>6. CASE popupMenu.dir = -1
    <3>1. popupMenu.value <= 0
      BY <2>2, <2>6 DEF AtEnd
    <3>2. v = 0
      BY <1>2, <1>5, <3>1 DEF v
    <3> QED
      BY <2>3, <2>6, <3>2 DEF AtEnd
  <2> QED
    BY <2>3, <2>5, <2>6
<1> QED
  BY <1>1, <1>10, <1>12, <1>13, <1>14, <1>15, <1>16, <1>17 DEF PopupMenuIInv, MenuSound, n

LEMMA ScrollStepFact ==
  ASSUME NEW m, HeldRight(m), m.page <= m.upper, NEW n, n = ScrollStep(m).menu
  PROVE  /\ HeldRight(n) /\ Unscrolled(m, n) /\ n.dir = m.dir /\ InRange(n)
         /\ n.selected = m.selected /\ n.highlighted = m.highlighted /\ SameTimer(m, n)
         /\ n.held = m.held \/ AtEnd(n)
         /\ AtEnd(m) \/ ~ScrollStep(m).again => AtEnd(n)
<1> DEFINE far == m.value + (ItemHeight + 1) * m.dir
           end == IF m.dir = 1 THEN m.upper - m.page ELSE 0
           within == 0 <= far /\ far <= m.upper - m.page
           v == IF within THEN far ELSE end
<1>1. /\ m.value \in Int /\ m.dir \in {-1, 1} /\ m.page \in Nat /\ m.upper \in Nat
  BY DEF HeldRight, MenuRecords
<1>2. far = IF m.dir = 1 THEN m.value + ItemHeight + 1 ELSE m.value - ItemHeight - 1
  BY <1>1, MenuNumbers
<1>3. n = ScrollTo(m, v)
  BY DEF ScrollStep
<1>4. ScrollStep(m).again <=> within
  BY DEF ScrollStep
<1> HIDE DEF far
<1>5. v \in 0 .. m.upper - m.page
  BY <1>1, <1>2, MenuNumbers
<1>6. ASSUME AtEnd(m) \/ ~within PROVE v = end
  BY <1>1, <1>2, <1>6, MenuNumbers DEF AtEnd
<1> HIDE DEF v, within
<1>7. /\ HeldRight(n) /\ Unscrolled(m, n) /\ n.value = v /\ n.dir = m.dir
      /\ n.selected = m.selected /\ n.highlighted = m.highlighted /\ SameTimer(m, n)
      /\ n.held = m.held \/ AtEnd(n)
  BY <1>3, <1>5, ScrollToFact
<1>8. AtEnd(m) \/ ~within => AtEnd(n)
  BY <1>1, <1>6, <1>7 DEF AtEnd, Unscrolled
<1>9. InRange(n)
  BY <1>5, <1>7 DEF InRange, Unscrolled
<1> QED
  BY <1>4, <1>7, <1>8, <1>9

Timed(m, h, t) == [m EXCEPT !.held = h, !.timer = t]

LEMMA TimerFact ==
  ASSUME NEW m, HeldRight(m), NEW t \in {"initial", "step", None}, NEW h, h = m.held \/ h = None,
         NEW n, n = Timed(m, h, t)
  PROVE  /\ HeldRight(n) /\ Unscrolled(m, n) /\ n.dir = m.dir /\ n.value = m.value
         /\ n.selected = m.selected /\ n.highlighted = m.highlighted /\ n.timer = t /\ n.held = h
         /\ n.strays = m.strays /\ n.crossed = m.crossed
         /\ AtEnd(n) <=> AtEnd(m)
<1>1. h \in {"up", "down", None} /\ m \in MenuRecords
  BY DEF HeldRight, MenuRecords
<1>2. /\ n \in MenuRecords /\ Unscrolled(m, n) /\ n.dir = m.dir /\ n.value = m.value
      /\ n.selected = m.selected /\ n.highlighted = m.highlighted /\ n.timer = t /\ n.held = h
      /\ n.strays = m.strays /\ n.crossed = m.crossed
  BY <1>1 DEF MenuRecords, Unscrolled, Timed
<1>3. HeldRight(n)
  BY <1>2, MenuNumbers DEF HeldRight
<1> QED
  BY <1>2, <1>3 DEF AtEnd, Unscrolled

LEMMA ScrollStartKeeps ==
  ASSUME PopupMenuIInv, NEW button \in {"up", "down"}, ScrollStart(button)
  PROVE  PopupMenuIInv'
<1> DEFINE dir == IF button = "up" THEN -1 ELSE 1
           strays == Forgotten(popupMenu)
           none == [kind \in {"initial", "step"} |-> 0]
<1>2. /\ popupMenu \in MenuRecords /\ popupMenu.page <= popupMenu.upper
  BY DEF PopupMenuIInv, MenuSound, HeldRight, Boxed
<1>13. PICK b \in BOOLEAN :
         b = (popupMenu.pending \/ popupMenu.timer # None \/ popupMenu.strays # none)
  OBVIOUS
<1> DEFINE pressed == [popupMenu EXCEPT !.held = button, !.dir = dir, !.strays = strays, !.crossed = b]
           m == ScrollStep(pressed).menu
<1>1. popupMenu' = [m EXCEPT !.timer = "initial"]
  BY <1>13 DEF ScrollStart
<1>14. strays \in [{"initial", "step"} -> Nat]
  <2>1. popupMenu.strays \in [{"initial", "step"} -> Nat] /\ popupMenu.timer \in {"initial", "step", None}
    BY <1>2 DEF MenuRecords
  <2> QED
    BY <2>1 DEF Forgotten
<1>15. ~b => strays = none /\ ~popupMenu.pending
  BY <1>13 DEF Forgotten
<1> HIDE DEF strays
<1>3. /\ pressed \in MenuRecords /\ Unscrolled(popupMenu, pressed) /\ pressed.held = button
      /\ pressed.dir = dir /\ pressed.selected = popupMenu.selected
      /\ pressed.highlighted = popupMenu.highlighted
      /\ pressed.strays = strays /\ pressed.crossed = b
  BY <1>2, <1>14 DEF MenuRecords, Unscrolled
<1>4. HeldRight(pressed) /\ pressed.page <= pressed.upper
  BY <1>2, <1>3 DEF HeldRight, Unscrolled
<1> HIDE DEF pressed, dir
<1>5. /\ HeldRight(m) /\ Unscrolled(pressed, m) /\ InRange(m)
      /\ m.selected = pressed.selected /\ m.highlighted = pressed.highlighted
      /\ m.held = pressed.held \/ AtEnd(m)
      /\ SameTimer(pressed, m)
  BY <1>4, ScrollStepFact
<1> HIDE DEF m
<1> DEFINE n == [m EXCEPT !.held = m.held, !.timer = "initial"]
<1>6. popupMenu' = n
  BY <1>1, <1>5 DEF HeldRight, MenuRecords
<1>7. /\ HeldRight(n) /\ Unscrolled(m, n) /\ n.value = m.value
      /\ n.selected = m.selected /\ n.highlighted = m.highlighted /\ n.held = m.held
      /\ n.strays = m.strays /\ n.crossed = m.crossed
      /\ AtEnd(n) <=> AtEnd(m)
  <2>1. n = Timed(m, m.held, "initial")
    BY DEF Timed
  <2> HIDE DEF n
  <2> QED
    BY <1>5, <2>1, TimerFact
<1> HIDE DEF n
<1>8. Unscrolled(popupMenu, n)
  BY <1>3, <1>5, <1>7 DEF Unscrolled
<1>9. Chosen(n)
  BY <1>3, <1>5, <1>7, <1>8 DEF PopupMenuIInv, MenuSound, Chosen, Marked, Unscrolled
<1>10. InRange(n)
  BY <1>5, <1>7 DEF InRange, Unscrolled
<1>11. Ending(n)
  BY <1>3, <1>5, <1>7, MenuNumbers DEF Ending
<1>16. NoStrays(n) /\ (n.crossed \/ ~popupMenu.pending)
  BY <1>3, <1>5, <1>7, <1>15 DEF NoStrays, SameTimer
<1>12. MenuSound(n)
  BY <1>7, <1>8, <1>9, <1>10, <1>11, <1>16, ScrolledSound DEF PopupMenuIInv
<1> QED
  BY <1>6, <1>12 DEF PopupMenuIInv

LEMMA ScrollTimeoutKeeps ==
  ASSUME PopupMenuIInv, ScrollTimeout
  PROVE  PopupMenuIInv'
<1> DEFINE m == ScrollStep(popupMenu).menu
           t == IF ScrollStep(popupMenu).again THEN m.timer ELSE None
           n == [m EXCEPT !.held = m.held, !.timer = t]
<1>1. popupMenu' = [m EXCEPT !.timer = IF ScrollStep(popupMenu).again THEN @ ELSE None]
  BY DEF ScrollTimeout
<1>2. /\ HeldRight(popupMenu) /\ popupMenu.page <= popupMenu.upper /\ popupMenu.timer = "step"
  BY DEF PopupMenuIInv, MenuSound, Boxed, ScrollTimeout
<1>3. /\ HeldRight(m) /\ Unscrolled(popupMenu, m) /\ InRange(m)
      /\ m.selected = popupMenu.selected /\ m.highlighted = popupMenu.highlighted
      /\ SameTimer(popupMenu, m)
      /\ m.held = popupMenu.held \/ AtEnd(m)
      /\ AtEnd(popupMenu) => AtEnd(m)
  BY <1>2, ScrollStepFact
<1> HIDE DEF m
<1>4. popupMenu' = n
  BY <1>1, <1>3 DEF HeldRight, MenuRecords
<1>5. t \in {"initial", "step", None}
  BY <1>2, <1>3 DEF SameTimer
<1> HIDE DEF t
<1>6. /\ HeldRight(n) /\ Unscrolled(m, n) /\ n.value = m.value
      /\ n.selected = m.selected /\ n.highlighted = m.highlighted /\ n.held = m.held
      /\ n.strays = m.strays /\ n.crossed = m.crossed
      /\ AtEnd(n) <=> AtEnd(m)
  <2>1. n = Timed(m, m.held, t)
    BY DEF Timed
  <2> HIDE DEF n
  <2> QED
    BY <1>3, <1>5, <2>1, TimerFact
<1> HIDE DEF n
<1>7. Unscrolled(popupMenu, n)
  BY <1>3, <1>6 DEF Unscrolled
<1>8. Chosen(n)
  BY <1>3, <1>6, <1>7 DEF PopupMenuIInv, MenuSound, Chosen, Marked, Unscrolled
<1>9. InRange(n)
  BY <1>3, <1>6 DEF InRange, Unscrolled
<1>10. Ending(n)
  <2> SUFFICES ASSUME ~n.crossed, n.held = None PROVE AtEnd(n) \/ ~n.controls
    BY DEF Ending
  <2>1. popupMenu.held = None \/ AtEnd(m)
    BY <1>3, <1>6
  <2>2. popupMenu.held = None => AtEnd(popupMenu) \/ ~popupMenu.controls
    BY <1>2, <1>3, <1>6, MenuNumbers DEF PopupMenuIInv, MenuSound, Ending, SameTimer
  <2> QED
    BY <1>3, <1>6, <1>7, <2>1, <2>2 DEF Unscrolled
<1>12. NoStrays(n) /\ (n.crossed \/ (popupMenu.timer # None /\ ~popupMenu.crossed))
  BY <1>2, <1>3, <1>6, MenuNumbers DEF PopupMenuIInv, MenuSound, NoStrays, SameTimer
<1>11. MenuSound(n)
  BY <1>6, <1>7, <1>8, <1>9, <1>10, <1>12, ScrolledSound DEF PopupMenuIInv
<1> QED
  BY <1>4, <1>11 DEF PopupMenuIInv

(* A forgotten timer moves the menu, or becomes the one that is known. *)
LEMMA StrayKeeps ==
  ASSUME PopupMenuIInv, StrayInitialStep \/ StrayTimeout
  PROVE  PopupMenuIInv'
<1>1. /\ HeldRight(popupMenu) /\ popupMenu \in MenuRecords /\ popupMenu.page <= popupMenu.upper
      /\ popupMenu.strays \in [{"initial", "step"} -> Nat]
  BY DEF PopupMenuIInv, MenuSound, Boxed, HeldRight, MenuRecords
<1>2. popupMenu.crossed = TRUE
  <2>1. popupMenu.crossed
    BY <1>1 DEF PopupMenuIInv, MenuSound, NoStrays, StrayInitialStep, StrayTimeout
  <2> QED
    BY <1>1, <2>1 DEF MenuRecords
<1>3. PICK m \in {popupMenu, ScrollStep(popupMenu).menu}, t \in {"initial", "step", None},
           r \in [{"initial", "step"} -> Nat] :
        popupMenu' = [m EXCEPT !.timer = t, !.strays = r]
  <2>1. CASE StrayInitialStep
    <3> DEFINE r == [popupMenu.strays EXCEPT !["initial"] = popupMenu.strays["initial"] - 1]
    <3>1. popupMenu.strays["initial"] \in Nat /\ popupMenu.strays["initial"] > 0
      BY <1>1, <2>1 DEF StrayInitialStep
    <3>2. r \in [{"initial", "step"} -> Nat]
      BY <1>1, <3>1
    <3>3. popupMenu' = [popupMenu EXCEPT !.timer = "step", !.strays = r]
      BY <1>1, <2>1 DEF StrayInitialStep, MenuRecords
    <3> HIDE DEF r
    <3> QED
      BY <3>2, <3>3
  <2>2. CASE StrayTimeout
    <3> DEFINE m == ScrollStep(popupMenu).menu
               k == IF ScrollStep(popupMenu).again THEN m.strays["step"] ELSE m.strays["step"] - 1
               r == [m.strays EXCEPT !["step"] = k]
    <3>1. m \in MenuRecords /\ m.strays = popupMenu.strays
      BY <1>1, ScrollStepFact DEF HeldRight, SameTimer
    <3>2. k \in Nat
      BY <1>1, <2>2, <3>1 DEF StrayTimeout
    <3>3. r \in [{"initial", "step"} -> Nat]
      <4> HIDE DEF k
      <4> QED
        BY <1>1, <3>1, <3>2
    <3>4. popupMenu' = [m EXCEPT !.strays = r]
      BY <2>2, <3>1 DEF StrayTimeout, MenuRecords
    <3> HIDE DEF m, r
    <3>5. popupMenu' = [m EXCEPT !.timer = m.timer, !.strays = r]
      BY <3>1, <3>4 DEF MenuRecords
    <3>6. m \in {popupMenu, ScrollStep(popupMenu).menu} /\ m.timer \in {"initial", "step", None}
      BY <3>1 DEF MenuRecords, m
    <3> QED
      BY <3>3, <3>5, <3>6
  <2> QED
    BY <2>1, <2>2
<1>4. /\ HeldRight(m) /\ Unscrolled(popupMenu, m) /\ InRange(m) /\ m \in MenuRecords
      /\ m.selected = popupMenu.selected /\ m.highlighted = popupMenu.highlighted
      /\ SameTimer(popupMenu, m)
  <2>1. CASE m = popupMenu
    BY <1>1, <2>1 DEF PopupMenuIInv, MenuSound, Unscrolled, SameTimer
  <2>2. CASE m = ScrollStep(popupMenu).menu
    BY <1>1, <2>2, ScrollStepFact DEF HeldRight
  <2> QED
    BY <1>3, <2>1, <2>2
<1> DEFINE n == [m EXCEPT !.timer = t, !.strays = r]
<1>5. t \in {"initial", "step", None}
  BY <1>3, <1>4 DEF MenuRecords
<1>6. /\ n \in MenuRecords /\ Unscrolled(m, n) /\ n.value = m.value /\ n.held = m.held
      /\ n.dir = m.dir /\ n.selected = m.selected /\ n.highlighted = m.highlighted
      /\ n.crossed = m.crossed
  BY <1>3, <1>4, <1>5 DEF MenuRecords, Unscrolled
<1>7. popupMenu' = n
  BY <1>3
<1> HIDE DEF n
<1>8. HeldRight(n) /\ Unscrolled(popupMenu, n) /\ n.crossed = TRUE
  BY <1>2, <1>4, <1>6 DEF HeldRight, Unscrolled, SameTimer
<1>9. Chosen(n) /\ InRange(n)
  BY <1>4, <1>6, <1>8 DEF PopupMenuIInv, MenuSound, Chosen, Marked, InRange, Unscrolled
<1>10. Ending(n) /\ NoStrays(n)
  BY <1>8 DEF Ending, NoStrays
<1>11. MenuSound(n)
  BY <1>8, <1>9, <1>10, ScrolledSound DEF PopupMenuIInv
<1> QED
  BY <1>7, <1>11 DEF PopupMenuIInv

(* The timer starts to repeat, or the button is let go. *)
LEMMA TimerKeeps ==
  ASSUME PopupMenuIInv, ScrollInitialStep \/ ScrollStop
  PROVE  PopupMenuIInv'
<1>1. HeldRight(popupMenu) /\ popupMenu \in MenuRecords
  BY DEF PopupMenuIInv, MenuSound, HeldRight
<1>2. PICK t \in {"initial", "step", None}, h \in {popupMenu.held, None} :
        /\ popupMenu' = [popupMenu EXCEPT !.held = h, !.timer = t]
        /\ t = None \/ (h = popupMenu.held /\ popupMenu.timer # None)
  <2>1. CASE ScrollStop
    BY <2>1 DEF ScrollStop
  <2>2. CASE ScrollInitialStep
    <3>1. popupMenu' = [popupMenu EXCEPT !.held = popupMenu.held, !.timer = "step"]
      BY <1>1, <2>2 DEF ScrollInitialStep, MenuRecords
    <3> QED
      BY <2>2, <3>1, MenuNumbers DEF ScrollInitialStep
  <2> QED
    BY <2>1, <2>2
<1> DEFINE n == [popupMenu EXCEPT !.held = h, !.timer = t]
<1>3. /\ HeldRight(n) /\ Unscrolled(popupMenu, n) /\ n.value = popupMenu.value
      /\ n.selected = popupMenu.selected /\ n.highlighted = popupMenu.highlighted
      /\ n.timer = t /\ n.held = h
      /\ n.strays = popupMenu.strays /\ n.crossed = popupMenu.crossed
      /\ AtEnd(n) <=> AtEnd(popupMenu)
  <2>1. n = Timed(popupMenu, h, t)
    BY DEF Timed
  <2> HIDE DEF n
  <2> QED
    BY <1>1, <2>1, TimerFact
<1> HIDE DEF n
<1>4. Chosen(n) /\ InRange(n) /\ Ending(n) /\ NoStrays(n)
  BY <1>2, <1>3 DEF PopupMenuIInv, MenuSound, Chosen, Marked, InRange, Ending, NoStrays, Unscrolled
<1>5. MenuSound(n)
  BY <1>2, <1>3, <1>4, ScrolledSound DEF PopupMenuIInv
<1> QED
  BY <1>2, <1>5 DEF PopupMenuIInv, n

-----------------------------------------------------------------------------
(* Selecting. *)
LEMMA SelectItemKeeps ==
  ASSUME PopupMenuIInv, NEW i \in InMenu, popupMenu' = SelectItem(CrossedAlone(popupMenu), i)
  PROVE  PopupMenuIInv'
<1> DEFINE m == CrossedAlone(popupMenu)
           n == SelectItem(m, i)
<1>1. /\ MenuSound(m) /\ m.items = popupMenu.items
      /\ m.crossed \/ m.timer = None \/ m.held # None
  BY CrossedFact DEF Unscrolled
<1> HIDE DEF m
<1>2. /\ HeldRight(m) /\ Marked(m) /\ m.page <= m.upper /\ NoStrays(m)
      /\ m \in MenuRecords /\ i \in MenuItems /\ i \in ItemsIn(m.items)
      /\ InRange(m) /\ Laid(m)
  BY <1>1, WholeNat DEF MenuSound, HeldRight, Chosen, Boxed, InMenu
<1>3. /\ HeldRight(n) /\ Unscrolled(m, n) /\ Marked(n)
      /\ n.selected \in {i, m.selected} /\ SameTimer(m, n)
      /\ n.held = m.held \/ AtEnd(n)
      /\ InRange(n)
  BY <1>2, SelectItemFact
<1> HIDE DEF n
<1>4. Chosen(n)
  BY <1>1, <1>2, <1>3 DEF MenuSound, Chosen, Unscrolled
<1>5. Ending(n) /\ NoStrays(n)
  BY <1>1, <1>2, <1>3 DEF Ending, NoStrays, SameTimer
<1>6. n.crossed \/ n.timer = None \/ (m.timer # None /\ ~m.crossed)
  BY <1>3 DEF SameTimer
<1>7. MenuSound(n)
  BY <1>1, <1>3, <1>4, <1>5, <1>6, ScrolledSound
<1> QED
  BY <1>7 DEF PopupMenuIInv, n, m

LEMMA ScrollToSelectedKeeps ==
  ASSUME PopupMenuIInv, ScrollToSelected
  PROVE  PopupMenuIInv'
<1> DEFINE m == CrossedAlone(popupMenu)
           n == CheckScrollItem(m)
<1>1. /\ MenuSound(m) /\ m.selected = popupMenu.selected
      /\ m.crossed \/ m.timer = None \/ m.held # None
  BY CrossedFact
<1> HIDE DEF m
<1>2. /\ HeldRight(m) /\ m.selected # None /\ m.page <= m.upper /\ NoStrays(m)
      /\ InRange(m) /\ Laid(m) /\ m.selected \in ItemsIn(m.items)
  BY <1>1 DEF MenuSound, Chosen, Boxed, ScrollToSelected
<1>3. /\ HeldRight(n) /\ Unscrolled(m, n)
      /\ n.selected = m.selected /\ n.highlighted = m.highlighted
      /\ SameTimer(m, n)
      /\ n.held = m.held \/ AtEnd(n)
      /\ InRange(n)
  BY <1>2, CheckScrollFact
<1> HIDE DEF n
<1>4. Chosen(n)
  BY <1>1, <1>3 DEF MenuSound, Chosen, Marked, Unscrolled
<1>5. Ending(n) /\ NoStrays(n)
  BY <1>1, <1>2, <1>3 DEF Ending, NoStrays, SameTimer
<1>6. n.crossed \/ n.timer = None \/ (m.timer # None /\ ~m.crossed)
  BY <1>3 DEF SameTimer
<1>7. MenuSound(n)
  BY <1>1, <1>3, <1>4, <1>5, <1>6, ScrolledSound
<1> QED
  BY <1>7 DEF PopupMenuIInv, ScrollToSelected, n, m

(* The stylus selects an item, or leaves the menu. *)
LEMMA PointedKeeps ==
  ASSUME PopupMenuIInv, NEW s \in (InMenu \ Separators) \union {None},
         popupMenu' = [popupMenu EXCEPT !.selected = s, !.highlighted = {s} \ {None}]
  PROVE  PopupMenuIInv'
<1> DEFINE marks == {s} \ {None}
           n == [popupMenu EXCEPT !.selected = s, !.highlighted = marks]
<1>1. popupMenu \in MenuRecords /\ InMenu \subseteq MenuItems
  BY WholeNat DEF PopupMenuIInv, MenuSound, HeldRight, InMenu
<1>2. s \in (MenuItems \ Separators) \union {None} /\ marks \in SUBSET MenuItems
  BY <1>1
<1> HIDE DEF marks
<1>3. /\ n \in MenuRecords /\ Unscrolled(popupMenu, n) /\ n.value = popupMenu.value
      /\ n.dir = popupMenu.dir /\ n.selected = s /\ n.highlighted = marks
      /\ SameTimer(popupMenu, n) /\ n.held = popupMenu.held
  BY <1>1, <1>2 DEF MenuRecords, Unscrolled, SameTimer
<1>4. popupMenu' = n
  BY DEF marks
<1> HIDE DEF n
<1>5. HeldRight(n) /\ Chosen(n) /\ InRange(n) /\ Ending(n) /\ NoStrays(n)
  BY <1>3 DEF PopupMenuIInv, MenuSound, HeldRight, Chosen, Marked, InRange, Ending, NoStrays,
              AtEnd, Unscrolled, SameTimer, InMenu, marks
<1>7. n.crossed \/ n.timer = None \/ (popupMenu.timer # None /\ ~popupMenu.crossed)
  BY <1>3 DEF SameTimer
<1>6. MenuSound(n)
  BY <1>3, <1>5, <1>7, ScrolledSound DEF PopupMenuIInv
<1> QED
  BY <1>4, <1>6 DEF PopupMenuIInv

LEMMA PopupMenuNextKeeps ==
  ASSUME PopupMenuIInv, PopupMenuNext
  PROVE  PopupMenuIInv'
<1>1. ASSUME NEW places \in SUBSET DOMAIN popupMenu.items, NEW step, SelectNearest(places, step)
      PROVE  PopupMenuIInv'
  BY <1>1, SelectItemKeeps DEF SelectNearest, InMenu, ItemsIn
<1>2. Selectable \subseteq DOMAIN popupMenu.items
  BY DEF Selectable
<1>3. ASSUME NEW i \in MenuItems, PointAt(i) PROVE PopupMenuIInv'
  <2>1. /\ Marked(popupMenu) /\ popupMenu \in MenuRecords /\ i \in InMenu \ Separators /\ i # None
    BY <1>3, MenuNumbers DEF PopupMenuIInv, MenuSound, HeldRight, Chosen, Boxed, PointAt, InMenu
  <2>2. popupMenu' = [popupMenu EXCEPT !.selected = i, !.highlighted = {i} \ {None}]
    BY <1>3, <2>1 DEF PointAt, Mark, Marked, MenuRecords
  <2> QED
    BY <2>1, <2>2, PointedKeeps
<1>4. CASE Deselect
  <2>1. Marked(popupMenu) /\ popupMenu \in MenuRecords
    BY DEF PopupMenuIInv, MenuSound, HeldRight, Chosen
  <2>2. popupMenu' = [popupMenu EXCEPT !.selected = None, !.highlighted = {None} \ {None}]
    BY <1>4, <2>1 DEF Deselect, Marked, MenuRecords
  <2> QED
    BY <2>2, PointedKeeps
<1>5. ASSUME NEW i \in MenuItems, Select(i) PROVE PopupMenuIInv'
  BY <1>5, SelectItemKeeps DEF Select
<1>6. ASSUME NEW step \in {-1, 1}, SelectNextPrev(step) PROVE PopupMenuIInv'
  BY <1>1, <1>2, <1>6 DEF SelectNextPrev
<1>7. CASE SelectFirst \/ SelectLast
  BY <1>1, <1>2, <1>7 DEF SelectFirst, SelectLast
<1> QED
  BY <1>3, <1>4, <1>5, <1>6, <1>7, AddMenuItemKeeps, RemoveMenuItemKeeps, ReplaceItemsKeeps,
     LayoutKeeps, ScrollStartKeeps, ScrollTimeoutKeeps, StrayKeeps, TimerKeeps, ScrollToSelectedKeeps
  DEF PopupMenuNext

(* In a menu of any items in a parent of any height, what Return activates is *)
(* an item of the menu and the viewport shows nothing but its items, whatever *)
(* timers are left over; and nothing scrolls without a button until the menu  *)
(* is moved or grows under a timer (hildon-desktop-popup-menu.c).             *)
THEOREM PopupMenuSafe == PopupMenuSpec => []PopupMenuInv
<1>1. PopupMenuInit => PopupMenuIInv
  <2> SUFFICES ASSUME PopupMenuInit PROVE PopupMenuIInv
    OBVIOUS
  <2> DEFINE top == [i \in MenuItems |-> -1]
             none == [kind \in {"initial", "step"} |-> 0]
  <2>1. top \in [MenuItems -> Nat \union {-1}] /\ none \in [{"initial", "step"} -> Nat]
    OBVIOUS
  <2>2. /\ \A i \in MenuItems : top[i] = -1
        /\ \A kind \in {"initial", "step"} : none[kind] = 0
    OBVIOUS
  <2>3. popupMenu = [items |-> <<>>, selected |-> None, highlighted |-> {}, controls |-> FALSE,
                     pending |-> FALSE, held |-> None, dir |-> 1, timer |-> None,
                     strays |-> none, crossed |-> FALSE,
                     request |-> 0, page |-> 0, upper |-> 0, value |-> 0, top |-> top]
    BY DEF PopupMenuInit
  <2> HIDE DEF top, none
  <2>4. <<>> \in Seq(MenuItems) /\ DOMAIN <<>> = {}
    OBVIOUS
  <2>5. ItemsIn(popupMenu.items) = {} /\ Distinct(popupMenu.items)
    BY <2>3, <2>4 DEF ItemsIn, Distinct
  <2>6. Placed(popupMenu) = {}
    BY <2>2, <2>3 DEF Placed
  <2>7. Whole(popupMenu) = 0
    <3>1. Cardinality({} \ Separators) = 0 /\ Cardinality({} \intersect Separators) = 0
      BY FS_EmptySet
    <3> QED
      BY <2>5, <3>1, MenuNumbers DEF Whole, ItemsHeight
  <2>8. popupMenu \in MenuRecords
    BY <2>1, <2>3, <2>4 DEF MenuRecords
  <2>9. HeldRight(popupMenu) /\ Ending(popupMenu) /\ Shrinking(popupMenu)
    BY <2>3, <2>8, MenuNumbers DEF HeldRight, Ending, Shrinking
  <2>10. Chosen(popupMenu) /\ InRange(popupMenu) /\ NoStrays(popupMenu)
    BY <2>2, <2>3, <2>5 DEF Chosen, Marked, InRange, NoStrays
  <2>11. Asked(popupMenu)
    BY <2>3, <2>7, MenuNumbers DEF Asked
  <2>12. Boxed(popupMenu)
    <3>1. popupMenu.page <= popupMenu.upper
      BY <2>3
    <3> QED
      BY <2>5, <2>6, <3>1 DEF Boxed
  <2>13. Laid(popupMenu)
    BY <2>3, <2>5, <2>6, <2>7 DEF Laid
  <2> QED
    BY <2>9, <2>10, <2>11, <2>12, <2>13 DEF PopupMenuIInv, MenuSound
<1>2. PopupMenuIInv /\ [PopupMenuNext]_popupMenu => PopupMenuIInv'
  <2>1. CASE UNCHANGED popupMenu
    BY <2>1 DEF PopupMenuIInv
  <2> QED
    BY <2>1, PopupMenuNextKeeps
<1> QED
  BY <1>1, <1>2, PopupMenuIInvImpliesInv, PTL DEF PopupMenuSpec

-----------------------------------------------------------------------------
(* The manager. *)

(* What is in the database, or was passed by the search, has been given, *)
(* and all before one is given twice.                                      *)
GivenSound ==
  /\ details \subseteq given /\ 1 .. current \subseteq given
  /\ clashed => AllGiven

(* Before the ids are used up, an open notification has an id that is not   *)
(* to be given: one up to current_id, or one in the database, which next_id *)
(* passes over.  A timeout is for an id given since the start.              *)
Numbered ==
  ~AllGiven => \A i \in Ids :
    /\ Listed(i) => i <= current \/ stored[i] # None
    /\ timeouts[i] > 0 => i <= current

(* What has the id of a timeout does not persist. *)
TimersPass ==
  ~clashed => \A i \in Ids : timeouts[i] > 0 /\ Listed(i) =>
    rows[i][1].timed /\ ~rows[i][1].persistent

ManagerIInv ==
  /\ ManagerTypeOK
  /\ GivenSound
  /\ Numbered
  /\ KeptStored
  /\ TextsMatch
  /\ TimersPass

(* Before the ids are used up, the search finds one further on. *)
LEMMA NextIdFurther ==
  ASSUME ManagerIInv, NEW i \in Ids, IsNextId(i), ~AllGiven
  PROVE  /\ i > current /\ ~Listed(i) /\ timeouts[i] = 0
         /\ 1 .. i \subseteq given \union {i}
<1> USE ManagerAssumption DEF Ids, ManagerTypeOK, ManagerIInv
<1>1. \A j \in Ids : stored[j] # None => j \in given
  BY DEF GivenSound, KeptStored
<1>2. i > current
  <2> SUFFICES ASSUME i <= current PROVE FALSE
    OBVIOUS
  <2>1. \A j \in current + 1 .. MaxId : j \in given
    BY <1>1 DEF IsNextId, Tried
  <2> QED
    BY <2>1 DEF GivenSound, AllGiven
<1>3. stored[i] = None
  BY DEF IsNextId
<1>4. timeouts[i] \in Nat
  OBVIOUS
<1>5. ~Listed(i) /\ timeouts[i] = 0
  BY <1>2, <1>3, <1>4 DEF Numbered
<1>6. \A j \in current + 1 .. i - 1 : j \in given
  BY <1>1, <1>2 DEF IsNextId, Tried
<1> QED
  BY <1>2, <1>5, <1>6 DEF GivenSound

LEMMA IInvImpliesInv == ManagerIInv => ManagerInv
<1> SUFFICES ASSUME ManagerIInv PROVE ManagerInv
  OBVIOUS
<1>1. NewIdsFree
  <2> SUFFICES ASSUME NEW i \in Ids, IsNextId(i), Listed(i) \/ timeouts[i] > 0, ~AllGiven
               PROVE  FALSE
    BY DEF NewIdsFree
  <2> QED
    BY NextIdFurther
<1>2. TimersOwn
  BY DEF ManagerIInv, TimersPass, TimersOwn
<1> QED
  BY <1>1, <1>2 DEF ManagerIInv, ManagerInv

LEMMA InitIInv == ManagerInit => ManagerIInv
<1> SUFFICES ASSUME ManagerInit PROVE ManagerIInv
  OBVIOUS
<1> USE ManagerAssumption DEF ManagerInit, Ids
<1>1. ManagerTypeOK
  <2>1. <<>> \in Seq(Row) /\ 0 \in Nat /\ 0 \in 0 .. MaxId - 1
    OBVIOUS
  <2>2. rows \in [Ids -> Seq(Row)]
    BY <2>1
  <2> QED
    BY <2>1, <2>2 DEF ManagerTypeOK
<1>2. GivenSound
  BY DEF GivenSound
<1> QED
  BY <1>1, <1>2 DEF ManagerIInv, Numbered, KeptStored, TextsMatch, TimersPass, Listed

(* A row that is added to those of an id. *)
LEMMA AppendedFact ==
  ASSUME ManagerIInv, NEW i \in Ids, NEW row \in Row
  PROVE  /\ Append(rows[i], row) \in Seq(Row) /\ Append(rows[i], row) # <<>>
         /\ Len(Append(rows[i], row)) = Len(rows[i]) + 1
         /\ Append(rows[i], row)[Len(rows[i]) + 1] = row
         /\ \A k \in DOMAIN rows[i] : Append(rows[i], row)[k] = rows[i][k]
         /\ DOMAIN Append(rows[i], row) = DOMAIN rows[i] \union {Len(rows[i]) + 1}
<1>1. rows[i] \in Seq(Row) /\ Len(rows[i]) \in Nat /\ DOMAIN rows[i] = 1 .. Len(rows[i])
  BY DEF ManagerIInv, ManagerTypeOK
<1> QED
  BY <1>1

LEMMA NotifyNewStep ==
  ASSUME ManagerIInv, NEW i \in Ids, NEW body \in Bodies, NEW persistent \in BOOLEAN,
         NEW timed \in BOOLEAN, NotifyNew(i, body, persistent, timed)
  PROVE  ManagerIInv'
<1> DEFINE row == [body |-> body, persistent |-> persistent, timed |-> timed]
           more == Append(rows[i], row)
<1>1. /\ IsNextId(i) /\ stored[i] = None /\ i \notin details
      /\ current' = IF i = MaxId THEN 0 ELSE i
      /\ rows' = [rows EXCEPT ![i] = more]
      /\ given' = given \union {i}
      /\ clashed' = (clashed \/ Listed(i) \/ timeouts[i] > 0)
  BY DEF NotifyNew, IsNextId, ManagerIInv, KeptStored
<1>2. /\ stored' = IF persistent THEN [stored EXCEPT ![i] = body] ELSE stored
      /\ details' = IF persistent THEN details \union {i} ELSE details
  BY <1>1 DEF NotifyNew, DbInsert
<1>3. timeouts' = IF ~persistent /\ timed THEN [timeouts EXCEPT ![i] = @ + 1] ELSE timeouts
  BY DEF NotifyNew, StartTimer
<1>4. row \in Row /\ row.body = body /\ row.persistent = persistent /\ row.timed = timed
  BY DEF Row
<1>5. /\ more \in Seq(Row) /\ more # <<>> /\ Len(more) = Len(rows[i]) + 1
      /\ more[Len(rows[i]) + 1] = row
      /\ \A k \in DOMAIN rows[i] : more[k] = rows[i][k]
      /\ DOMAIN more = DOMAIN rows[i] \union {Len(rows[i]) + 1}
  BY <1>4, AppendedFact
<1> HIDE DEF more, row
<1>t. /\ rows \in [Ids -> Seq(Row)] /\ stored \in [Ids -> Bodies \union {None}]
      /\ timeouts \in [Ids -> Nat] /\ given \subseteq Ids /\ details \subseteq Ids
      /\ current \in 0 .. MaxId - 1 /\ clashed \in BOOLEAN /\ Len(rows[i]) \in Nat
  BY DEF ManagerIInv, ManagerTypeOK
<1>6. ManagerTypeOK'
  <2>1. current' \in 0 .. MaxId - 1
    BY <1>1, ManagerAssumption DEF Ids
  <2>2. timeouts' \in [Ids -> Nat]
    BY <1>3, <1>t
  <2>3. rows' \in [Ids -> Seq(Row)] /\ given' \subseteq Ids /\ clashed' \in BOOLEAN
    BY <1>1, <1>5, <1>t
  <2>4. stored' \in [Ids -> Bodies \union {None}] /\ details' \subseteq Ids
    BY <1>2, <1>t
  <2> QED
    BY <2>1, <2>2, <2>3, <2>4 DEF ManagerTypeOK
<1>7. ~AllGiven' => /\ ~AllGiven /\ i > current /\ i < MaxId /\ current' = i
                    /\ 1 .. i \subseteq given'
  <2> SUFFICES ASSUME ~AllGiven' PROVE /\ ~AllGiven /\ i > current /\ i < MaxId /\ current' = i
                                       /\ 1 .. i \subseteq given'
    OBVIOUS
  <2>1. ~AllGiven
    BY <1>1 DEF AllGiven
  <2>2. i > current /\ 1 .. i \subseteq given'
    BY <1>1, <2>1, NextIdFurther
  <2>3. i # MaxId
    BY <2>2 DEF AllGiven
  <2> QED
    BY <1>1, <2>1, <2>2, <2>3, ManagerAssumption DEF Ids
<1>8. GivenSound'
  <2>1. details' \subseteq given'
    BY <1>1, <1>2 DEF ManagerIInv, GivenSound
  <2>2. 1 .. current' \subseteq given'
    <3>1. CASE ~AllGiven'
      BY <1>7, <3>1
    <3>2. CASE AllGiven'
      <4>1. current' \in 0 .. MaxId
        BY <1>6, ManagerAssumption DEF ManagerTypeOK
      <4> QED
        BY <3>2, <4>1, ManagerAssumption DEF AllGiven
    <3> QED
      BY <3>1, <3>2
  <2>3. clashed' => AllGiven'
    <3>1. clashed' => AllGiven
      <4>1. CASE clashed
        BY <4>1 DEF ManagerIInv, GivenSound
      <4>2. CASE Listed(i) \/ timeouts[i] > 0
        BY <1>1, <4>2, NextIdFurther
      <4> QED
        BY <1>1, <4>1, <4>2
    <3> QED
      BY <1>1, <3>1 DEF AllGiven
  <2> QED
    BY <2>1, <2>2, <2>3 DEF GivenSound
<1>9. Numbered'
  <2> SUFFICES ASSUME ~AllGiven', NEW j \in Ids
               PROVE  /\ Listed(j)' => j <= current' \/ stored'[j] # None
                      /\ timeouts'[j] > 0 => j <= current'
    BY DEF Numbered
  <2>1. ~AllGiven /\ i > current /\ current' = i
    BY <1>7
  <2>2. CASE j = i
    BY <2>1, <2>2, <1>t DEF Ids
  <2>3. CASE j # i
    <3>1. rows'[j] = rows[j] /\ timeouts'[j] = timeouts[j] /\ stored'[j] = stored[j]
      BY <1>1, <1>2, <1>3, <1>t, <2>3
    <3>2. /\ Listed(j) => j <= current \/ stored[j] # None
          /\ timeouts[j] > 0 => j <= current
      BY <2>1 DEF ManagerIInv, Numbered
    <3>3. j <= current => j <= i
      BY <2>1, <1>t DEF Ids
    <3> QED
      BY <2>1, <3>1, <3>2, <3>3 DEF Listed
  <2> QED
    BY <2>2, <2>3
<1>10. KeptStored'
  <2>1. details' = {j \in Ids : stored'[j] # None}
    BY <1>1, <1>2, <1>t, ManagerAssumption DEF ManagerIInv, KeptStored
  <2>2. ASSUME NEW j \in Ids, NEW k \in DOMAIN rows'[j], rows'[j][k].persistent
        PROVE  k = Len(rows'[j]) /\ stored'[j] # None
    <3>1. CASE j # i
      <4>1. rows'[j] = rows[j] /\ stored'[j] = stored[j]
        BY <1>1, <1>2, <1>t, <3>1
      <4> QED
        BY <2>2, <4>1 DEF ManagerIInv, KeptStored
    <3>2. CASE j = i
      <4>1. rows'[j] = more
        BY <1>1, <1>t, <3>2
      <4>2. CASE k \in DOMAIN rows[i]
        BY <1>1, <1>5, <2>2, <3>2, <4>1, <4>2 DEF ManagerIInv, KeptStored
      <4>3. CASE k = Len(rows[i]) + 1
        <5>1. persistent
          BY <1>4, <1>5, <2>2, <4>1, <4>3
        <5>2. stored'[j] = body
          BY <1>2, <1>t, <3>2, <5>1
        <5> QED
          BY <1>5, <4>1, <4>3, <5>2, ManagerAssumption
      <4> QED
        BY <1>5, <2>2, <4>1, <4>2, <4>3
    <3> QED
      BY <3>1, <3>2
  <2>3. ASSUME NEW j \in details'
        PROVE  Listed(j)' /\ rows'[j][Len(rows'[j])].persistent
    <3>1. CASE j = i
      <4>1. rows'[j] = more
        BY <1>1, <1>t, <3>1
      <4>2. persistent
        BY <1>1, <1>2, <2>3, <3>1
      <4> QED
        BY <1>4, <1>5, <4>1, <4>2 DEF Listed
    <3>2. CASE j # i
      <4>1. j \in details
        BY <1>2, <3>2
      <4>2. rows'[j] = rows[j]
        BY <1>1, <1>t, <3>2, <4>1
      <4> QED
        BY <4>1, <4>2 DEF ManagerIInv, KeptStored, Listed
    <3> QED
      BY <3>1, <3>2
  <2> QED
    BY <2>1, <2>2, <2>3 DEF KeptStored
<1>11. ASSUME ~clashed', NEW j \in Ids, Listed(j)'
       PROVE  /\ Len(rows'[j]) = 1
              /\ rows'[j][1].persistent => stored'[j] = rows'[j][1].body
              /\ timeouts'[j] > 0 => rows'[j][1].timed /\ ~rows'[j][1].persistent
  <2>1. ~clashed /\ rows[i] = <<>> /\ timeouts[i] = 0
    <3>1. ~clashed /\ ~Listed(i) /\ ~(timeouts[i] > 0)
      BY <1>1, <1>11
    <3> QED
      BY <3>1, <1>t DEF Listed
  <2>2. CASE j # i
    <3>1. rows'[j] = rows[j] /\ timeouts'[j] = timeouts[j] /\ stored'[j] = stored[j]
      BY <1>1, <1>2, <1>3, <1>t, <2>2
    <3>2. Listed(j)
      BY <1>11, <3>1 DEF Listed
    <3>3. /\ Len(rows[j]) = 1 /\ (rows[j][1].persistent => stored[j] = rows[j][1].body)
          /\ timeouts[j] > 0 => rows[j][1].timed /\ ~rows[j][1].persistent
      BY <2>1, <3>2 DEF ManagerIInv, TextsMatch, TimersPass
    <3> QED
      BY <3>1, <3>3
  <2>3. CASE j = i
    <3>1. Len(rows[i]) = 0
      BY <2>1
    <3>2. rows'[j] = more /\ Len(more) = 1 /\ more[1] = row
      BY <1>1, <1>5, <1>t, <2>3, <3>1
    <3>3. persistent => stored'[j] = body
      BY <1>2, <1>t, <2>3
    <3>4. timeouts'[j] > 0 => timed /\ ~persistent
      BY <1>3, <1>t, <2>1, <2>3
    <3> QED
      BY <1>4, <3>2, <3>3, <3>4
  <2> QED
    BY <2>2, <2>3
<1>12. TextsMatch' /\ TimersPass'
  BY <1>11 DEF TextsMatch, TimersPass
<1> QED
  BY <1>6, <1>8, <1>9, <1>10, <1>12 DEF ManagerIInv
LEMMA NotifyChangeStep ==
  ASSUME ManagerIInv, ~HintChanges, NEW i \in Ids, NEW body \in Bodies,
         NEW persistent \in BOOLEAN, NEW timed \in BOOLEAN,
         NotifyChange(i, body, persistent, timed)
  PROVE  ManagerIInv'
<1> DEFINE first == rows[i][1]
           row == Changed(first, body, timed)
           changed == [rows[i] EXCEPT ![1] = row]
<1>t. /\ rows \in [Ids -> Seq(Row)] /\ stored \in [Ids -> Bodies \union {None}]
      /\ timeouts \in [Ids -> Nat] /\ details \subseteq Ids
      /\ rows[i] \in Seq(Row) /\ rows[i] # <<>>
  BY DEF ManagerIInv, ManagerTypeOK, NotifyChange, Listed
<1>1. 1 \in DOMAIN rows[i] /\ first \in Row
  BY <1>t
<1>2. /\ row \in Row /\ row.body = body /\ row.persistent = first.persistent
      /\ row.timed = (first.timed \/ timed)
  BY <1>1 DEF Row, Changed
<1>3. rows' = [rows EXCEPT ![i] = changed]
  BY Zenon DEF NotifyChange
<1>4. /\ changed \in Seq(Row) /\ changed # <<>> /\ Len(changed) = Len(rows[i])
      /\ DOMAIN changed = DOMAIN rows[i] /\ changed[1] = row
      /\ \A k \in DOMAIN rows[i] : k # 1 => changed[k] = rows[i][k]
  BY <1>t, <1>1, <1>2
<1>5. \A k \in DOMAIN rows[i] : changed[k].persistent = rows[i][k].persistent
  BY <1>2, <1>4
<1>6. persistent => stored[i] # None /\ i \in details
  BY DEF NotifyChange, ManagerIInv, KeptStored
<1>7. /\ stored' = IF persistent THEN [stored EXCEPT ![i] = body] ELSE stored
      /\ details' = details
  BY <1>6 DEF NotifyChange, DbUpdate
<1>8. timeouts' = IF ~persistent /\ timed THEN [timeouts EXCEPT ![i] = @ + 1] ELSE timeouts
  BY DEF NotifyChange, StartTimer
<1>9. UNCHANGED <<current, given, clashed>>
  BY DEF NotifyChange
<1> HIDE DEF first, row, changed
<1>10. ManagerTypeOK'
  <2>1. timeouts' \in [Ids -> Nat]
    BY <1>8, <1>t
  <2>2. rows' \in [Ids -> Seq(Row)] /\ stored' \in [Ids -> Bodies \union {None}]
    BY <1>3, <1>4, <1>7, <1>t
  <2> QED
    BY <2>1, <2>2, <1>7, <1>9 DEF ManagerIInv, ManagerTypeOK
<1>11. GivenSound' /\ (AllGiven' <=> AllGiven)
  BY <1>7, <1>9 DEF ManagerIInv, GivenSound, AllGiven
<1>12. Numbered'
  <2> SUFFICES ASSUME ~AllGiven, NEW j \in Ids
               PROVE  /\ Listed(j)' => j <= current \/ stored'[j] # None
                      /\ timeouts'[j] > 0 => j <= current
    BY <1>9, <1>11 DEF Numbered
  <2>1. /\ Listed(j) => j <= current \/ stored[j] # None
        /\ timeouts[j] > 0 => j <= current
    BY DEF ManagerIInv, Numbered
  <2>2. CASE j # i
    <3>1. rows'[j] = rows[j] /\ timeouts'[j] = timeouts[j] /\ stored'[j] = stored[j]
      BY <1>3, <1>7, <1>8, <1>t, <2>2
    <3> QED
      BY <2>1, <3>1 DEF Listed
  <2>3. CASE j = i
    <3>1. CASE stored[i] # None
      <4>1. ~(timeouts'[i] > 0) \/ i <= current
        <5>1. ~clashed
          BY DEF ManagerIInv, GivenSound
        <5>2. Len(rows[i]) = 1
          BY <1>t, <5>1 DEF ManagerIInv, TextsMatch, Listed
        <5>3. first.persistent
          BY <3>1, <5>2 DEF ManagerIInv, KeptStored, first
        <5>4. DOMAIN rows[i] = {1}
          BY <1>t, <5>2
        <5>5. persistent
          BY <5>3, <5>4 DEF NotifyChange, first
        <5>6. timeouts'[i] = timeouts[i]
          BY <1>8, <5>5
        <5> QED
          BY <2>1, <2>3, <5>6
      <4>2. stored'[i] # None
        BY <1>7, <1>t, <3>1, ManagerAssumption
      <4> QED
        BY <2>3, <4>1, <4>2
    <3>2. CASE i <= current
      BY <2>3, <3>2
    <3> QED
      BY <2>1, <2>3, <3>1, <3>2, <1>t DEF Listed
  <2> QED
    BY <2>2, <2>3
<1>13. KeptStored'
  <2>1. \A j \in Ids : stored'[j] # None <=> stored[j] # None
    BY <1>6, <1>7, <1>t, ManagerAssumption
  <2>2. \A j \in Ids : /\ DOMAIN rows'[j] = DOMAIN rows[j] /\ Len(rows'[j]) = Len(rows[j])
                       /\ Listed(j)' <=> Listed(j)
                       /\ \A k \in DOMAIN rows[j] : rows'[j][k].persistent = rows[j][k].persistent
    BY <1>3, <1>4, <1>5, <1>t DEF Listed
  <2>3. \A j \in details : j \in Ids /\ Listed(j) /\ Len(rows[j]) \in DOMAIN rows[j]
    BY <1>t DEF ManagerIInv, KeptStored, Listed
  <2>4. details' = {j \in Ids : stored'[j] # None}
    BY <1>7, <2>1 DEF ManagerIInv, KeptStored
  <2>5. \A j \in Ids : \A k \in DOMAIN rows'[j] :
          rows'[j][k].persistent => k = Len(rows'[j]) /\ stored'[j] # None
    BY <2>1, <2>2 DEF ManagerIInv, KeptStored
  <2>6. \A j \in details' : Listed(j)' /\ rows'[j][Len(rows'[j])].persistent
    BY <1>7, <2>2, <2>3 DEF ManagerIInv, KeptStored
  <2> QED
    BY <2>4, <2>5, <2>6 DEF KeptStored
<1>14. ASSUME ~clashed, NEW j \in Ids, Listed(j)'
       PROVE  /\ Len(rows'[j]) = 1
              /\ rows'[j][1].persistent => stored'[j] = rows'[j][1].body
              /\ timeouts'[j] > 0 => rows'[j][1].timed /\ ~rows'[j][1].persistent
  <2>1. CASE j # i
    <3>1. rows'[j] = rows[j] /\ timeouts'[j] = timeouts[j] /\ stored'[j] = stored[j]
      BY <1>3, <1>7, <1>8, <1>t, <2>1
    <3>2. Listed(j)
      BY <1>14, <3>1 DEF Listed
    <3>3. /\ Len(rows[j]) = 1 /\ (rows[j][1].persistent => stored[j] = rows[j][1].body)
          /\ timeouts[j] > 0 => rows[j][1].timed /\ ~rows[j][1].persistent
      BY <1>14, <3>2 DEF ManagerIInv, TextsMatch, TimersPass
    <3> QED
      BY <3>1, <3>3
  <2>2. CASE j = i
    <3>1. /\ Len(rows[i]) = 1
          /\ timeouts[i] > 0 => first.timed /\ ~first.persistent
      BY <1>14, <1>t DEF ManagerIInv, TextsMatch, TimersPass, Listed, first
    <3>2. DOMAIN rows[i] = {1}
      BY <1>t, <3>1
    <3>3. persistent <=> first.persistent
      BY <1>1, <3>2 DEF NotifyChange, first, Row
    <3>4. rows'[j] = changed
      BY <1>3, <1>t, <2>2
    <3>5. first.persistent => stored'[j] = body
      BY <1>7, <1>t, <2>2, <3>3
    <3>6. timeouts'[j] > 0 => (first.timed \/ timed) /\ ~first.persistent
      BY <1>8, <1>t, <2>2, <3>1, <3>3
    <3> QED
      BY <1>2, <1>4, <3>1, <3>4, <3>5, <3>6
  <2> QED
    BY <2>1, <2>2
<1>15. TextsMatch' /\ TimersPass'
  BY <1>9, <1>14 DEF TextsMatch, TimersPass
<1> QED
  BY <1>10, <1>11, <1>12, <1>13, <1>15 DEF ManagerIInv

LEMMA TailOne ==
  ASSUME NEW s \in Seq(Row), s # <<>>
  PROVE  Tail(s) = <<>> <=> Len(s) = 1
<1>1. Tail(s) \in Seq(Row) /\ Len(Tail(s)) = Len(s) - 1 /\ Len(s) \in Nat
  BY HeadTailProperties
<1>2. Tail(s) = <<>> <=> Len(Tail(s)) = 0
  BY <1>1, EmptySeq
<1> QED
  BY <1>1, <1>2

(* Rows go; if one that persists does, the database loses its id. *)
LEMMA GoneStep ==
  ASSUME ManagerIInv, NEW D \in SUBSET Ids, DbDelete(D),
         UNCHANGED <<current, given, clashed>>,
         rows' \in [Ids -> Seq(Row)], timeouts' \in [Ids -> Nat],
         \A i \in Ids : timeouts'[i] <= timeouts[i],
         \A i \in Ids : rows'[i] \in {rows[i], Tail(rows[i]), <<>>},
         \A i \in Ids : rows[i] = <<>> => rows'[i] = <<>>,
         \A i \in D : rows'[i] = <<>>,
         \A i \in details \ D : rows'[i] # <<>>
  PROVE  ManagerIInv'
<1>1. /\ stored' = [i \in Ids |-> IF i \in D THEN None ELSE stored[i]]
      /\ details' = details \ D
  BY DEF DbDelete
<1>t. /\ rows \in [Ids -> Seq(Row)] /\ stored \in [Ids -> Bodies \union {None}]
      /\ timeouts \in [Ids -> Nat] /\ details = {i \in Ids : stored[i] # None}
  BY DEF ManagerIInv, ManagerTypeOK, KeptStored
<1>2. ManagerTypeOK'
  BY <1>1, <1>t DEF ManagerIInv, ManagerTypeOK
<1>3. GivenSound' /\ (AllGiven' <=> AllGiven)
  BY <1>1 DEF ManagerIInv, GivenSound, AllGiven
<1>4. Numbered'
  <2> SUFFICES ASSUME ~AllGiven, NEW i \in Ids
               PROVE  /\ Listed(i)' => i <= current \/ stored'[i] # None
                      /\ timeouts'[i] > 0 => i <= current
    BY <1>3 DEF Numbered
  <2>1. /\ Listed(i) => i <= current \/ stored[i] # None
        /\ timeouts[i] > 0 => i <= current
    BY DEF ManagerIInv, Numbered
  <2>2. Listed(i)' => Listed(i) /\ i \notin D
    BY DEF Listed
  <2>3. timeouts'[i] > 0 => timeouts[i] > 0
    BY <1>t
  <2> QED
    BY <1>1, <2>1, <2>2, <2>3
<1>5. ASSUME NEW i \in Ids, rows'[i] = Tail(rows[i]), rows[i] # <<>>
      PROVE  /\ DOMAIN rows'[i] = 1 .. Len(rows[i]) - 1 /\ Len(rows'[i]) = Len(rows[i]) - 1
             /\ \A k \in DOMAIN rows'[i] : rows'[i][k] = rows[i][k + 1] /\ k + 1 \in DOMAIN rows[i]
  BY <1>5, <1>t
<1>6. KeptStored'
  <2>1. details' = {i \in Ids : stored'[i] # None}
    BY <1>1, <1>t
  <2>2. ASSUME NEW i \in Ids, NEW k \in DOMAIN rows'[i], rows'[i][k].persistent
        PROVE  k = Len(rows'[i]) /\ stored'[i] # None
    <3>1. rows'[i] # <<>> /\ rows[i] # <<>> /\ i \notin D
      BY <2>2
    <3>2. stored'[i] = stored[i]
      BY <1>1, <3>1
    <3>3. CASE rows'[i] = rows[i]
      BY <2>2, <3>2, <3>3 DEF ManagerIInv, KeptStored
    <3>4. CASE rows'[i] = Tail(rows[i])
      <4>1. rows[i][k + 1].persistent /\ k + 1 \in DOMAIN rows[i] /\ Len(rows'[i]) = Len(rows[i]) - 1
            /\ k \in Nat /\ Len(rows[i]) \in Nat
        BY <1>5, <2>2, <3>1, <3>4, <1>t
      <4>2. k + 1 = Len(rows[i]) /\ stored[i] # None
        BY <4>1 DEF ManagerIInv, KeptStored
      <4> QED
        BY <3>2, <4>1, <4>2
    <3> QED
      BY <3>1, <3>3, <3>4
  <2>3. ASSUME NEW i \in details'
        PROVE  Listed(i)' /\ rows'[i][Len(rows'[i])].persistent
    <3>1. i \in Ids /\ i \in details /\ i \notin D /\ rows'[i] # <<>> /\ rows[i] # <<>>
      BY <1>1, <1>t, <2>3
    <3>2. rows[i][Len(rows[i])].persistent
      BY <3>1 DEF ManagerIInv, KeptStored
    <3>3. CASE rows'[i] = Tail(rows[i])
      <4>1. /\ Len(rows'[i]) = Len(rows[i]) - 1 /\ Len(rows'[i]) \in DOMAIN rows'[i]
            /\ Len(rows[i]) \in Nat
        BY <1>t, <3>1, <3>3
      <4>2. rows'[i][Len(rows'[i])] = rows[i][Len(rows'[i]) + 1]
        BY <1>5, <3>1, <3>3, <4>1
      <4> QED
        BY <3>1, <3>2, <4>1, <4>2 DEF Listed
    <3> QED
      BY <3>1, <3>2, <3>3 DEF Listed
  <2> QED
    BY <2>1, <2>2, <2>3 DEF KeptStored
<1>7. ASSUME ~clashed, NEW i \in Ids, Listed(i)'
      PROVE  /\ Len(rows'[i]) = 1
             /\ rows'[i][1].persistent => stored'[i] = rows'[i][1].body
             /\ timeouts'[i] > 0 => rows'[i][1].timed /\ ~rows'[i][1].persistent
  <2>1. rows'[i] # <<>> /\ rows[i] # <<>> /\ i \notin D
    BY <1>7 DEF Listed
  <2>2. /\ Len(rows[i]) = 1 /\ (rows[i][1].persistent => stored[i] = rows[i][1].body)
        /\ timeouts[i] > 0 => rows[i][1].timed /\ ~rows[i][1].persistent
    BY <1>7, <2>1 DEF ManagerIInv, TextsMatch, TimersPass, Listed
  <2>3. rows'[i] = rows[i]
    <3>1. Tail(rows[i]) = <<>>
      BY <1>t, <2>1, <2>2, TailOne
    <3> QED
      BY <2>1, <3>1
  <2>4. stored'[i] = stored[i]
    BY <1>1, <2>1
  <2>5. timeouts'[i] > 0 => timeouts[i] > 0
    BY <1>t
  <2> QED
    BY <2>2, <2>3, <2>4, <2>5
<1>8. TextsMatch' /\ TimersPass'
  BY <1>7 DEF TextsMatch, TimersPass
<1> QED
  BY <1>2, <1>3, <1>4, <1>6, <1>8 DEF ManagerIInv

(* The first row of an id goes. *)
LEMMA RemoveStep ==
  ASSUME ManagerIInv, NEW i \in Ids, Listed(i), Remove(i), timeouts' \in [Ids -> Nat],
         \A j \in Ids : timeouts'[j] <= timeouts[j]
  PROVE  ManagerIInv'
<1> DEFINE D == IF Head(rows[i]).persistent THEN {i} ELSE {}
<1>1. /\ rows' = [rows EXCEPT ![i] = Tail(@)] /\ DbDelete(D)
      /\ UNCHANGED <<current, given, clashed>>
  BY DEF Remove
<1>t. /\ rows \in [Ids -> Seq(Row)] /\ rows[i] \in Seq(Row) /\ rows[i] # <<>>
      /\ 1 \in DOMAIN rows[i] /\ Head(rows[i]) = rows[i][1] /\ Len(rows[i]) \in DOMAIN rows[i]
      /\ Tail(rows[i]) \in Seq(Row) /\ Len(rows[i]) \in Nat
  BY DEF ManagerIInv, ManagerTypeOK, Listed
<1>2. rows' \in [Ids -> Seq(Row)]
  BY <1>1, <1>t
<1>3. Head(rows[i]).persistent => Len(rows[i]) = 1
  BY <1>t DEF ManagerIInv, KeptStored
<1>4. \A j \in D : rows'[j] = <<>>
  <2> SUFFICES ASSUME Head(rows[i]).persistent PROVE rows'[i] = <<>>
    OBVIOUS
  <2> QED
    BY <1>1, <1>3, <1>t
<1>5. \A j \in details \ D : rows'[j] # <<>>
  <2> SUFFICES ASSUME NEW j \in details, j \notin D, rows'[j] = <<>> PROVE FALSE
    OBVIOUS
  <2>1. j \in Ids /\ rows[j] # <<>> /\ rows[j][Len(rows[j])].persistent
    BY DEF ManagerIInv, KeptStored, Listed
  <2>2. j = i /\ Tail(rows[i]) = <<>>
    BY <1>1, <1>t, <2>1
  <2>3. Len(rows[i]) = 1
    BY <1>t, <2>2, TailOne
  <2>4. Head(rows[i]).persistent
    BY <1>t, <2>1, <2>2, <2>3
  <2> QED
    BY <2>2, <2>4
<1>6. /\ \A j \in Ids : rows'[j] \in {rows[j], Tail(rows[j]), <<>>}
      /\ \A j \in Ids : rows[j] = <<>> => rows'[j] = <<>>
  BY <1>1, <1>t
<1>7. D \in SUBSET Ids
  OBVIOUS
<1> HIDE DEF D
<1> QED
  BY <1>1, <1>2, <1>4, <1>5, <1>6, <1>7, GoneStep

LEMMA CloseAllStep ==
  ASSUME ManagerIInv, CloseAll
  PROVE  ManagerIInv'
<1> DEFINE D == {i \in Ids : \E k \in DOMAIN rows[i] : rows[i][k].persistent}
<1>1. /\ rows' = [i \in Ids |-> <<>>] /\ DbDelete(D)
      /\ UNCHANGED <<current, given, clashed>> /\ timeouts' = timeouts
  BY DEF CloseAll
<1>t. rows \in [Ids -> Seq(Row)] /\ timeouts \in [Ids -> Nat]
  BY DEF ManagerIInv, ManagerTypeOK
<1>2. rows' \in [Ids -> Seq(Row)]
  <2>1. <<>> \in Seq(Row)
    OBVIOUS
  <2> QED
    BY <1>1, <2>1
<1>3. \A j \in details : j \in D
  <2> SUFFICES ASSUME NEW j \in details PROVE j \in D
    OBVIOUS
  <2>1. j \in Ids /\ rows[j] # <<>> /\ rows[j][Len(rows[j])].persistent
    BY DEF ManagerIInv, KeptStored, Listed
  <2>2. Len(rows[j]) \in DOMAIN rows[j]
    BY <1>t, <2>1
  <2> QED
    BY <2>1, <2>2
<1>4. /\ \A j \in Ids : rows'[j] = <<>>
      /\ \A j \in Ids : timeouts'[j] <= timeouts[j]
  BY <1>1, <1>t
<1>5. D \in SUBSET Ids
  OBVIOUS
<1> HIDE DEF D
<1> QED
  BY <1>1, <1>2, <1>3, <1>4, <1>5, <1>t, GoneStep

LEMMA RestartStep ==
  ASSUME ManagerIInv, ManagerRestart
  PROVE  ManagerIInv'
<1> DEFINE row(i) == [body |-> stored[i], persistent |-> TRUE, timed |-> FALSE]
<1>t. stored \in [Ids -> Bodies \union {None}] /\ details = {i \in Ids : stored[i] # None}
  BY DEF ManagerIInv, ManagerTypeOK, KeptStored
<1>1. /\ rows' = [i \in Ids |-> IF stored[i] = None THEN <<>> ELSE <<row(i)>>]
      /\ current' = 0 /\ timeouts' = [i \in Ids |-> 0] /\ stored' = stored /\ details' = details
      /\ given' = details /\ clashed' = FALSE
  BY <1>t DEF ManagerRestart
<1>2. ASSUME NEW i \in Ids, stored[i] # None
      PROVE  row(i) \in Row /\ row(i).persistent /\ row(i).body = stored[i]
  BY <1>2, <1>t DEF Row
<1> HIDE DEF row
<1>3. \A i \in Ids : rows'[i] = IF stored[i] = None THEN <<>> ELSE <<row(i)>>
  BY <1>1
<1>4. ManagerTypeOK'
  <2>1. \A i \in Ids : (IF stored[i] = None THEN <<>> ELSE <<row(i)>>) \in Seq(Row)
    BY <1>2
  <2>2. rows' \in [Ids -> Seq(Row)]
    BY <1>1, <2>1
  <2>3. timeouts' \in [Ids -> Nat] /\ current' \in 0 .. MaxId - 1
    BY <1>1, ManagerAssumption
  <2> QED
    BY <1>1, <1>t, <2>2, <2>3 DEF ManagerTypeOK
<1>5. GivenSound'
  BY <1>1 DEF GivenSound
<1>6. \A i \in Ids : Listed(i)' => stored[i] # None /\ rows'[i] = <<row(i)>>
  BY <1>3 DEF Listed
<1>7. Numbered' /\ TimersPass'
  <2>1. \A i \in Ids : ~(timeouts'[i] > 0)
    BY <1>1
  <2> QED
    BY <1>1, <1>6, <2>1 DEF Numbered, TimersPass
<1>8. KeptStored'
  <2>1. ASSUME NEW i \in Ids, NEW k \in DOMAIN rows'[i]
        PROVE  k = Len(rows'[i]) /\ stored'[i] # None
    <3>1. stored[i] # None
      <4>1. DOMAIN <<>> = {}
        OBVIOUS
      <4> QED
        BY <1>3, <2>1, <4>1
    <3>2. rows'[i] = <<row(i)>>
      BY <1>3, <3>1
    <3> QED
      BY <1>1, <2>1, <3>1, <3>2
  <2>2. ASSUME NEW i \in details'
        PROVE  Listed(i)' /\ rows'[i][Len(rows'[i])].persistent
    <3>1. i \in Ids /\ stored[i] # None
      BY <1>1, <1>t
    <3>2. rows'[i] = <<row(i)>>
      BY <1>3, <3>1
    <3> QED
      BY <1>2, <3>1, <3>2 DEF Listed
  <2>3. details' = {i \in Ids : stored'[i] # None}
    BY <1>1, <1>t
  <2> QED
    BY <2>1, <2>2, <2>3 DEF KeptStored
<1>9. TextsMatch'
  <2>1. ASSUME NEW i \in Ids, Listed(i)'
        PROVE  Len(rows'[i]) = 1 /\ stored'[i] = rows'[i][1].body
    BY <1>1, <1>2, <1>6, <2>1
  <2> QED
    BY <2>1 DEF TextsMatch
<1> QED
  BY <1>4, <1>5, <1>7, <1>8, <1>9 DEF ManagerIInv

LEMMA TimeoutStep ==
  ASSUME ManagerIInv, NEW i \in Ids, Timeout(i)
  PROVE  ManagerIInv'
<1>t. rows \in [Ids -> Seq(Row)] /\ timeouts \in [Ids -> Nat]
  BY DEF ManagerIInv, ManagerTypeOK
<1>1. timeouts' \in [Ids -> Nat] /\ \A j \in Ids : timeouts'[j] <= timeouts[j]
  BY <1>t DEF Timeout
<1>2. CASE Listed(i)
  <2>1. Remove(i)
    BY <1>2 DEF Timeout
  <2> QED
    BY <1>1, <1>2, <2>1, RemoveStep
<1>3. CASE ~Listed(i)
  <2>1. UNCHANGED <<rows, current, stored, details, given, clashed>>
    BY <1>3 DEF Timeout
  <2>2. DbDelete({}) /\ \A j \in details : rows[j] # <<>>
    BY <2>1 DEF DbDelete, ManagerIInv, ManagerTypeOK, KeptStored, Listed
  <2>3. \A j \in Ids : rows'[j] = rows[j]
    BY <2>1
  <2> QED
    BY <1>1, <1>t, <2>1, <2>2, <2>3, GoneStep
<1> QED
  BY <1>2, <1>3

LEMMA NextIInv ==
  ASSUME ManagerIInv, ~HintChanges, [ManagerNext]_managerVars
  PROVE  ManagerIInv'
<1>1. ASSUME NEW i \in Ids, NEW body \in Bodies, NEW persistent \in BOOLEAN,
             NEW timed \in BOOLEAN, NotifyNew(i, body, persistent, timed)
      PROVE  ManagerIInv'
  BY <1>1, NotifyNewStep
<1>2. ASSUME NEW i \in Ids, NEW body \in Bodies, NEW persistent \in BOOLEAN,
             NEW timed \in BOOLEAN, NotifyChange(i, body, persistent, timed)
      PROVE  ManagerIInv'
  BY <1>2, NotifyChangeStep
<1>3. ASSUME NEW i \in Ids, CloseNotification(i)
      PROVE  ManagerIInv'
  <2>1. Listed(i) /\ Remove(i) /\ timeouts' = timeouts
    BY <1>3 DEF CloseNotification
  <2>2. timeouts' \in [Ids -> Nat] /\ \A j \in Ids : timeouts'[j] <= timeouts[j]
    BY <2>1 DEF ManagerIInv, ManagerTypeOK
  <2> QED
    BY <2>1, <2>2, RemoveStep
<1>4. ASSUME UNCHANGED managerVars
      PROVE  ManagerIInv'
  BY <1>4 DEF managerVars, ManagerIInv, ManagerTypeOK, GivenSound, Numbered, KeptStored,
              TextsMatch, TimersPass, AllGiven, Listed
<1> QED
  BY <1>1, <1>2, <1>3, <1>4, TimeoutStep, CloseAllStep, RestartStep DEF ManagerNext

(* The database, the rows and the timers of hildon-notification-manager.c   *)
(* tell of the same notifications, and the id of a new one is free, whatever*)
(* is opened, changed, closed, timed out or loaded again by a restart, until*)
(* the ids have been used up; even then the database holds just the         *)
(* persistent ones that are open.                                           *)
THEOREM ManagerSafe == ASSUME ~HintChanges PROVE ManagerSpec => []ManagerInv
<1>1. ManagerInit => ManagerIInv
  BY InitIInv
<1>2. ManagerIInv /\ [ManagerNext]_managerVars => ManagerIInv'
  BY NextIInv
<1>3. ManagerIInv => ManagerInv
  BY IInvImpliesInv
<1> QED
  BY <1>1, <1>2, <1>3, PTL DEF ManagerSpec

---------------------------------------------------------------------------
(* What clients see of the rows of an id. *)
LEMMA ShownRow ==
  ASSUME ManagerIInv, NEW i \in Ids
  PROVE  /\ rows[i] # <<>> => OpenTexts[i] = rows[i][1].body /\ OpenTexts[i] # None
         /\ rows[i] = <<>> => OpenTexts[i] = None /\ i \notin OpenKept
<1>1. rows[i] # <<>> => rows[i][1] \in Row
  BY DEF ManagerIInv, ManagerTypeOK
<1>2. rows[i] # <<>> => rows[i][1].body # None
  BY <1>1, ManagerAssumption DEF Row
<1>3. DOMAIN <<>> = {}
  OBVIOUS
<1> QED
  BY <1>2, <1>3 DEF OpenTexts, OpenKept, Listed

(* While the promise holds, the rows are at most one of each id. *)
LEMMA OneRow ==
  ASSUME ManagerIInv, ~clashed, NEW i \in Ids, rows[i] # <<>>
  PROVE  /\ rows[i][1] \in Row /\ Len(rows[i]) = 1 /\ DOMAIN rows[i] = {1}
         /\ Tail(rows[i]) = <<>>
         /\ i \in OpenKept <=> rows[i][1].persistent
<1>1. rows[i] \in Seq(Row)
  BY DEF ManagerIInv, ManagerTypeOK
<1>2. Len(rows[i]) = 1
  BY DEF ManagerIInv, TextsMatch, Listed
<1>3. rows[i][1] \in Row /\ DOMAIN rows[i] = {1} /\ Tail(rows[i]) = <<>>
  BY <1>1, <1>2, TailOne
<1> QED
  BY <1>2, <1>3 DEF OpenKept

LEMMA OpenNew ==
  ASSUME ManagerIInv, ~clashed, ~clashed',
         NEW i \in Ids, NEW body \in Bodies, NEW persistent \in BOOLEAN,
         NEW timed \in BOOLEAN, NotifyNew(i, body, persistent, timed)
  PROVE  Promised!Open(i, body, persistent)
<1> DEFINE row == [body |-> body, persistent |-> persistent, timed |-> timed]
<1>1. /\ rows' = [rows EXCEPT ![i] = Append(@, row)] /\ given' = given \union {i}
      /\ clashed' = (clashed \/ Listed(i) \/ timeouts[i] > 0)
  BY DEF NotifyNew
<1>2. rows[i] = <<>>
  BY <1>1 DEF Listed
<1>3. row \in Row /\ row.body = body /\ row.persistent = persistent
  BY DEF Row
<1>t. rows \in [Ids -> Seq(Row)]
  BY DEF ManagerIInv, ManagerTypeOK
<1> HIDE DEF row
<1>4. rows'[i] = <<row>> /\ \A j \in Ids : j # i => rows'[j] = rows[j]
  BY <1>1, <1>2, <1>3, <1>t
<1>5. OpenTexts[i] = None /\ i \notin OpenKept
  BY <1>2, ShownRow
<1>6. OpenTexts' = [OpenTexts EXCEPT ![i] = body]
  <2>1. rows'[i] # <<>> /\ rows'[i][1] = row
    BY <1>4
  <2> QED
    BY <1>3, <1>4, <2>1 DEF OpenTexts, Listed
<1>7. OpenKept' = IF persistent THEN OpenKept \union {i} ELSE OpenKept
  <2>1. i \in OpenKept' <=> persistent
    BY <1>3, <1>4 DEF OpenKept
  <2>2. \A j \in Ids : j # i => (j \in OpenKept' <=> j \in OpenKept)
    BY <1>4 DEF OpenKept
  <2>3. OpenKept \subseteq Ids /\ OpenKept' \subseteq Ids
    BY DEF OpenKept
  <2> QED
    BY <1>5, <2>1, <2>2, <2>3
<1> QED
  BY <1>1, <1>5, <1>6, <1>7 DEF Promised!Open

LEMMA OpenChange ==
  ASSUME ManagerIInv, ~clashed, NEW i \in Ids, NEW body \in Bodies,
         NEW persistent \in BOOLEAN, NEW timed \in BOOLEAN,
         NotifyChange(i, body, persistent, timed)
  PROVE  Promised!Change(i, body)
<1> DEFINE row == Changed(rows[i][1], body, timed)
           changed == [rows[i] EXCEPT ![1] = row]
<1>1. rows' = [rows EXCEPT ![i] = changed] /\ given' = given
  BY Zenon DEF NotifyChange
<1>2. rows[i] # <<>> /\ rows \in [Ids -> Seq(Row)]
  BY DEF NotifyChange, Listed, ManagerIInv, ManagerTypeOK
<1>3. /\ rows[i][1] \in Row /\ Len(rows[i]) = 1 /\ DOMAIN rows[i] = {1}
      /\ i \in OpenKept <=> rows[i][1].persistent
  BY <1>2, OneRow
<1>4. row.body = body /\ row.persistent = rows[i][1].persistent
  BY <1>3 DEF Row, Changed
<1> HIDE DEF row
<1>5. changed # <<>> /\ DOMAIN changed = {1} /\ changed[1] = row
  BY <1>2, <1>3
<1> HIDE DEF changed
<1>6. rows'[i] = changed /\ \A j \in Ids : j # i => rows'[j] = rows[j]
  BY <1>1, <1>2
<1>7. OpenTexts[i] # None
  BY <1>2, ShownRow
<1>8. OpenTexts' = [OpenTexts EXCEPT ![i] = body]
  BY <1>4, <1>5, <1>6 DEF OpenTexts, Listed
<1>9. OpenKept' = OpenKept
  <2>1. i \in OpenKept' <=> i \in OpenKept
    BY <1>3, <1>4, <1>5, <1>6 DEF OpenKept
  <2>2. \A j \in Ids : j # i => (j \in OpenKept' <=> j \in OpenKept)
    BY <1>6 DEF OpenKept
  <2>3. OpenKept \subseteq Ids /\ OpenKept' \subseteq Ids
    BY DEF OpenKept
  <2> QED
    BY <2>1, <2>2, <2>3
<1> QED
  BY <1>1, <1>7, <1>8, <1>9 DEF Promised!Change

(* The rows of any open notifications go. *)
LEMMA OpenRemove ==
  ASSUME ManagerIInv, NEW S \in SUBSET Ids, \A i \in S : rows[i] # <<>>,
         \A i \in Ids : rows'[i] = IF i \in S THEN <<>> ELSE rows[i], given' = given
  PROVE  \E T \in SUBSET {i \in Ids : OpenTexts[i] # None} : Promised!CloseSome(T)
<1>1. S \in SUBSET {i \in Ids : OpenTexts[i] # None}
  BY ShownRow
<1>2. OpenTexts' = [i \in Ids |-> IF i \in S THEN None ELSE OpenTexts[i]]
  BY DEF OpenTexts, Listed
<1>3. OpenKept' = OpenKept \ S
  <2>1. DOMAIN <<>> = {}
    OBVIOUS
  <2> QED
    BY <2>1 DEF OpenKept
<1> QED
  BY <1>1, <1>2, <1>3 DEF Promised!CloseSome

(* After a restart the database shows what was kept. *)
LEMMA RestartShows ==
  ASSUME ManagerIInv, ManagerRestart
  PROVE  /\ OpenKept' = OpenKept /\ OpenKept = details /\ given' = OpenKept
         /\ OpenKept' = {i \in Ids : OpenTexts'[i] # None}
         /\ \A i \in Ids : OpenTexts'[i] = stored[i]
<1> DEFINE row(i) == [body |-> stored[i], persistent |-> TRUE, timed |-> FALSE]
<1>t. /\ stored \in [Ids -> Bodies \union {None}] /\ details = {i \in Ids : stored[i] # None}
      /\ rows \in [Ids -> Seq(Row)]
  BY DEF ManagerIInv, ManagerTypeOK, KeptStored
<1>1. /\ rows' = [i \in Ids |-> IF stored[i] = None THEN <<>> ELSE <<row(i)>>]
      /\ given' = details
  BY <1>t DEF ManagerRestart
<1>2. \A i \in Ids : row(i).persistent /\ row(i).body = stored[i]
  OBVIOUS
<1> HIDE DEF row
<1>3. \A i \in Ids : rows'[i] = IF stored[i] = None THEN <<>> ELSE <<row(i)>>
  BY <1>1
<1>4. OpenKept = details
  <2>1. \A i \in details : Len(rows[i]) \in DOMAIN rows[i] /\ rows[i][Len(rows[i])].persistent
    BY <1>t DEF ManagerIInv, KeptStored, Listed
  <2>2. \A i \in OpenKept : stored[i] # None
    BY DEF OpenKept, ManagerIInv, KeptStored
  <2> QED
    BY <1>t, <2>1, <2>2 DEF OpenKept
<1>5. \A i \in Ids : OpenTexts'[i] = stored[i]
  <2>1. ASSUME NEW i \in Ids, stored[i] # None
        PROVE  rows'[i] # <<>> /\ rows'[i][1] = row(i)
    <3>1. rows'[i] = <<row(i)>>
      BY <1>3, <2>1
    <3> QED
      BY <3>1
  <2>2. \A i \in Ids : stored[i] = None => rows'[i] = <<>>
    BY <1>3
  <2> QED
    BY <1>2, <2>1, <2>2 DEF OpenTexts, Listed
<1>6. OpenKept' = details
  <2>1. DOMAIN <<>> = {}
    OBVIOUS
  <2>2. ASSUME NEW i \in Ids PROVE i \in OpenKept' <=> stored[i] # None
    <3>1. CASE stored[i] = None
      BY <1>3, <2>1, <3>1 DEF OpenKept
    <3>2. CASE stored[i] # None
      <4>1. rows'[i] = <<row(i)>>
        BY <1>3, <3>2
      <4>2. 1 \in DOMAIN rows'[i] /\ rows'[i][1].persistent
        BY <1>2, <4>1
      <4> QED
        BY <3>2, <4>2 DEF OpenKept
    <3> QED
      BY <3>1, <3>2
  <2>3. OpenKept' \subseteq Ids
    BY DEF OpenKept
  <2> QED
    BY <1>t, <2>2, <2>3
<1> QED
  BY <1>t, <1>1, <1>4, <1>5, <1>6

LEMMA OpenRestart ==
  ASSUME ManagerIInv, ManagerRestart
  PROVE  /\ ~clashed => Promised!Keep
         /\ clashed => Promised!Recover
<1>1. ~clashed' /\ OpenTexts' = [i \in Ids |-> OpenTexts'[i]]
  BY DEF ManagerRestart, OpenTexts
<1>2. ASSUME ~clashed PROVE Promised!DesktopRestarts
  <2>1. \A i \in Ids : OpenTexts'[i] = IF i \in OpenKept THEN OpenTexts[i] ELSE None
    <3> SUFFICES ASSUME NEW i \in Ids
                 PROVE  OpenTexts'[i] = IF i \in OpenKept THEN OpenTexts[i] ELSE None
      OBVIOUS
    <3>1. OpenTexts'[i] = stored[i] /\ (i \in OpenKept <=> stored[i] # None)
      BY RestartShows DEF ManagerIInv, KeptStored
    <3>2. CASE i \in OpenKept
      <4>1. rows[i] # <<>>
        BY <3>2, ShownRow
      <4>2. rows[i][1].persistent /\ OpenTexts[i] = rows[i][1].body
        BY <1>2, <3>2, <4>1, OneRow, ShownRow
      <4>3. stored[i] = rows[i][1].body
        BY <1>2, <4>1, <4>2 DEF ManagerIInv, TextsMatch, Listed
      <4> QED
        BY <3>1, <3>2, <4>2, <4>3
    <3> QED
      BY <3>1, <3>2
  <2>2. OpenTexts' = [i \in Ids |-> IF i \in OpenKept THEN OpenTexts[i] ELSE None]
    BY <1>1, <2>1
  <2>3. given' = OpenKept /\ OpenKept' = OpenKept
    BY RestartShows
  <2> QED
    BY <2>2, <2>3 DEF Promised!DesktopRestarts
<1>3. ~clashed => Promised!Keep
  BY <1>1, <1>2 DEF Promised!Keep
<1>4. clashed => Promised!Recover
  <2>1. given' = OpenKept' /\ OpenKept' = {i \in Ids : OpenTexts'[i] # None}
    BY RestartShows
  <2> QED
    BY <1>1, <2>1 DEF Promised!Recover
<1> QED
  BY <1>3, <1>4

(* A step of the manager is one of the promise, or none of its business. *)
LEMMA OpenStep ==
  ASSUME ManagerIInv, ~HintChanges, [ManagerNext]_managerVars
  PROVE  [Promised!OpenNext]_Promised!openVars
<1>1. ASSUME NEW i \in Ids, NEW body \in Bodies, NEW persistent \in BOOLEAN,
             NEW timed \in BOOLEAN, NotifyNew(i, body, persistent, timed)
      PROVE  Promised!OpenNext
  <2>1. CASE ~clashed /\ ~clashed'
    <3>1. Promised!Open(i, body, persistent)
      BY <1>1, <2>1, OpenNew
    <3> QED
      BY <2>1, <3>1 DEF Promised!OpenNext, Promised!Keep
  <2>2. CASE clashed \/ clashed'
    <3>1. IsNextId(i) /\ clashed' = (clashed \/ Listed(i) \/ timeouts[i] > 0)
      BY <1>1 DEF NotifyNew
    <3>2. clashed'
      BY <2>2, <3>1
    <3>3. clashed \/ AllGiven
      <4>1. ~(Listed(i) \/ timeouts[i] > 0) \/ AllGiven
        BY <3>1, NextIdFurther
      <4> QED
        BY <3>1, <3>2, <4>1
    <3>4. AllGiven => Ids \ {0} \subseteq given
      BY ManagerAssumption DEF AllGiven, Ids
    <3> QED
      BY <3>2, <3>3, <3>4 DEF Promised!OpenNext, Promised!Lose
  <2> QED
    BY <2>1, <2>2
<1>2. ASSUME NEW i \in Ids, NEW body \in Bodies, NEW persistent \in BOOLEAN,
             NEW timed \in BOOLEAN, NotifyChange(i, body, persistent, timed)
      PROVE  Promised!OpenNext
  <2>1. clashed' = clashed
    BY <1>2 DEF NotifyChange
  <2>2. CASE ~clashed
    <3>1. Promised!Change(i, body)
      BY <1>2, <2>2, OpenChange
    <3> QED
      BY <2>1, <2>2, <3>1 DEF Promised!OpenNext, Promised!Keep
  <2> QED
    BY <2>1, <2>2 DEF Promised!OpenNext, Promised!Lose
<1>3. ASSUME NEW i \in Ids, Listed(i), Remove(i)
      PROVE  Promised!OpenNext
  <2>1. clashed' = clashed /\ given' = given /\ rows' = [rows EXCEPT ![i] = Tail(@)]
    BY <1>3 DEF Remove
  <2>2. CASE ~clashed
    <3>1. rows[i] # <<>> /\ rows \in [Ids -> Seq(Row)]
      BY <1>3 DEF Listed, ManagerIInv, ManagerTypeOK
    <3>2. Tail(rows[i]) = <<>>
      BY <2>2, <3>1, OneRow
    <3>3. \A j \in Ids : rows'[j] = IF j \in {i} THEN <<>> ELSE rows[j]
      BY <2>1, <3>1, <3>2
    <3>4. \E T \in SUBSET {j \in Ids : OpenTexts[j] # None} : Promised!CloseSome(T)
      BY <2>1, <3>1, <3>3, OpenRemove
    <3> QED
      BY <2>1, <2>2, <3>4 DEF Promised!OpenNext, Promised!Keep
  <2> QED
    BY <2>1, <2>2 DEF Promised!OpenNext, Promised!Lose
<1>4. ASSUME NEW i \in Ids, Timeout(i), ~Listed(i)
      PROVE  UNCHANGED Promised!openVars
  <2>1. UNCHANGED <<rows, given, clashed>>
    BY <1>4 DEF Timeout
  <2> QED
    BY <2>1 DEF Promised!openVars, OpenTexts, OpenKept, Listed
<1>5. ASSUME CloseAll
      PROVE  Promised!OpenNext
  <2> DEFINE S == {i \in Ids : rows[i] # <<>>}
  <2>1. clashed' = clashed /\ given' = given /\ rows' = [i \in Ids |-> <<>>]
    BY <1>5 DEF CloseAll
  <2>2. S \in SUBSET Ids /\ \A i \in S : rows[i] # <<>>
    OBVIOUS
  <2>3. \A i \in Ids : rows'[i] = IF i \in S THEN <<>> ELSE rows[i]
    BY <2>1
  <2> HIDE DEF S
  <2>4. \E T \in SUBSET {j \in Ids : OpenTexts[j] # None} : Promised!CloseSome(T)
    BY <2>1, <2>2, <2>3, OpenRemove
  <2> QED
    BY <2>1, <2>4 DEF Promised!OpenNext, Promised!Keep, Promised!Lose
<1>6. ASSUME ManagerRestart
      PROVE  Promised!OpenNext
  BY <1>6, OpenRestart DEF Promised!OpenNext
<1>7. ASSUME UNCHANGED managerVars
      PROVE  UNCHANGED Promised!openVars
  BY <1>7 DEF managerVars, Promised!openVars, OpenTexts, OpenKept, Listed
<1>8. ASSUME NEW i \in Ids, CloseNotification(i)
      PROVE  Promised!OpenNext
  BY <1>3, <1>8 DEF CloseNotification
<1>9. ASSUME NEW i \in Ids, Timeout(i)
      PROVE  Promised!OpenNext \/ UNCHANGED Promised!openVars
  <2>1. CASE Listed(i)
    <3>1. Remove(i)
      BY <1>9, <2>1 DEF Timeout
    <3> QED
      BY <1>3, <2>1, <3>1
  <2> QED
    BY <1>4, <1>9, <2>1
<1> QED
  BY <1>1, <1>2, <1>5, <1>6, <1>7, <1>8, <1>9 DEF ManagerNext

(* Clients of hildon-notification-manager.c get what OpenNotifications      *)
(* promises: an open notification stays under its id with its last text     *)
(* until somebody closes it, and a persistent one is there again after a    *)
(* restart of the desktop; only when every id has been used since the start *)
(* is the promise lost, until the desktop starts again.                     *)
THEOREM ManagerKeepsPromise == ASSUME ~HintChanges PROVE ManagerSpec => KeepsPromise
<1>1. ManagerInit => Promised!OpenInit
  <2> SUFFICES ASSUME ManagerInit PROVE Promised!OpenInit
    OBVIOUS
  <2>1. OpenTexts = [i \in Ids |-> None]
    BY DEF ManagerInit, OpenTexts, Listed
  <2>2. OpenKept = {}
    <3>1. DOMAIN <<>> = {}
      OBVIOUS
    <3> QED
      BY <3>1 DEF ManagerInit, OpenKept
  <2> QED
    BY <2>1, <2>2 DEF ManagerInit, Promised!OpenInit
<1>2. ManagerInit => ManagerIInv
  BY InitIInv
<1>3. ManagerIInv /\ [ManagerNext]_managerVars => ManagerIInv'
  BY NextIInv
<1>4. ManagerIInv /\ [ManagerNext]_managerVars => [Promised!OpenNext]_Promised!openVars
  BY OpenStep
<1> QED
  BY <1>1, <1>2, <1>3, <1>4, PTL DEF ManagerSpec, KeepsPromise, Promised!OpenSpec

-----------------------------------------------------------------------------
(* The dialogs, whatever the check of destroyed dialogs in the queue finds. *)

Queued == {queue[k] : k \in 1 .. Len(queue)}
NotWaiting == Queued \ Waiting

(* Ids are given in the order of arrival. *)
Arrived == \A m, o \in Notes : notes[m] # None /\ notes[o] = None => m < o

QueueSound ==
  /\ \A j, k \in 1 .. Len(queue) : j < k => queue[j] < queue[k]
  /\ \A k \in 1 .. Len(queue) : notes[queue[k]] \in {"dialog", "closed"}

(* What waits is in the queue, but never at its head. *)
WaitingQueued == \A n \in Waiting : \E k \in 2 .. Len(queue) : queue[k] = n

(* Why dialogs that are closed while they wait leave nothing behind: each   *)
(* dialog that is destroyed takes an entry from the queue, so that there are*)
(* always enough dialogs on the screen to take those in front of any that   *)
(* waits.                                                                   *)
EnoughVisible ==
  /\ IsFiniteSet(visible) /\ IsFiniteSet(NotWaiting)
  /\ Cardinality(visible) >= Cardinality(NotWaiting)

(* Until then the dialog on the screen is the head of the queue. *)
HeadShown ==
  ~skipped => /\ \A k \in 1 .. Len(queue) : notes[queue[k]] = "dialog"
              /\ visible = {queue[k] : k \in 1 .. Len(queue) \intersect {1}}

NotesIInv ==
  /\ NotesTypeOK
  /\ Arrived
  /\ QueueSound
  /\ WaitingQueued
  /\ EnoughVisible
  /\ HeadShown
  /\ DialogsInTurn

LEMMA HeadNotWaiting ==
  ASSUME NotesIInv, queue # <<>>
  PROVE  queue[1] \in NotWaiting
<1>1. Len(queue) \in Nat /\ Len(queue) >= 1 /\ queue[1] \in Notes
  BY DEF NotesIInv, NotesTypeOK
<1>2. queue[1] \notin Waiting
  <2> SUFFICES ASSUME queue[1] \in Waiting PROVE FALSE
    OBVIOUS
  <2>1. PICK k \in 2 .. Len(queue) : queue[k] = queue[1]
    BY DEF NotesIInv, WaitingQueued
  <2>2. queue[1] < queue[k]
    BY <1>1 DEF NotesIInv, QueueSound
  <2>3. queue[1] \in Nat
    BY <1>1, NotesAssumption
  <2> QED
    BY <2>1, <2>2, <2>3
<1> QED
  BY <1>1, <1>2 DEF NotWaiting, Queued

LEMMA NotesIInvImpliesInv == NotesIInv => NotesInv
<1> SUFFICES ASSUME NotesIInv PROVE NoDialogStuck /\ OneDialog
  BY DEF NotesIInv, NotesInv
<1>1. ASSUME NEW n \in Waiting
      PROVE  visible # {} /\ \E k \in DOMAIN queue : queue[k] = n
  <2>1. PICK k \in 2 .. Len(queue) : queue[k] = n
    BY <1>1 DEF NotesIInv, WaitingQueued
  <2>2. queue # <<>> /\ k \in DOMAIN queue
    BY <2>1 DEF NotesIInv, NotesTypeOK
  <2>3. queue[1] \in NotWaiting
    BY <2>2, HeadNotWaiting
  <2>4. Cardinality(NotWaiting) # 0 /\ Cardinality(NotWaiting) \in Nat /\ Cardinality(visible) \in Nat
    BY <2>3, FS_EmptySet, FS_CardinalityType DEF NotesIInv, EnoughVisible
  <2>5. Cardinality(visible) # 0
    BY <2>4 DEF NotesIInv, EnoughVisible
  <2> QED
    BY <2>1, <2>2, <2>5, FS_EmptySet
<1>2. OneDialog
  BY DEF NotesIInv, HeadShown, OneDialog
<1> QED
  BY <1>1, <1>2 DEF NoDialogStuck

LEMMA ReceivedStep ==
  ASSUME NotesIInv, NEW n \in Notes, Received(n)
  PROVE  NotesIInv'
<1>1. /\ n \in Nat /\ notes[n] = None /\ skipped' = skipped
      /\ \A o \in Notes : notes[o] = None => n <= o
      /\ \A m \in Notes : notes[m] # None => m < n
  BY NotesAssumption DEF Received, IsNext, NotesIInv, Arrived
<1>2. ASSUME NEW kind \in {"dialog", "banner"}, notes' = [notes EXCEPT ![n] = kind]
      PROVE  /\ notes' \in [Notes -> {"dialog", "banner", "closed", None}]
             /\ Arrived'
  <2>1. notes' \in [Notes -> {"dialog", "banner", "closed", None}]
    BY <1>2 DEF NotesIInv, NotesTypeOK
  <2>2. ASSUME NEW m \in Notes, NEW o \in Notes, notes'[m] # None, notes'[o] = None
        PROVE  m < o
    <3>1. o # n /\ notes[o] = None /\ n <= o
      BY <1>1, <1>2, <2>2, NotesAssumption DEF NotesIInv, NotesTypeOK
    <3>2. m = n \/ m < n
      BY <1>1, <1>2, <2>2 DEF NotesIInv, NotesTypeOK
    <3> QED
      BY <3>1, <3>2, NotesAssumption
  <2> QED
    BY <2>1, <2>2 DEF Arrived
<1>3. CASE notes' = [notes EXCEPT ![n] = "banner"] /\ UNCHANGED <<visible, queue>>
  <2>1. \A m \in Notes : notes'[m] = IF m = n THEN "banner" ELSE notes[m]
    BY <1>3 DEF NotesIInv, NotesTypeOK
  <2>2. \A m \in Notes : notes'[m] = "dialog" <=> notes[m] = "dialog"
    BY <1>1, <2>1, NotesAssumption
  <2>3. Waiting' = Waiting
    BY <1>3, <2>2 DEF Waiting
  <2>4. \A k \in 1 .. Len(queue) : queue[k] \in Notes /\ queue[k] # n
    BY <1>1, NotesAssumption DEF NotesIInv, NotesTypeOK, QueueSound
  <2>5. NotesTypeOK'
    BY <1>1, <1>2, <1>3, <2>2 DEF NotesIInv, NotesTypeOK
  <2>6. QueueSound' /\ WaitingQueued' /\ HeadShown'
    BY <1>1, <1>3, <2>1, <2>3, <2>4 DEF NotesIInv, QueueSound, WaitingQueued, HeadShown
  <2>7. EnoughVisible' /\ DialogsInTurn'
    BY <1>3, <2>3 DEF NotesIInv, EnoughVisible, DialogsInTurn, NotWaiting, Queued
  <2> QED
    BY <1>2, <1>3, <2>5, <2>6, <2>7 DEF NotesIInv
<1>4. CASE /\ notes' = [notes EXCEPT ![n] = "dialog"]
           /\ visible' = IF queue = <<>> THEN visible \union {n} ELSE visible
           /\ queue' = Append(queue, n)
  <2>1. \A m \in Notes : notes'[m] = IF m = n THEN "dialog" ELSE notes[m]
    BY <1>4 DEF NotesIInv, NotesTypeOK
  <2>2. /\ Len(queue) \in Nat /\ Len(queue') = Len(queue) + 1
        /\ queue' \in Seq(Notes)
        /\ \A k \in 1 .. Len(queue) : queue'[k] = queue[k] /\ queue[k] \in Notes
        /\ queue'[Len(queue) + 1] = n
    BY <1>4 DEF NotesIInv, NotesTypeOK
  <2>3. \A k \in 1 .. Len(queue) : queue[k] < n /\ queue[k] # n
    BY <1>1, <2>2, NotesAssumption DEF NotesIInv, QueueSound
  <2>4. n \notin visible /\ \A m \in visible : m < n
    BY <1>1, NotesAssumption DEF NotesIInv, NotesTypeOK
  <2>5. NotesTypeOK'
    BY <1>1, <1>2, <1>4, <2>1, <2>2 DEF NotesIInv, NotesTypeOK
  <2>6. QueueSound'
    BY <2>1, <2>2, <2>3 DEF NotesIInv, QueueSound
  <2>7. Queued' = Queued \union {n}
    BY <2>2 DEF Queued
  <2>8. CASE queue = <<>>
    <3>1. Waiting = {}
      BY <2>8 DEF NotesIInv, WaitingQueued
    <3>2. Waiting' = {}
      BY <1>4, <2>1, <2>8, <3>1 DEF Waiting
    <3>3. visible' = visible \union {n} /\ Queued' = {n} /\ NotWaiting' = {n}
      BY <1>4, <2>7, <2>8, <3>2 DEF Queued, NotWaiting
    <3>4. EnoughVisible'
      <4>1. IsFiniteSet(visible') /\ Cardinality(visible') = Cardinality(visible) + 1
        BY <2>4, <3>3, FS_AddElement DEF NotesIInv, EnoughVisible
      <4>2. IsFiniteSet(NotWaiting') /\ Cardinality(NotWaiting') = 1
        BY <3>3, FS_Singleton
      <4>3. Cardinality(visible) \in Nat
        BY FS_CardinalityType DEF NotesIInv, EnoughVisible
      <4> QED
        BY <4>1, <4>2, <4>3 DEF EnoughVisible
    <3>5. HeadShown'
      BY <1>1, <2>1, <2>2, <2>8, <3>3 DEF NotesIInv, HeadShown
    <3> QED
      BY <1>2, <1>4, <2>5, <2>6, <3>2, <3>4, <3>5 DEF NotesIInv, WaitingQueued, DialogsInTurn
  <2>9. CASE queue # <<>>
    <3>1. visible' = visible /\ Waiting' = Waiting \union {n} /\ Len(queue) >= 1
      BY <1>1, <1>4, <2>1, <2>2, <2>4, <2>9 DEF Waiting
    <3>2. WaitingQueued'
      <4> SUFFICES ASSUME NEW m \in Waiting' PROVE \E k \in 2 .. Len(queue') : queue'[k] = m
        BY DEF WaitingQueued
      <4>1. CASE m = n
        BY <2>2, <3>1, <4>1
      <4>2. CASE m \in Waiting
        BY <2>2, <4>2 DEF NotesIInv, WaitingQueued
      <4> QED
        BY <3>1, <4>1, <4>2
    <3>3. NotWaiting' = NotWaiting
      BY <2>3, <2>7, <3>1 DEF NotWaiting, Queued
    <3>4. HeadShown'
      <4> SUFFICES ASSUME ~skipped
                   PROVE  /\ \A k \in 1 .. Len(queue') : notes'[queue'[k]] = "dialog"
                          /\ visible' = {queue'[k] : k \in 1 .. Len(queue') \intersect {1}}
        BY <1>1 DEF HeadShown
      <4>1. \A k \in 1 .. Len(queue') : notes'[queue'[k]] = "dialog"
        BY <2>1, <2>2 DEF NotesIInv, HeadShown
      <4>2. visible = {queue[1]} /\ queue'[1] = queue[1]
        BY <2>2, <3>1 DEF NotesIInv, HeadShown
      <4> QED
        BY <2>2, <3>1, <4>1, <4>2
    <3>5. DialogsInTurn'
      BY <2>4, <3>1 DEF NotesIInv, DialogsInTurn
    <3> QED
      BY <1>2, <1>4, <2>5, <2>6, <3>1, <3>2, <3>3, <3>4, <3>5 DEF NotesIInv, EnoughVisible
  <2> QED
    BY <2>8, <2>9
<1> QED
  BY <1>3, <1>4 DEF Received

(* Counting: the head goes from those that do not wait, one may come. *)
LEMMA CountFact ==
  ASSUME NEW S, IsFiniteSet(S), NEW h \in S, NEW x, NEW T \in SUBSET ((S \ {h}) \union {x})
  PROVE  /\ IsFiniteSet(T) /\ Cardinality(T) \in Nat /\ Cardinality(S) \in Nat
         /\ Cardinality(T) <= Cardinality(S)
         /\ x \in S \ {h} => Cardinality(T) <= Cardinality(S) - 1
<1> DEFINE R == S \ {h}
           U == R \union {x}
<1>1. IsFiniteSet(R) /\ Cardinality(R) = Cardinality(S) - 1
  BY FS_RemoveElement
<1>2. IsFiniteSet(U) /\ Cardinality(U) = IF x \in R THEN Cardinality(R) ELSE Cardinality(R) + 1
  BY <1>1, FS_AddElement
<1>3. IsFiniteSet(T) /\ Cardinality(T) <= Cardinality(U)
  BY <1>2, FS_Subset
<1>4. Cardinality(T) \in Nat /\ Cardinality(S) \in Nat
  BY <1>3, FS_CardinalityType
<1> HIDE DEF R
<1> QED
  BY <1>1, <1>2, <1>3, <1>4 DEF R

(* A dialog of the notification manager is destroyed: k entries go from the *)
(* queue, and S is the one that is shown.                                   *)
LEMMA DestroyStep ==
  ASSUME NotesIInv, NEW n \in Notes, notes[n] = "dialog", DestroyDialog(n)
  PROVE  NotesIInv'
<1> USE NotesAssumption
<1>1. /\ notes' \in [Notes -> {"dialog", "banner", "closed", None}]
      /\ \A m \in Notes : notes'[m] = IF m = n THEN "closed" ELSE notes[m]
      /\ skipped' = (skipped \/ n \notin visible)
  BY DEF DestroyDialog, NotesIInv, NotesTypeOK
<1>2. PICK k \in IF queue = <<>> THEN {0} ELSE 1 .. Len(queue) :
        LET rest == SubSeq(queue, k + 1, Len(queue))
            shown == IF rest = <<>> THEN {} ELSE {Head(rest)}
        IN /\ \A j \in 2 .. k : notes[queue[j]] = "closed"
           /\ queue' = rest
           /\ visible' = (visible \union {m \in shown : notes[m] = "dialog"}) \ {n}
  BY DEF DestroyDialog
<1>3. /\ Len(queue) \in Nat /\ k \in 0 .. Len(queue) /\ (queue # <<>> => k >= 1)
      /\ queue \in Seq(Notes)
  BY <1>2 DEF NotesIInv, NotesTypeOK
<1>4. /\ queue' \in Seq(Notes) /\ Len(queue') = Len(queue) - k
      /\ \A j \in 1 .. Len(queue) - k : queue'[j] = queue[j + k]
  BY <1>2, <1>3
<1>16. \A j \in 1 .. Len(queue) : queue[j] \in Notes /\ queue[j] \in Nat
  <2>1. \A j \in 1 .. Len(queue) : queue[j] \in Notes
    BY <1>3
  <2> QED
    BY <2>1
<1>17. \A j \in 1 .. Len(queue') :
         /\ j + k \in 1 .. Len(queue) /\ queue'[j] = queue[j + k]
         /\ queue'[j] \in Notes /\ queue'[j] \in Nat
  BY <1>3, <1>4, <1>16
<1>18. Len(queue') \in Nat /\ (queue = <<>> <=> Len(queue) = 0) /\ (queue' = <<>> <=> Len(queue') = 0)
  BY <1>3, <1>4
<1> DEFINE S == {m \in Notes : Len(queue') # 0 /\ m = queue'[1] /\ notes[m] = "dialog"}
<1>5. visible' = (visible \union S) \ {n}
  <2> DEFINE shown == IF queue' = <<>> THEN {} ELSE {Head(queue')}
  <2>1. visible' = (visible \union {m \in shown : notes[m] = "dialog"}) \ {n}
    BY <1>2
  <2>2. queue' # <<>> => Head(queue') = queue'[1] /\ queue'[1] \in Notes
    BY <1>4, <1>17, <1>18
  <2>3. {m \in shown : notes[m] = "dialog"} = S
    BY <1>18, <2>2
  <2> QED
    BY <2>1, <2>3
<1>6. Arrived'
  BY <1>1 DEF NotesIInv, Arrived
<1>7. NotesTypeOK'
  BY <1>1, <1>4, <1>5 DEF NotesIInv, NotesTypeOK
<1>8. QueueSound'
  <2>1. ASSUME NEW i \in 1 .. Len(queue'), NEW j \in 1 .. Len(queue'), i < j
        PROVE  queue'[i] < queue'[j]
    BY <1>3, <1>17, <2>1 DEF NotesIInv, QueueSound
  <2>2. ASSUME NEW i \in 1 .. Len(queue')
        PROVE  notes'[queue'[i]] \in {"dialog", "closed"}
    BY <1>1, <1>17, <2>2 DEF NotesIInv, QueueSound
  <2> QED
    BY <2>1, <2>2 DEF QueueSound
<1>9. Waiting' = Waiting \ (S \union {n})
  BY <1>1, <1>5 DEF Waiting
<1>10. \A m \in Waiting' : \E j \in 2 .. Len(queue') : queue'[j] = m
  <2> SUFFICES ASSUME NEW m \in Waiting'
               PROVE  \E j \in 2 .. Len(queue') : queue'[j] = m
    OBVIOUS
  <2>1. m \in Waiting /\ m # n /\ m \notin S /\ m \in Notes /\ notes[m] = "dialog"
    BY <1>9 DEF Waiting
  <2>2. PICK j \in 2 .. Len(queue) : queue[j] = m
    BY <2>1 DEF NotesIInv, WaitingQueued
  <2>3. j > k
    BY <1>2, <1>3, <2>1, <2>2
  <2>4. j - k \in 1 .. Len(queue') /\ queue'[j - k] = m
    BY <1>3, <1>4, <2>2, <2>3
  <2>5. j - k # 1
    BY <1>4, <2>1, <2>4
  <2>6. j - k \in 2 .. Len(queue')
    BY <1>3, <1>4, <2>4, <2>5
  <2> QED
    BY <2>4, <2>6
<1>11. Queued' \subseteq Queued /\ (queue # <<>> => queue[1] \notin Queued')
  <2>1. ASSUME NEW j \in 1 .. Len(queue')
        PROVE  queue'[j] \in Queued /\ (queue # <<>> => queue'[j] # queue[1])
    <3>1. j + k \in 1 .. Len(queue) /\ queue'[j] = queue[j + k] /\ queue[j + k] \in Nat
      BY <1>17, <2>1
    <3>2. queue # <<>> => queue[1] < queue[j + k]
      BY <1>3, <3>1 DEF NotesIInv, QueueSound
    <3>3. queue # <<>> => queue[1] \in Nat
      BY <1>3, <1>16, <1>18
    <3> QED
      BY <3>1, <3>2, <3>3 DEF Queued
  <2> QED
    BY <2>1 DEF Queued
<1>12. S = {} \/ \E h \in Notes : S = {h} /\ notes[h] = "dialog" /\ queue # <<>> /\ h \in Queued'
  <2>1. CASE Len(queue') = 0
    BY <2>1
  <2>2. CASE Len(queue') # 0
    <3>1. 1 \in 1 .. Len(queue') /\ queue'[1] \in Notes /\ queue'[1] \in Queued' /\ queue # <<>>
      BY <1>3, <1>4, <1>17, <1>18, <2>2 DEF Queued
    <3> QED
      BY <3>1
  <2> QED
    BY <2>1, <2>2
<1> HIDE DEF S
<1>13. EnoughVisible'
  <2>1. /\ IsFiniteSet(visible) /\ IsFiniteSet(NotWaiting)
        /\ Cardinality(visible) \in Nat /\ Cardinality(NotWaiting) \in Nat
        /\ Cardinality(visible) >= Cardinality(NotWaiting)
    BY FS_CardinalityType DEF NotesIInv, EnoughVisible
  <2>2. NotWaiting' = Queued' \ (Waiting \ (S \union {n}))
    BY <1>9 DEF NotWaiting
  <2>3. CASE queue = <<>>
    <3>1. Queued' = {} /\ Queued = {} /\ S = {}
      BY <1>3, <1>4, <1>12, <1>18, <2>3 DEF Queued
    <3>2. NotWaiting' = {} /\ visible' = visible \ {n}
      BY <1>5, <2>2, <3>1
    <3>3. IsFiniteSet(visible') /\ Cardinality(visible') \in Nat
      BY <2>1, <3>2, FS_RemoveElement, FS_CardinalityType
    <3> QED
      BY <3>2, <3>3, FS_EmptySet DEF EnoughVisible
  <2>4. CASE queue # <<>>
    <3> DEFINE hd == queue[1]
    <3>1. hd \in NotWaiting /\ hd \notin NotWaiting'
      BY <1>11, <2>2, <2>4, HeadNotWaiting
    <3>2. n \in visible \/ n \in Waiting
      BY DEF Waiting
    <3>3. NotWaiting' \subseteq ((NotWaiting \ {hd}) \union (Waiting \intersect (S \union {n})))
      BY <1>11, <2>2, <3>1 DEF NotWaiting
    <3> HIDE DEF hd
    <3>4. visible \intersect Waiting = {}
      BY DEF Waiting
    <3>5. CASE \E h \in Notes : S = {h} /\ h \in Waiting /\ h # n
      <4>1. PICK h \in Notes : S = {h} /\ h \in Waiting /\ h # n
        BY <3>5
      <4> DEFINE U == (NotWaiting \ {hd}) \union {h}
                 V == visible \union {h}
      <4>2. IsFiniteSet(U) /\ Cardinality(U) <= Cardinality(NotWaiting) /\ Cardinality(U) \in Nat
        BY <2>1, <3>1, CountFact
      <4>3. IsFiniteSet(V) /\ Cardinality(V) = Cardinality(visible) + 1
        BY <2>1, <3>4, <4>1, FS_AddElement
      <4>4. CASE n \in visible
        <5>1. NotWaiting' \subseteq U /\ visible' = V \ {n} /\ n \in V
          BY <1>5, <3>3, <3>4, <4>1, <4>4
        <5> HIDE DEF U, V
        <5>2. IsFiniteSet(NotWaiting') /\ Cardinality(NotWaiting') <= Cardinality(U)
              /\ Cardinality(NotWaiting') \in Nat
          BY <4>2, <5>1, FS_Subset, FS_CardinalityType
        <5>3. IsFiniteSet(visible') /\ Cardinality(visible') = Cardinality(V) - 1
          BY <4>3, <5>1, FS_RemoveElement
        <5> QED
          BY <2>1, <4>2, <4>3, <5>2, <5>3 DEF EnoughVisible
      <4>5. CASE n \notin visible
        <5>1. NotWaiting' \subseteq (U \union {n}) /\ visible' = V
          BY <1>5, <3>3, <4>1, <4>5
        <5> HIDE DEF U, V
        <5>2. IsFiniteSet(U \union {n}) /\ Cardinality(U \union {n}) <= Cardinality(U) + 1
              /\ Cardinality(U \union {n}) \in Nat
          <6>1. IsFiniteSet(U) /\ Cardinality(U) \in Nat
            BY <4>2
          <6>2. /\ IsFiniteSet(U \union {n})
                /\ Cardinality(U \union {n}) = IF n \in U THEN Cardinality(U) ELSE Cardinality(U) + 1
            BY <6>1, FS_AddElement
          <6> QED
            BY <6>1, <6>2
        <5>3. IsFiniteSet(NotWaiting') /\ Cardinality(NotWaiting') <= Cardinality(U \union {n})
              /\ Cardinality(NotWaiting') \in Nat
          BY <5>1, <5>2, FS_Subset, FS_CardinalityType
        <5> QED
          BY <2>1, <4>2, <4>3, <5>1, <5>2, <5>3 DEF EnoughVisible
      <4> QED
        BY <4>4, <4>5
    <3>6. CASE ~ \E h \in Notes : S = {h} /\ h \in Waiting /\ h # n
      <4>1. S \subseteq visible \union {n}
        BY <1>12, <3>6 DEF Waiting
      <4>2. visible' = visible \ {n}
        BY <1>5, <4>1
      <4>3. Waiting \intersect (S \union {n}) \subseteq {n}
        BY <3>4, <4>1
      <4>4. CASE n \in visible
        <5>1. NotWaiting' \subseteq NotWaiting \ {hd}
          BY <3>3, <3>4, <4>3, <4>4
        <5>2. IsFiniteSet(NotWaiting \ {hd}) /\ Cardinality(NotWaiting \ {hd}) = Cardinality(NotWaiting) - 1
          BY <2>1, <3>1, FS_RemoveElement
        <5>3. IsFiniteSet(NotWaiting') /\ Cardinality(NotWaiting') <= Cardinality(NotWaiting \ {hd})
              /\ Cardinality(NotWaiting') \in Nat
          BY <5>1, <5>2, FS_Subset, FS_CardinalityType
        <5>4. IsFiniteSet(visible') /\ Cardinality(visible') = Cardinality(visible) - 1
          BY <2>1, <4>2, <4>4, FS_RemoveElement
        <5> QED
          BY <2>1, <5>2, <5>3, <5>4 DEF EnoughVisible
      <4>5. CASE n \notin visible
        <5>1. NotWaiting' \in SUBSET ((NotWaiting \ {hd}) \union {n}) /\ visible' = visible
          BY <3>3, <4>2, <4>3, <4>5
        <5>2. IsFiniteSet(NotWaiting') /\ Cardinality(NotWaiting') <= Cardinality(NotWaiting)
              /\ Cardinality(NotWaiting') \in Nat
          BY <2>1, <3>1, <5>1, CountFact
        <5> QED
          BY <2>1, <5>1, <5>2 DEF EnoughVisible
      <4> QED
        BY <4>4, <4>5
    <3> QED
      BY <3>5, <3>6
  <2> QED
    BY <2>3, <2>4
<1>14. HeadShown'
  <2> SUFFICES ASSUME ~skipped'
               PROVE  /\ \A j \in 1 .. Len(queue') : notes'[queue'[j]] = "dialog"
                      /\ visible' = {queue'[j] : j \in 1 .. Len(queue') \intersect {1}}
    BY DEF HeadShown
  <2>1. /\ \A j \in 1 .. Len(queue) : notes[queue[j]] = "dialog"
        /\ visible = {queue[j] : j \in 1 .. Len(queue) \intersect {1}}
        /\ n \in visible
    BY <1>1 DEF NotesIInv, HeadShown
  <2>2. queue # <<>> /\ n = queue[1] /\ visible = {n}
    BY <2>1, <1>3
  <2>3. k = 1
    <3> SUFFICES ASSUME k # 1 PROVE FALSE
      OBVIOUS
    <3>1. 2 \in 2 .. k /\ 2 \in 1 .. Len(queue)
      BY <1>3, <2>2
    <3> QED
      BY <1>2, <2>1, <3>1
  <2>4. \A j \in 1 .. Len(queue') : queue'[j] # n /\ notes[queue'[j]] = "dialog" /\ queue'[j] \in Notes
    <3> TAKE j \in 1 .. Len(queue')
    <3>1. queue'[j] \in Queued' /\ queue'[j] # n
      BY <1>11, <2>2 DEF Queued
    <3>2. queue'[j] = queue[j + k] /\ j + k \in 1 .. Len(queue)
      BY <1>3, <1>4
    <3> QED
      BY <1>3, <2>1, <3>1, <3>2
  <2>5. S = {queue'[j] : j \in 1 .. Len(queue') \intersect {1}}
    BY <1>3, <1>4, <2>4 DEF S
  <2>6. visible' = S
    BY <1>5, <2>2, <2>4, <2>5
  <2> QED
    BY <1>1, <2>4, <2>5, <2>6
<1>15. DialogsInTurn'
  <2> SUFFICES ASSUME NEW w \in Waiting', NEW m \in visible' PROVE m < w
    BY DEF DialogsInTurn
  <2>1. w \in Waiting
    BY <1>9
  <2>2. CASE m \in visible
    BY <2>1, <2>2 DEF NotesIInv, DialogsInTurn
  <2>3. CASE m \in S
    <3>1. PICK j \in 2 .. Len(queue') : queue'[j] = w
      BY <1>10
    <3>2. m = queue'[1] /\ 1 \in 1 .. Len(queue') /\ j \in 1 .. Len(queue') /\ 1 < j
      BY <1>3, <1>4, <2>3, <3>1 DEF S
    <3> QED
      BY <1>8, <3>1, <3>2 DEF QueueSound
  <2> QED
    BY <1>5, <2>2, <2>3
<1> QED
  BY <1>6, <1>7, <1>8, <1>10, <1>13, <1>14, <1>15 DEF NotesIInv, WaitingQueued

(* A banner is closed. *)
LEMMA ClosedBannerStep ==
  ASSUME NotesIInv, NEW n \in Notes, notes[n] = "banner", notes' = [notes EXCEPT ![n] = "closed"],
         UNCHANGED <<visible, queue, skipped>>
  PROVE  NotesIInv'
<1>1. \A m \in Notes : notes'[m] = IF m = n THEN "closed" ELSE notes[m]
  BY DEF NotesIInv, NotesTypeOK
<1>2. \A m \in Notes : (notes'[m] = "dialog" <=> notes[m] = "dialog") /\ (notes'[m] = None <=> notes[m] = None)
  BY <1>1, NotesAssumption
<1>3. Waiting' = Waiting
  BY <1>2 DEF Waiting
<1>4. \A k \in 1 .. Len(queue) : queue[k] \in Notes /\ queue[k] # n
  BY DEF NotesIInv, NotesTypeOK, QueueSound
<1>5. NotesTypeOK' /\ Arrived'
  BY <1>2 DEF NotesIInv, NotesTypeOK, Arrived
<1>6. QueueSound' /\ WaitingQueued' /\ HeadShown'
  BY <1>1, <1>3, <1>4 DEF NotesIInv, QueueSound, WaitingQueued, HeadShown
<1>7. EnoughVisible' /\ DialogsInTurn'
  BY <1>3 DEF NotesIInv, EnoughVisible, DialogsInTurn, NotWaiting, Queued
<1> QED
  BY <1>5, <1>6, <1>7 DEF NotesIInv

(* System notes of hd-desktop.c are shown in the order they came; one at a  *)
(* time until one is closed that waits; and none waits while nothing is on  *)
(* the screen, whatever memory of destroyed dialogs looks like.             *)
THEOREM NotesSafe == NotesSpec => []NotesInv
<1>1. NotesInit => NotesIInv
  <2> SUFFICES ASSUME NotesInit PROVE NotesIInv
    OBVIOUS
  <2>1. Waiting = {} /\ NotWaiting = {}
    BY NotesAssumption DEF NotesInit, Waiting, NotWaiting, Queued
  <2>2. EnoughVisible
    BY <2>1, FS_EmptySet DEF NotesInit, EnoughVisible
  <2>3. NotesTypeOK /\ Arrived
    <3>1. notes \in [Notes -> {"dialog", "banner", "closed", None}]
      BY DEF NotesInit
    <3>2. \A m \in Notes : notes[m] = None
      BY DEF NotesInit
    <3>3. visible \subseteq {m \in Notes : notes[m] = "dialog"}
      BY DEF NotesInit
    <3>4. skipped \in BOOLEAN
      BY DEF NotesInit
    <3>5. queue \in Seq(Notes)
      BY DEF NotesInit
    <3> QED
      BY <3>1, <3>2, <3>3, <3>4, <3>5 DEF NotesTypeOK, Arrived
  <2>4. Len(queue) = 0 /\ visible = {}
    BY DEF NotesInit
  <2>5. QueueSound /\ HeadShown
    BY <2>4 DEF QueueSound, HeadShown
  <2> QED
    BY <2>1, <2>2, <2>3, <2>5 DEF NotesIInv, WaitingQueued, DialogsInTurn
<1>2. NotesIInv /\ [NotesNext]_notesVars => NotesIInv'
  <2> SUFFICES ASSUME NotesIInv, [NotesNext]_notesVars PROVE NotesIInv'
    OBVIOUS
  <2>1. ASSUME NEW n \in Notes, Response(n) PROVE NotesIInv'
    BY <2>1, DestroyStep DEF Response, NotesIInv, NotesTypeOK
  <2>2. ASSUME NEW n \in Notes, Closed(n) PROVE NotesIInv'
    BY <2>2, DestroyStep, ClosedBannerStep DEF Closed
  <2>3. ASSUME UNCHANGED notesVars PROVE NotesIInv'
    BY <2>3 DEF notesVars, NotesIInv, NotesTypeOK, Arrived, QueueSound, WaitingQueued,
                EnoughVisible, HeadShown, DialogsInTurn, NotWaiting, Queued, Waiting
  <2> QED
    BY <2>1, <2>2, <2>3, ReceivedStep DEF NotesNext
<1>3. NotesIInv => NotesInv
  BY NotesIInvImpliesInv
<1> QED
  BY <1>1, <1>2, <1>3, PTL DEF NotesSpec

-----------------------------------------------------------------------------
(* A container of plugins. *)
(* The groups of a list: its elements, each once. *)
LEMMA GroupsFact ==
  ASSUME NEW S, NEW list \in Seq(S)
  PROVE  Groups(list) \in Seq(S) /\ Once(Groups(list)) /\ Entries(Groups(list)) = Entries(list)
<1> DEFINE I == {n \in DOMAIN list : \A m \in DOMAIN list : m < n => list[m] # list[n]}
<1>0. DOMAIN list \subseteq Nat
  OBVIOUS
<1>1. Apart(list, I)
  <2> SUFFICES ASSUME NEW m \in DOMAIN list, NEW n \in DOMAIN list, m \in I, n \in I, m # n
               PROVE  list[m] # list[n]
    BY DEF Apart
  <2>1. m < n \/ n < m
    BY <1>0
  <2> QED
    BY <2>1
<1>2. \A c \in Entries(list) : \E m \in DOMAIN list : m \in I /\ list[m] = c
  <2> SUFFICES ASSUME NEW c \in Entries(list) PROVE \E m \in DOMAIN list : m \in I /\ list[m] = c
    OBVIOUS
  <2> DEFINE places == {n \in DOMAIN list : list[n] = c}
             k == Smallest(places)
  <2>1. places \in SUBSET Nat /\ places # {}
    BY <1>0 DEF Entries
  <2> HIDE DEF places
  <2>2. k \in places /\ \A n \in places : k <= n
    BY <2>1, SmallestFact
  <2> HIDE DEF k
  <2>3. k \in DOMAIN list /\ list[k] = c /\ \A n \in DOMAIN list : list[n] = c => k <= n
    BY <2>2 DEF places
  <2>4. \A n \in DOMAIN list : n < k => list[n] # list[k]
    BY <1>0, <2>3
  <2> QED
    BY <2>3, <2>4
<1>3. Groups(list) = Picked(list, I)
  BY DEF Groups
<1> HIDE DEF I
<1>4. PickedOK(S, list, I, Picked(list, I))
  BY <1>1, PickedFact
<1>5. \A c : c \in Entries(Picked(list, I)) <=> c \in Entries(list)
  BY <1>2, <1>4 DEF Entries, PickedOK
<1> QED
  BY <1>3, <1>4, <1>5 DEF PickedOK

-----------------------------------------------------------------------------
(* A container as a record. *)
Kinds == {"home", "panel", "navigator"}

Missable == Names \union {AppsMenu, Contact, Browser, AppSwitcher, MenuSwitcher}

Monitored == [type : {"created", "deleted"}, plugin : Plugin] \union {UserConf, SystemConf}

Shells ==
  [kind : Kinds, items : Seq(Names), conf : Seq(Names) \union {None},
   system : Seq(Names) \union {None}, installed : SUBSET Plugin, events : Seq(Monitored),
   ignore : BOOLEAN, dialog : (SUBSET Plugin) \union {None}, failed : BOOLEAN,
   missed : SUBSET Missable, last : Seq(Names)]

(* All but the items, and those that are missing, is as it was. *)
SameRest(s, t) ==
  /\ t.kind = s.kind /\ t.conf = s.conf /\ t.system = s.system /\ t.installed = s.installed
  /\ t.events = s.events /\ t.ignore = s.ignore /\ t.dialog = s.dialog /\ t.failed = s.failed
  /\ t.last = s.last

LEMMA ItemsTypeFact ==
  ASSUME NEW s \in Shells, NEW i \in Seq(Names), NEW m \in SUBSET Missable
  PROVE  LET t == [s EXCEPT !.items = i, !.missed = m]
         IN t \in Shells /\ SameRest(s, t) /\ t.items = i /\ t.missed = m
BY DEF Shells, SameRest

LEMMA LoadsFact ==
  ASSUME NEW s \in Shells, NEW id, Loads(s, id)
  PROVE  id \in Plugin /\ id \in Names
BY DEF Shells, Loads, HasFile, Names

(* What is loaded is appended; what is not is missing, or replaced by policy. *)
LoadedOK(s, id, t) ==
  /\ t \in Shells /\ SameRest(s, t)
  /\ s.kind # "navigator" =>
       /\ t.items = IF Loads(s, id) THEN Append(s.items, id) ELSE s.items
       /\ t.missed = IF Loads(s, id) THEN s.missed ELSE s.missed \union {id}

LEMMA FailureFact ==
  ASSUME NEW s \in Shells, NEW id \in Missable, NEW position \in Nat
  PROVE  LET t == HandleFailure(s, id, position)
         IN /\ t \in Shells /\ SameRest(s, t)
            /\ s.kind # "navigator" => t.items = s.items /\ t.missed = s.missed \union {id}
<1> DEFINE m == s.missed \union {id}
           missed == [s EXCEPT !.missed = m]
           other == IF Loads(s, Defaults[position]) THEN Defaults[position] ELSE Fallback
           other2 == IF Loads(missed, Defaults[position]) THEN Defaults[position] ELSE Fallback
           t == HandleFailure(s, id, position)
<1>1. m \in SUBSET Missable /\ s.items \in Seq(Names)
  BY DEF Shells
<1> HIDE DEF m
<1>2. missed \in Shells /\ SameRest(s, missed) /\ missed.items = s.items /\ missed.missed = m
  BY <1>1 DEF Shells, SameRest
<1>3. CASE s.kind # "navigator" \/ position > Len(Defaults)
  <2>1. t = missed
    BY <1>3 DEF HandleFailure, m
  <2> QED
    BY <1>2, <2>1 DEF m
<1>4. CASE ~(s.kind # "navigator" \/ position > Len(Defaults))
  <2>1. other \in Names
    BY LoadsFact DEF Names
  <2> DEFINE i == Append(s.items, other)
  <2>2. i \in Seq(Names)
    BY <1>1, <2>1
  <2>3. t = [missed EXCEPT !.items = i]
    BY <1>2, <1>4 DEF HandleFailure, m
  <2> HIDE DEF i, missed
  <2>4. t \in Shells /\ SameRest(missed, t)
    BY <1>2, <2>2, <2>3 DEF Shells, SameRest
  <2>5. SameRest(s, t)
    BY <1>2, <2>4 DEF SameRest
  <2> QED
    BY <1>4, <2>4, <2>5
<1> QED
  BY <1>3, <1>4

LEMMA LoadPluginFact ==
  ASSUME NEW s \in Shells, NEW id \in Missable, NEW position \in Nat
  PROVE  LoadedOK(s, id, LoadPlugin(s, id, position))
<1>1. CASE Loads(s, id)
  <2> DEFINE i == Append(s.items, id)
             t == [s EXCEPT !.items = i]
  <2>1. s.items \in Seq(Names) /\ id \in Names
    BY <1>1, LoadsFact DEF Shells
  <2>2. i \in Seq(Names)
    BY <2>1
  <2>3. LoadPlugin(s, id, position) = t
    BY <1>1 DEF LoadPlugin
  <2> HIDE DEF i
  <2>4. t \in Shells /\ SameRest(s, t) /\ t.items = i /\ t.missed = s.missed
    BY <2>2 DEF Shells, SameRest
  <2> HIDE DEF t
  <2> QED
    BY <1>1, <2>3, <2>4 DEF LoadedOK, i
<1>2. CASE ~Loads(s, id)
  BY <1>2, FailureFact DEF LoadPlugin, LoadedOK
<1> QED
  BY <1>1, <1>2
(* What the policy makes of a list. *)
LEMMA FilterFact ==
  ASSUME NEW list \in Seq(Names)
  PROVE  FilterPluginList(list) \in Seq(Missable)
<1> DEFINE hasMenu(l) == AppsMenu \in Entries(l)
           gaps == Gaps(list)
           three == SubSeq(gaps, 1, IF Len(gaps) < 3 THEN Len(gaps) ELSE 3)
           taken == IF Len(three) = 3 /\ ~hasMenu(SubSeq(three, 1, 2))
                      THEN <<three[1], three[2], Browser>> ELSE three
           withMenu == IF Len(taken) < 3 /\ ~hasMenu(taken) THEN <<AppsMenu>> \o taken ELSE taken
           filled == IF Len(withMenu) < 3 THEN withMenu \o <<Contact, Browser>> ELSE withMenu
<1>0. {AppsMenu, Contact, Browser, AppSwitcher, MenuSwitcher} \subseteq Missable
  BY DEF Missable
<1>1. list \in Seq(Missable)
  BY DEF Missable
<1>2. gaps \in Seq(Missable)
  BY <1>1, PickedTypeFact DEF Gaps, Among
<1> HIDE DEF gaps
<1>3. three \in Seq(Missable)
  <2> DEFINE k == IF Len(gaps) < 3 THEN Len(gaps) ELSE 3
  <2>1. k \in 0 .. Len(gaps)
    BY <1>2
  <2> HIDE DEF k
  <2>2. SubSeq(gaps, 1, k) \in Seq(Missable)
    BY <1>2, <2>1
  <2> QED
    BY <2>2 DEF k
<1> HIDE DEF three
<1>4. taken \in Seq(Missable)
  <2>1. CASE taken = three
    BY <1>3, <2>1
  <2>2. CASE taken # three
    <3>1. Len(three) = 3 /\ taken = <<three[1], three[2], Browser>>
      BY <2>2
    <3> HIDE DEF taken
    <3>2. Len(three) = 3
      BY <3>1
    <3>3. three[1] \in Missable /\ three[2] \in Missable
      <4>1. 1 \in 1 .. Len(three) /\ 2 \in 1 .. Len(three)
        BY <3>2
      <4>2. \A n \in 1 .. Len(three) : three[n] \in Missable
        BY <1>3
      <4> QED
        BY <4>1, <4>2
    <3> QED
      BY <1>0, <3>1, <3>3
  <2> QED
    BY <2>1, <2>2
<1> HIDE DEF taken
<1>5. withMenu \in Seq(Missable)
  <2>1. <<AppsMenu>> \in Seq(Missable)
    BY <1>0
  <2>2. <<AppsMenu>> \o taken \in Seq(Missable)
    BY <1>4, <2>1
  <2> QED
    BY <1>4, <2>2
<1> HIDE DEF withMenu
<1>6. filled \in Seq(Missable)
  <2>1. <<Contact, Browser>> \in Seq(Missable)
    BY <1>0
  <2>2. withMenu \o <<Contact, Browser>> \in Seq(Missable)
    BY <1>5, <2>1
  <2> QED
    BY <1>5, <2>2
<1>7. <<AppSwitcher, MenuSwitcher>> \in Seq(Missable)
  BY <1>0
<1>8. FilterPluginList(list) = filled \o <<AppSwitcher, MenuSwitcher>>
  BY DEF FilterPluginList, gaps, three, taken, withMenu
<1> HIDE DEF filled
<1> QED
  BY <1>6, <1>7, <1>8

LEMMA FilteredFact ==
  ASSUME NEW kind, NEW list \in Seq(Names)
  PROVE  /\ Filtered(kind, list) \in Seq(Missable)
         /\ kind # "navigator" => Filtered(kind, list) = list
<1>1. list \in Seq(Missable)
  BY DEF Missable
<1> QED
  BY <1>1, FilterFact DEF Filtered

-----------------------------------------------------------------------------
(* What a container without a policy lacks of a list, when it had E.         *)
Lacks(s, E, id) == ~HasFile(s, id) \/ (id \notin E /\ id \in Broken)

Reached(list, n) == {list[m] : m \in 1 .. n}

Holds(s, E, list) ==
  {m \in DOMAIN list : list[m] \in Entries(list) \ {id \in Entries(list) : Lacks(s, E, id)}}

(* After the first n of the list. *)
FilledOK(s, E, list, n, t) ==
  /\ t \in Shells /\ SameRest(s, t)
  /\ s.kind # "navigator" => t.missed = {id \in Reached(list, n) : Lacks(s, E, id)}
  /\ s.kind = "panel" => t.items = Picks(list, Holds(s, E, list))[n]
  /\ s.kind = "home" =>
       /\ Once(t.items)
       /\ Entries(t.items) = E \union {id \in Reached(list, n) : ~Lacks(s, E, id)}

(* One more. *)
LEMMA ReachedFact ==
  ASSUME NEW S, NEW list \in Seq(S), NEW n \in Nat, n < Len(list)
  PROVE  /\ n + 1 \in DOMAIN list /\ list[n + 1] \in Entries(list) /\ list[n + 1] \in S
         /\ Reached(list, n + 1) = Reached(list, n) \union {list[n + 1]}
         /\ Once(list) => list[n + 1] \notin Reached(list, n)
<1>1. /\ n + 1 \in 1 .. n + 1 /\ \A m \in 1 .. n + 1 : m = n + 1 \/ m \in 1 .. n
      /\ \A m \in 1 .. n : m \in 1 .. n + 1 /\ m \in DOMAIN list /\ m # n + 1
      /\ n + 1 \in DOMAIN list
  OBVIOUS
<1>2. list[n + 1] \in Entries(list) /\ list[n + 1] \in S
  BY <1>1 DEF Entries
<1>3. Reached(list, n + 1) \subseteq Reached(list, n) \union {list[n + 1]}
  BY <1>1 DEF Reached
<1>4. Reached(list, n) \union {list[n + 1]} \subseteq Reached(list, n + 1)
  BY <1>1 DEF Reached
<1>5. Once(list) => list[n + 1] \notin Reached(list, n)
  BY <1>1 DEF Reached, Once
<1> QED
  BY <1>1, <1>2, <1>3, <1>4, <1>5

(* One more is loaded, or was there. *)
LEMMA FilledFact ==
  ASSUME NEW s \in Shells, s.kind # "navigator", NEW E \in SUBSET Names,
         NEW list \in Seq(Names), Once(list),
         NEW n \in Nat, n < Len(list), NEW t, FilledOK(s, E, list, n, t), NEW y \in Shells,
         SameRest(t, y),
         LET id == list[n + 1]
         IN /\ y.missed = IF Lacks(s, E, id) THEN t.missed \union {id} ELSE t.missed
            /\ y.items = IF Lacks(s, E, id) \/ (s.kind = "home" /\ id \in E)
                         THEN t.items ELSE Append(t.items, id)
  PROVE  FilledOK(s, E, list, n + 1, y)
<1> DEFINE id == list[n + 1]
           I == Holds(s, E, list)
<1>1. /\ n + 1 \in DOMAIN list /\ id \in Entries(list) /\ id \in Names
      /\ Reached(list, n + 1) = Reached(list, n) \union {id}
      /\ id \notin Reached(list, n)
  BY ReachedFact
<1>2. t \in Shells /\ SameRest(s, t) /\ SameRest(s, y)
  BY DEF FilledOK, SameRest
<1>3. y.missed = {i \in Reached(list, n + 1) : Lacks(s, E, i)}
  <2>1. t.missed = {i \in Reached(list, n) : Lacks(s, E, i)}
    BY DEF FilledOK
  <2> HIDE DEF id
  <2>2. y.missed = IF Lacks(s, E, id) THEN t.missed \union {id} ELSE t.missed
    BY DEF id
  <2> QED
    BY <1>1, <2>1, <2>2
<1>4. ASSUME s.kind = "panel" PROVE y.items = Picks(list, I)[n + 1]
  <2> DEFINE L == Len(list)
  <2>1. L \in Nat /\ Len(list) = L /\ n + 1 \in 1 .. L /\ n + 1 - 1 = n
    OBVIOUS
  <2> HIDE DEF L, I
  <2>2. PicksOK(Names, list, L, I, Picks(list, I))
    BY <2>1, PicksFact
  <2>3. Picks(list, I)[n + 1] = IF n + 1 \in I THEN Extended(Picks(list, I)[n], id) ELSE Picks(list, I)[n]
    BY <2>1, <2>2 DEF PicksOK
  <2>4. n + 1 \in I <=> ~Lacks(s, E, id)
    BY <1>1 DEF I, Holds
  <2>5. t.items = Picks(list, I)[n]
    BY <1>4 DEF FilledOK, I
  <2>6. y.items = IF Lacks(s, E, id) THEN t.items ELSE Extended(t.items, id)
    BY <1>4 DEF Extended
  <2> HIDE DEF id
  <2> QED
    BY <2>3, <2>4, <2>5, <2>6
<1>5. ASSUME s.kind = "home"
      PROVE  Once(y.items) /\ Entries(y.items) = E \union {i \in Reached(list, n + 1) : ~Lacks(s, E, i)}
  <2>1. /\ Once(t.items) /\ Entries(t.items) = E \union {i \in Reached(list, n) : ~Lacks(s, E, i)}
        /\ t.items \in Seq(Names)
    BY <1>5, <1>2 DEF FilledOK, Shells
  <2>2. CASE Lacks(s, E, id) \/ id \in E
    <3>1. y.items = t.items
      BY <1>5, <2>2
    <3> HIDE DEF id
    <3> QED
      BY <1>1, <2>1, <2>2, <3>1
  <2>3. CASE ~(Lacks(s, E, id) \/ id \in E)
    <3>1. y.items = Append(t.items, id)
      BY <1>5, <2>3
    <3>2. id \in Names \ Entries(t.items)
      BY <1>1, <2>1, <2>3
    <3> DEFINE z == Append(t.items, id)
    <3>3. Once(z) /\ Entries(z) = Entries(t.items) \union {id}
      BY <2>1, <3>2, AppendFact
    <3>4. y.items = z
      BY <3>1
    <3> HIDE DEF z, id
    <3>5. Once(y.items) /\ Entries(y.items) = Entries(t.items) \union {id}
      BY <3>3, <3>4
    <3> QED
      BY <1>1, <2>1, <2>3, <3>5
  <2> QED
    BY <2>2, <2>3
<1> QED
  BY <1>2, <1>3, <1>4, <1>5 DEF FilledOK
LEMMA SameRestFact ==
  /\ \A s, t, u : SameRest(s, t) /\ SameRest(t, u) => SameRest(s, u)
  /\ \A s, t : SameRest(s, t) => \A id : HasFile(s, id) <=> HasFile(t, id)
BY DEF SameRest, HasFile

(* One more is loaded into a container that did not have it. *)
LEMMA LoadStepFact ==
  ASSUME NEW s \in Shells, NEW E \in SUBSET Names, NEW list \in Seq(Names), NEW n \in Nat,
         NEW id \in Missable,
         s.kind # "navigator" =>
           Once(list) /\ n < Len(list) /\ id = list[n + 1] /\ id \notin E,
         NEW t, FilledOK(s, E, list, n, t), NEW y, LoadedOK(t, id, y)
  PROVE  FilledOK(s, E, list, n + 1, y)
<1>1. /\ t \in Shells /\ SameRest(s, t) /\ y \in Shells /\ SameRest(t, y) /\ SameRest(s, y)
      /\ t.kind = s.kind
  BY SameRestFact DEF FilledOK, LoadedOK, SameRest
<1>2. CASE s.kind = "navigator"
  BY <1>1, <1>2 DEF FilledOK
<1>3. CASE s.kind # "navigator"
  <2>1. Loads(t, id) <=> ~Lacks(s, E, id)
    BY <1>1, <1>3, SameRestFact DEF Loads, Lacks
  <2>2. /\ y.missed = IF Lacks(s, E, id) THEN t.missed \union {id} ELSE t.missed
        /\ y.items = IF Lacks(s, E, id) THEN t.items ELSE Append(t.items, id)
    BY <1>1, <1>3, <2>1 DEF LoadedOK
  <2>3. /\ y.missed = IF Lacks(s, E, list[n + 1]) THEN t.missed \union {list[n + 1]} ELSE t.missed
        /\ y.items = IF Lacks(s, E, list[n + 1]) \/ (s.kind = "home" /\ list[n + 1] \in E)
                     THEN t.items ELSE Append(t.items, list[n + 1])
    BY <1>3, <2>2
  <2> QED
    BY <1>1, <1>3, <2>3, FilledFact
<1> QED
  BY <1>2, <1>3

LEMMA FilledInitFact ==
  ASSUME NEW s \in Shells, NEW E \in SUBSET Names, NEW list \in Seq(Names),
         s.kind # "navigator" => s.missed = {},
         s.kind = "panel" => s.items = <<>>,
         s.kind = "home" => Once(s.items) /\ Entries(s.items) = E
  PROVE  FilledOK(s, E, list, 0, s)
<1> DEFINE I == Holds(s, E, list)
           L == Len(list)
<1>1. Reached(list, 0) = {}
  BY DEF Reached
<1>2. L \in Nat /\ Len(list) = L
  OBVIOUS
<1> HIDE DEF L, I
<1>3. PicksOK(Names, list, L, I, Picks(list, I))
  BY <1>2, PicksFact
<1>4. Picks(list, I)[0] = <<>>
  BY <1>3 DEF PicksOK
<1>5. SameRest(s, s)
  BY DEF SameRest
<1> QED
  BY <1>1, <1>4, <1>5 DEF FilledOK, I

(* The container is filled from a list. *)
LEMMA LoadAllFact ==
  ASSUME NEW s \in Shells, NEW list \in Seq(Names), s.kind # "navigator" => Once(list)
  PROVE  LET z == [s EXCEPT !.items = <<>>, !.missed = {}, !.last = list]
         IN z \in Shells /\ FilledOK(z, {}, list, Len(list), LoadAll(s, list))
<1> DEFINE z == [s EXCEPT !.items = <<>>, !.missed = {}, !.last = list]
           filtered == Filtered(s.kind, list)
           L == Len(filtered)
           Step(x, n) == LoadPlugin(x, filtered[n], n)
           F(g) == [n \in 0 .. L |-> IF n = 0 THEN z ELSE Step(g[n - 1], n)]
           loaded == CHOOSE g : g = F(g)
           y == LoadAll(s, list)
<1>1. y = loaded[L]
  BY DEF LoadAll
<1>2. /\ filtered \in Seq(Missable) /\ L \in Nat /\ \A n \in 1 .. L : filtered[n] \in Missable
      /\ s.kind # "navigator" => filtered = list
  <2>1. filtered \in Seq(Missable) /\ (s.kind # "navigator" => filtered = list)
    BY FilteredFact
  <2> HIDE DEF filtered
  <2> QED
    BY <2>1
<1>3. /\ z \in Shells /\ z.kind = s.kind /\ z.items = <<>> /\ z.missed = {}
      /\ s.kind # "navigator" => L = Len(list)
  <2>1. <<>> \in Seq(Names) /\ {} \in SUBSET Missable
    OBVIOUS
  <2> QED
    BY <1>2, <2>1 DEF Shells
<1> HIDE DEF z, filtered, L, y
<1>4. \A x \in Shells : \A n \in 1 .. L : LoadedOK(x, filtered[n], Step(x, n))
  BY <1>2, LoadPluginFact
<1> HIDE DEF Step
<1>5. \E g : g = F(g)
  <2> DEFINE f == [n \in 1 .. L |-> [x \in Shells |-> Step(x, n)]]
  <2>1. \A x \in Shells : \A n \in 1 .. L : Step(x, n) \in Shells
    BY <1>4 DEF LoadedOK
  <2>2. f \in Steps(L, Shells)
    BY <2>1 DEF Steps
  <2>3. \A x \in Shells : \A n \in 1 .. L : f[n][x] = Step(x, n)
    OBVIOUS
  <2> HIDE DEF f
  <2>4. Recurs(L, Shells, z, f)
    BY <1>2, <1>3, <2>2, RecursionFact
  <2>5. PICK g \in [0 .. L -> Shells] : g[0] = z /\ \A n \in 1 .. L : g[n] = f[n][g[n - 1]]
    BY <2>4 DEF Recurs
  <2>6. \A n \in 1 .. L : g[n] = Step(g[n - 1], n)
    <3> SUFFICES ASSUME NEW n \in 1 .. L PROVE g[n] = Step(g[n - 1], n)
      OBVIOUS
    <3>1. n - 1 \in 0 .. L
      BY <1>2
    <3> QED
      BY <2>3, <2>5, <3>1
  <2>7. \A n \in 0 .. L : g[n] = IF n = 0 THEN z ELSE Step(g[n - 1], n)
    <3>1. \A n \in 0 .. L : n = 0 \/ n \in 1 .. L
      BY <1>2
    <3> QED
      BY <2>5, <2>6, <3>1
  <2>8. g = [n \in 0 .. L |-> g[n]]
    BY <2>5
  <2>9. F(g) = [n \in 0 .. L |-> g[n]]
    BY <2>7
  <2> QED
    BY <2>8, <2>9
<1>6. loaded = F(loaded)
  BY <1>5
<1> HIDE DEF loaded
<1>7. loaded[0] = z /\ \A n \in 1 .. L : loaded[n] = Step(loaded[n - 1], n)
  BY <1>2, <1>6
<1> DEFINE D == {n \in 0 .. L : FilledOK(z, {}, list, n, loaded[n])}
<1>8. 0 \in D
  <2>1. Once(<<>>) /\ Entries(<<>>) = {}
    BY DEF Once, Entries
  <2>2. FilledOK(z, {}, list, 0, z)
    BY <1>3, <2>1, FilledInitFact
  <2> QED
    BY <1>2, <1>7, <2>2
<1>9. ASSUME NEW n \in 0 .. L, n \in D, n < L PROVE n + 1 \in D
  <2>1. n + 1 \in 1 .. L /\ n + 1 - 1 = n /\ n + 1 \in 0 .. L /\ n \in Nat
    BY <1>2, <1>9
  <2>2. FilledOK(z, {}, list, n, loaded[n])
    BY <1>9
  <2>3. loaded[n] \in Shells
    BY <2>2 DEF FilledOK
  <2>4. LoadedOK(loaded[n], filtered[n + 1], loaded[n + 1])
    BY <1>4, <1>7, <2>1, <2>3
  <2>5. z.kind # "navigator" =>
          Once(list) /\ n < Len(list) /\ filtered[n + 1] = list[n + 1] /\ filtered[n + 1] \notin {}
    BY <1>2, <1>3, <1>9
  <2>6. filtered[n + 1] \in Missable
    BY <1>2, <2>1
  <2>7. FilledOK(z, {}, list, n + 1, loaded[n + 1])
    BY <1>3, <2>1, <2>2, <2>4, <2>5, <2>6, LoadStepFact
  <2> QED
    BY <2>1, <2>7
<1> HIDE DEF D
<1>10. 0 .. L \subseteq D
  BY <1>2, <1>8, <1>9, StepsFact
<1>11. FilledOK(z, {}, list, L, y)
  BY <1>1, <1>2, <1>10 DEF D
<1>12. FilledOK(z, {}, list, Len(list), y)
  BY <1>3, <1>11 DEF FilledOK
<1> QED
  BY <1>3, <1>12 DEF z, y
-----------------------------------------------------------------------------
(* What a sync finds in the container, and what it leaves to be destroyed.   *)
Syncs == [left : Seq(Names), shell : Shells]

SyncedOK(t, id, y) ==
  /\ y \in Syncs /\ SameRest(t.shell, y.shell)
  /\ id \notin Entries(t.left) => y.left = t.left /\ LoadedOK(t.shell, id, y.shell)
  /\ id \in Entries(t.left) =>
       /\ y.left = IF HasFile(t.shell, id) THEN TakenOut(t.left, id) ELSE t.left
       /\ t.shell.kind # "navigator" =>
            /\ y.shell.items = IF ~HasFile(t.shell, id) \/ t.shell.kind = "home"
                               THEN t.shell.items ELSE Append(t.shell.items, id)
            /\ y.shell.missed = IF HasFile(t.shell, id) THEN t.shell.missed
                                ELSE t.shell.missed \union {id}

LEMMA SyncItemFact ==
  ASSUME NEW t \in Syncs, NEW id \in Missable, NEW position \in Nat
  PROVE  SyncedOK(t, id, SyncItem(t, id, position))
<1> DEFINE s == t.shell
           y == SyncItem(t, id, position)
<1>1. s \in Shells /\ t.left \in Seq(Names) /\ s.items \in Seq(Names)
  BY DEF Syncs, Shells
<1>2. CASE id \notin Entries(t.left)
  <2> DEFINE x == LoadPlugin(s, id, position)
  <2>1. y = [t EXCEPT !.shell = x]
    BY <1>2 DEF SyncItem
  <2>2. LoadedOK(s, id, x)
    BY <1>1, LoadPluginFact
  <2> HIDE DEF x, y
  <2>3. x \in Shells /\ SameRest(s, x)
    BY <2>2 DEF LoadedOK
  <2>4. y \in Syncs /\ y.left = t.left /\ y.shell = x
    BY <2>1, <2>3 DEF Syncs
  <2> QED
    BY <1>2, <2>2, <2>3, <2>4 DEF SyncedOK, y
<1>3. CASE id \in Entries(t.left) /\ HasFile(s, id)
  <2> DEFINE l == TakenOut(t.left, id)
             i == IF s.kind = "home" THEN s.items ELSE Append(s.items, id)
             x == IF s.kind = "home" THEN s ELSE [s EXCEPT !.items = Append(@, id)]
  <2>1. y = [left |-> l, shell |-> x]
    BY <1>3 DEF SyncItem
  <2>2. l \in Seq(Names)
    BY <1>1, TakenOutTypeFact
  <2>3. id \in Names
    BY <1>1, <1>3 DEF Shells, HasFile, Names
  <2>4. i \in Seq(Names)
    BY <1>1, <2>3
  <2>5. x = [s EXCEPT !.items = i]
    BY <1>1 DEF Shells
  <2> HIDE DEF i, l, x, y
  <2>6. x \in Shells /\ SameRest(s, x) /\ x.items = i /\ x.missed = s.missed
    BY <1>1, <2>4, <2>5 DEF Shells, SameRest
  <2>7. y \in Syncs /\ y.left = l /\ y.shell = x
    BY <2>1, <2>2, <2>6 DEF Syncs
  <2> QED
    BY <1>3, <2>6, <2>7 DEF SyncedOK, l, i, y
<1>4. CASE id \in Entries(t.left) /\ ~HasFile(s, id)
  <2> DEFINE x == HandleFailure(s, id, position)
  <2>1. y = [t EXCEPT !.shell = x]
    BY <1>4 DEF SyncItem
  <2>2. /\ x \in Shells /\ SameRest(s, x)
        /\ s.kind # "navigator" => x.items = s.items /\ x.missed = s.missed \union {id}
    BY <1>1, FailureFact
  <2> HIDE DEF x, y
  <2>3. y \in Syncs /\ y.left = t.left /\ y.shell = x
    BY <2>1, <2>2 DEF Syncs
  <2> QED
    BY <1>4, <2>2, <2>3 DEF SyncedOK, y
<1> QED
  BY <1>2, <1>3, <1>4

(* After the first n of the list. *)
AddedOK(s, E, list, n, t) ==
  /\ t \in Syncs /\ FilledOK(s, E, list, n, t.shell)
  /\ s.kind # "navigator" =>
       /\ Once(t.left)
       /\ Entries(t.left) = E \ {id \in Reached(list, n) : HasFile(s, id)}

(* One more of the list. *)
LEMMA AddedFact ==
  ASSUME NEW s \in Shells, NEW E \in SUBSET Names, NEW list \in Seq(Names), NEW n \in Nat,
         NEW id \in Missable, s.kind # "navigator" => Once(list) /\ n < Len(list) /\ id = list[n + 1],
         NEW t, AddedOK(s, E, list, n, t), NEW y, SyncedOK(t, id, y)
  PROVE  AddedOK(s, E, list, n + 1, y)
<1>1. /\ t \in Syncs /\ t.shell \in Shells /\ t.left \in Seq(Names) /\ SameRest(s, t.shell)
      /\ y \in Syncs /\ y.shell \in Shells /\ SameRest(t.shell, y.shell) /\ SameRest(s, y.shell)
      /\ t.shell.kind = s.kind /\ FilledOK(s, E, list, n, t.shell)
  <2>1. t \in Syncs /\ SameRest(s, t.shell) /\ y \in Syncs /\ SameRest(t.shell, y.shell)
    BY DEF AddedOK, FilledOK, SyncedOK
  <2>2. t.shell.kind = s.kind /\ SameRest(s, y.shell)
    BY <2>1 DEF SameRest
  <2> QED
    BY <2>1, <2>2 DEF Syncs, AddedOK
<1>2. CASE s.kind = "navigator"
  BY <1>1, <1>2 DEF AddedOK, FilledOK
<1>3. CASE s.kind # "navigator"
  <2>1. /\ Once(list) /\ n < Len(list) /\ id = list[n + 1] /\ id \in Names
        /\ Reached(list, n + 1) = Reached(list, n) \union {id} /\ id \notin Reached(list, n)
    BY <1>3, ReachedFact
  <2>2. Once(t.left) /\ Entries(t.left) = E \ {i \in Reached(list, n) : HasFile(s, i)}
    BY <1>3 DEF AddedOK
  <2>3. /\ id \in Entries(t.left) <=> id \in E
        /\ HasFile(t.shell, id) <=> HasFile(s, id)
    BY <1>1, <2>1, <2>2, SameRestFact
  <2>4. CASE id \notin E
    <3>1. y.left = t.left /\ LoadedOK(t.shell, id, y.shell)
      BY <2>3, <2>4 DEF SyncedOK
    <3>2. FilledOK(s, E, list, n + 1, y.shell)
      BY <1>1, <2>1, <2>4, <3>1, LoadStepFact
    <3>3. Entries(y.left) = E \ {i \in Reached(list, n + 1) : HasFile(s, i)}
      BY <2>1, <2>2, <2>4, <3>1
    <3> QED
      BY <1>1, <2>2, <3>1, <3>2, <3>3 DEF AddedOK
  <2>5. CASE id \in E
    <3>1. Lacks(s, E, id) <=> ~HasFile(s, id)
      BY <2>5 DEF Lacks
    <3>2. /\ y.left = IF HasFile(s, id) THEN TakenOut(t.left, id) ELSE t.left
          /\ y.shell.items = IF ~HasFile(s, id) \/ s.kind = "home"
                             THEN t.shell.items ELSE Append(t.shell.items, id)
          /\ y.shell.missed = IF HasFile(s, id) THEN t.shell.missed
                              ELSE t.shell.missed \union {id}
      BY <1>1, <1>3, <2>3, <2>5 DEF SyncedOK
    <3>3. /\ y.shell.missed = IF Lacks(s, E, list[n + 1]) THEN t.shell.missed \union {list[n + 1]}
                              ELSE t.shell.missed
          /\ y.shell.items = IF Lacks(s, E, list[n + 1]) \/ (s.kind = "home" /\ list[n + 1] \in E)
                     THEN t.shell.items ELSE Append(t.shell.items, list[n + 1])
      BY <2>1, <2>5, <3>1, <3>2
    <3>4. FilledOK(s, E, list, n + 1, y.shell)
      BY <1>1, <1>3, <2>1, <3>3, FilledFact
    <3>5. Once(y.left) /\ Entries(y.left) = E \ {i \in Reached(list, n + 1) : HasFile(s, i)}
      <4>1. CASE HasFile(s, id)
        <5> DEFINE l == TakenOut(t.left, id)
        <5>1. Once(l) /\ Entries(l) = Entries(t.left) \ {id}
          BY <1>1, <2>2, TakenOutFact
        <5>2. y.left = l
          BY <3>2, <4>1
        <5> HIDE DEF l
        <5> QED
          BY <2>1, <2>2, <4>1, <5>1, <5>2
      <4>2. CASE ~HasFile(s, id)
        BY <2>1, <2>2, <3>2, <4>2
      <4> QED
        BY <4>1, <4>2
    <3> QED
      BY <1>1, <3>4, <3>5 DEF AddedOK
  <2> QED
    BY <2>4, <2>5
<1> QED
  BY <1>2, <1>3
(* The items are added before what is left of them is destroyed. *)
LEMMA AddAllFact ==
  ASSUME NEW s \in Shells, NEW list \in Seq(Names), NEW ok,
         s.kind # "navigator" => Once(list) /\ Once(s.items)
  PROVE  LET start == [s EXCEPT !.items = IF s.kind = "home" THEN @ ELSE <<>>,
                                !.missed = {}, !.last = list]
         IN /\ start \in Shells
            /\ \E t : /\ AddedOK(start, Entries(s.items), list, Len(list), t)
                      /\ Sync(s, list, ok) = DestroyAll(t, ok)
<1> DEFINE z == [s EXCEPT !.items = IF s.kind = "home" THEN @ ELSE <<>>,
                                !.missed = {}, !.last = list]
           E == Entries(s.items)
           filtered == Filtered(s.kind, list)
           L == Len(filtered)
           base == [left |-> s.items, shell |-> z]
           Step(x, n) == SyncItem(x, filtered[n], n)
           F(g) == [n \in 0 .. L |-> IF n = 0 THEN base ELSE Step(g[n - 1], n)]
           added == CHOOSE g : g = F(g)
<1>1. Sync(s, list, ok) = DestroyAll(added[L], ok)
  BY DEF Sync
<1>2. /\ filtered \in Seq(Missable) /\ L \in Nat /\ \A n \in 1 .. L : filtered[n] \in Missable
      /\ s.kind # "navigator" => filtered = list
  <2>1. filtered \in Seq(Missable) /\ (s.kind # "navigator" => filtered = list)
    BY FilteredFact
  <2> HIDE DEF filtered
  <2>2. L \in Nat /\ \A n \in 1 .. L : filtered[n] \in Missable
    BY <2>1
  <2> QED
    BY <2>1, <2>2
<1>3. /\ z \in Shells /\ z.kind = s.kind /\ z.missed = {} /\ s.items \in Seq(Names)
      /\ z.items = IF s.kind = "home" THEN s.items ELSE <<>>
      /\ s.kind # "navigator" => L = Len(list)
  <2> DEFINE i == IF s.kind = "home" THEN s.items ELSE <<>>
  <2>1. s.items \in Seq(Names) /\ {} \in SUBSET Missable /\ <<>> \in Seq(Names)
    BY DEF Shells
  <2>2. i \in Seq(Names)
    BY <2>1
  <2>3. z = [s EXCEPT !.items = i, !.missed = {}, !.last = list]
    OBVIOUS
  <2> HIDE DEF z, i
  <2>4. z \in Shells /\ z.kind = s.kind /\ z.missed = {} /\ z.items = i
    BY <2>1, <2>2, <2>3 DEF Shells
  <2> QED
    BY <1>2, <2>1, <2>4 DEF i
<1> HIDE DEF z, filtered, L
<1>4. \A x \in Syncs : \A n \in 1 .. L : SyncedOK(x, filtered[n], Step(x, n))
  BY <1>2, SyncItemFact
<1>40. base \in Syncs /\ base.left = s.items /\ base.shell = z
  BY <1>3 DEF Syncs
<1> HIDE DEF Step, base
<1>5. \E g : g = F(g)
  <2> DEFINE f == [n \in 1 .. L |-> [x \in Syncs |-> Step(x, n)]]
  <2>1. \A x \in Syncs : \A n \in 1 .. L : Step(x, n) \in Syncs
    BY <1>4 DEF SyncedOK
  <2>2. f \in Steps(L, Syncs)
    BY <2>1 DEF Steps
  <2>3. \A x \in Syncs : \A n \in 1 .. L : f[n][x] = Step(x, n)
    OBVIOUS
  <2> HIDE DEF f
  <2>4. Recurs(L, Syncs, base, f)
    BY <1>2, <1>40, <2>2, RecursionFact
  <2>5. PICK g \in [0 .. L -> Syncs] : g[0] = base /\ \A n \in 1 .. L : g[n] = f[n][g[n - 1]]
    BY <2>4 DEF Recurs
  <2>6. \A n \in 1 .. L : g[n] = Step(g[n - 1], n)
    <3> SUFFICES ASSUME NEW n \in 1 .. L PROVE g[n] = Step(g[n - 1], n)
      OBVIOUS
    <3>1. n - 1 \in 0 .. L
      BY <1>2
    <3> QED
      BY <2>3, <2>5, <3>1
  <2>7. \A n \in 0 .. L : g[n] = IF n = 0 THEN base ELSE Step(g[n - 1], n)
    <3>1. \A n \in 0 .. L : n = 0 \/ n \in 1 .. L
      BY <1>2
    <3> QED
      BY <2>5, <2>6, <3>1
  <2>8. g = [n \in 0 .. L |-> g[n]]
    BY <2>5
  <2>9. F(g) = [n \in 0 .. L |-> g[n]]
    BY <2>7
  <2> QED
    BY <2>8, <2>9
<1>6. added = F(added)
  BY <1>5
<1> HIDE DEF added
<1>7. added[0] = base /\ \A n \in 1 .. L : added[n] = Step(added[n - 1], n)
  BY <1>2, <1>6
<1>70. E \in SUBSET Names
  <2>1. \A n \in DOMAIN s.items : s.items[n] \in Names
    BY <1>3
  <2> QED
    BY <2>1 DEF Entries
<1> HIDE DEF E
<1> DEFINE D == {n \in 0 .. L : AddedOK(z, E, list, n, added[n])}
<1>8. 0 \in D
  <2>1. FilledOK(z, E, list, 0, z)
    BY <1>3, <1>70, FilledInitFact DEF E
  <2>2. Reached(list, 0) = {}
    BY DEF Reached
  <2>3. AddedOK(z, E, list, 0, base)
    BY <1>3, <1>40, <2>1, <2>2 DEF AddedOK, E
  <2> QED
    BY <1>2, <1>7, <2>3
<1>9. ASSUME NEW n \in 0 .. L, n \in D, n < L PROVE n + 1 \in D
  <2>1. n + 1 \in 1 .. L /\ n + 1 - 1 = n /\ n + 1 \in 0 .. L /\ n \in Nat
    BY <1>2, <1>9
  <2>2. AddedOK(z, E, list, n, added[n])
    BY <1>9
  <2>3. added[n] \in Syncs
    BY <2>2 DEF AddedOK
  <2>4. SyncedOK(added[n], filtered[n + 1], added[n + 1])
    BY <1>4, <1>7, <2>1, <2>3
  <2>5. z.kind # "navigator" => Once(list) /\ n < Len(list) /\ filtered[n + 1] = list[n + 1]
    BY <1>2, <1>3, <1>9
  <2>6. filtered[n + 1] \in Missable
    BY <1>2, <2>1
  <2>7. AddedOK(z, E, list, n + 1, added[n + 1])
    BY <1>3, <1>70, <2>1, <2>2, <2>4, <2>5, <2>6, AddedFact
  <2> QED
    BY <2>1, <2>7
<1> HIDE DEF D
<1>10. 0 .. L \subseteq D
  BY <1>2, <1>8, <1>9, StepsFact
<1>11. AddedOK(z, E, list, L, added[L])
  BY <1>2, <1>10 DEF D
<1>12. AddedOK(z, E, list, Len(list), added[L])
  BY <1>3, <1>11 DEF AddedOK, FilledOK
<1> QED
  BY <1>1, <1>3, <1>12 DEF z, E

-----------------------------------------------------------------------------
(* What waits to be handled. *)
Seen(s, e) == \E n \in DOMAIN s.events : s.events[n] = e

Twice(s, e) == \E m, n \in DOMAIN s.events : m < n /\ s.events[m] = e /\ s.events[n] = e

(* Everything that waited still waits. *)
Longer(s, t) ==
  \A e : (Seen(s, e) => Seen(t, e)) /\ (Twice(s, e) => Twice(t, e))

(* The container has written its items, and waits for the news of it. *)
ShellSaved(y) == y.conf = Groups(y.items) /\ y.ignore /\ Seen(y, UserConf)

LEMMA EventFact ==
  ASSUME NEW s, NEW t, s.events \in Seq(Monitored), NEW e \in Monitored,
         t.events = Append(s.events, e)
  PROVE  /\ t.events \in Seq(Monitored) /\ Longer(s, t) /\ Seen(t, e) /\ (Seen(s, e) => Twice(t, e))
<1> DEFINE a == s.events
           b == t.events
           l == Len(a)
<1>1. /\ l \in Nat /\ DOMAIN a = 1 .. l /\ b \in Seq(Monitored) /\ DOMAIN b = 1 .. l + 1
      /\ b[l + 1] = e /\ \A n \in 1 .. l : b[n] = a[n]
  OBVIOUS
<1> HIDE DEF a, b, l
<1>2. \A n \in 1 .. l : n \in 1 .. l + 1 /\ n < l + 1
  BY <1>1
<1>3. l + 1 \in 1 .. l + 1
  BY <1>1
<1>4. \A i : (Seen(s, i) => Seen(t, i)) /\ (Twice(s, i) => Twice(t, i))
  BY <1>1, <1>2 DEF Seen, Twice, a, b
<1>5. Seen(t, e) /\ (Seen(s, e) => Twice(t, e))
  BY <1>1, <1>2, <1>3 DEF Seen, Twice, a, b
<1> QED
  BY <1>1, <1>4, <1>5 DEF Longer, b

LEMMA LongerFact ==
  /\ \A s, t, u : Longer(s, t) /\ Longer(t, u) => Longer(s, u)
  /\ \A s, t : s.events = t.events => Longer(s, t)
BY DEF Longer, Seen, Twice

(* A group of a file is there once. *)
ConfSound(s) == (s.conf # None => Once(s.conf)) /\ (s.system # None => Once(s.system))

(* An item is destroyed. *)
DestroyedOK(s, id, ok, y) ==
  /\ y \in Shells /\ y.kind = s.kind /\ y.system = s.system /\ y.dialog = s.dialog
  /\ y.last = s.last /\ y.missed = s.missed
  /\ y.items = IF s.kind = "home" THEN TakenOut(s.items, id) ELSE s.items
  /\ Longer(s, y) /\ (ConfSound(s) => ConfSound(y))
  /\ ~y.failed =>
       /\ ~s.failed
       /\ IF SavesOnRemove(s) THEN ShellSaved(y) ELSE y.conf = s.conf /\ y.ignore = s.ignore

LEMMA ContainerSaveFact ==
  ASSUME NEW s \in Shells, NEW ok \in BOOLEAN
  PROVE  LET y == ContainerSave(s, ok)
         IN /\ y \in Shells /\ y.kind = s.kind /\ y.system = s.system /\ y.dialog = s.dialog
            /\ y.last = s.last /\ y.missed = s.missed /\ y.items = s.items /\ Longer(s, y)
            /\ y.installed = s.installed /\ (ConfSound(s) => ConfSound(y))
            /\ ~y.failed => ~s.failed /\ ShellSaved(y)
<1> DEFINE g == Groups(s.items)
           ev == Append(s.events, UserConf)
           y == ContainerSave(s, ok)
<1>1. s.items \in Seq(Names) /\ s.events \in Seq(Monitored) /\ UserConf \in Monitored
  BY DEF Shells, Monitored
<1>2. g \in Seq(Names) /\ Once(g)
  BY <1>1, GroupsFact
<1>3. ev \in Seq(Monitored)
  BY <1>1
<1>4. y = IF ok THEN [s EXCEPT !.ignore = TRUE, !.conf = g, !.events = ev]
          ELSE [s EXCEPT !.ignore = TRUE, !.failed = TRUE]
  BY DEF ContainerSave, ListToConf, Shells
<1> HIDE DEF g, ev, y
<1>5. CASE ok
  <2>1. /\ y \in Shells /\ y.kind = s.kind /\ y.system = s.system /\ y.dialog = s.dialog
        /\ y.last = s.last /\ y.missed = s.missed /\ y.items = s.items /\ y.installed = s.installed
        /\ y.failed = s.failed /\ y.ignore = TRUE /\ y.conf = g /\ y.events = ev
    BY <1>2, <1>3, <1>4, <1>5 DEF Shells
  <2>2. Longer(s, y) /\ Seen(y, UserConf)
    BY <1>1, <2>1, EventFact DEF ev
  <2>3. ConfSound(s) => ConfSound(y)
    BY <1>2, <2>1 DEF ConfSound
  <2> QED
    BY <2>1, <2>2, <2>3 DEF ShellSaved, y, g
<1>6. CASE ~ok
  <2>1. /\ y \in Shells /\ y.kind = s.kind /\ y.system = s.system /\ y.dialog = s.dialog
        /\ y.last = s.last /\ y.missed = s.missed /\ y.items = s.items /\ y.installed = s.installed
        /\ y.failed = TRUE /\ y.events = s.events /\ y.conf = s.conf
    BY <1>4, <1>6 DEF Shells
  <2>2. Longer(s, y) /\ (ConfSound(s) => ConfSound(y))
    BY <2>1, LongerFact DEF ConfSound
  <2> QED
    BY <2>1, <2>2 DEF y
<1> QED
  BY <1>5, <1>6

LEMMA DestroyItemFact ==
  ASSUME NEW s \in Shells, NEW id \in Names, NEW ok \in BOOLEAN
  PROVE  DestroyedOK(s, id, ok, DestroyItem(s, id, ok))
<1> DEFINE i == IF s.kind = "home" THEN TakenOut(s.items, id) ELSE s.items
           gone == IF s.kind = "home" THEN [s EXCEPT !.items = TakenOut(@, id)] ELSE s
           saved == IF SavesOnRemove(s) THEN ContainerSave(gone, ok) ELSE gone
           deleted == MonitorEvent("deleted", id)
           y == DestroyItem(s, id, ok)
<1>1. y = IF id \in Temporary /\ HasFile(s, id)
            THEN [saved EXCEPT !.installed = @ \ {id}, !.events = Append(@, deleted)] ELSE saved
  BY DEF DestroyItem
<1>2. i \in Seq(Names)
  BY TakenOutTypeFact DEF Shells
<1>3. gone = [s EXCEPT !.items = i]
  BY DEF Shells
<1> HIDE DEF i, gone
<1>4. /\ gone \in Shells /\ gone.kind = s.kind /\ gone.system = s.system /\ gone.dialog = s.dialog
      /\ gone.last = s.last /\ gone.missed = s.missed /\ gone.items = i /\ gone.events = s.events
      /\ gone.failed = s.failed /\ gone.conf = s.conf /\ gone.ignore = s.ignore
      /\ gone.installed = s.installed
  BY <1>2, <1>3 DEF Shells
<1>5. /\ saved \in Shells /\ saved.kind = s.kind /\ saved.system = s.system
      /\ saved.dialog = s.dialog /\ saved.last = s.last /\ saved.missed = s.missed
      /\ saved.items = i /\ Longer(s, saved) /\ saved.installed = s.installed
      /\ ConfSound(s) => ConfSound(saved)
      /\ ~saved.failed =>
           /\ ~s.failed
           /\ IF SavesOnRemove(s) THEN ShellSaved(saved)
              ELSE saved.conf = s.conf /\ saved.ignore = s.ignore
  <2>1. CASE ~SavesOnRemove(s)
    BY <1>4, <2>1, LongerFact DEF ConfSound
  <2>2. CASE SavesOnRemove(s)
    <3> DEFINE x == ContainerSave(gone, ok)
    <3>1. /\ x \in Shells /\ x.kind = gone.kind /\ x.system = gone.system /\ x.dialog = gone.dialog
          /\ x.last = gone.last /\ x.missed = gone.missed /\ x.items = gone.items /\ Longer(gone, x)
          /\ x.installed = gone.installed /\ (ConfSound(gone) => ConfSound(x))
          /\ ~x.failed => ~gone.failed /\ ShellSaved(x)
      BY <1>4, ContainerSaveFact
    <3>2. saved = x
      BY <2>2
    <3> HIDE DEF x, saved
    <3>3. Longer(s, x) /\ (ConfSound(s) => ConfSound(gone))
      BY <1>4, <3>1, LongerFact DEF ConfSound
    <3> QED
      BY <1>4, <2>2, <3>1, <3>2, <3>3
  <2> QED
    BY <2>1, <2>2
<1> HIDE DEF saved, y
<1>6. CASE id \in Temporary /\ HasFile(s, id)
  <2> DEFINE ev == Append(saved.events, deleted)
             left == saved.installed \ {id}
  <2>1. deleted \in Monitored /\ saved.events \in Seq(Monitored)
    BY <1>5, <1>6 DEF Shells, HasFile, Monitored, MonitorEvent
  <2> HIDE DEF deleted
  <2>2. ev \in Seq(Monitored) /\ left \in SUBSET Plugin
    BY <1>5, <2>1 DEF Shells
  <2>3. y = [saved EXCEPT !.installed = left, !.events = ev]
    BY <1>1, <1>5, <1>6 DEF Shells
  <2> HIDE DEF ev, left
  <2>4. /\ y \in Shells /\ y.kind = s.kind /\ y.system = s.system /\ y.dialog = s.dialog
        /\ y.last = s.last /\ y.missed = s.missed /\ y.items = i /\ y.events = ev
        /\ y.failed = saved.failed /\ y.conf = saved.conf /\ y.ignore = saved.ignore
    BY <1>5, <2>2, <2>3 DEF Shells
  <2>5. Longer(saved, y)
    BY <2>1, <2>4, EventFact DEF ev
  <2>6. Longer(s, y) /\ (ConfSound(s) => ConfSound(y))
    BY <1>5, <2>4, <2>5, LongerFact DEF ConfSound
  <2>7. ShellSaved(saved) => ShellSaved(y)
    BY <1>5, <2>4, <2>5 DEF ShellSaved, Longer
  <2> QED
    BY <1>5, <2>4, <2>6, <2>7 DEF DestroyedOK, i, y
<1>7. CASE ~(id \in Temporary /\ HasFile(s, id))
  <2>1. y = saved
    BY <1>1, <1>7
  <2> QED
    BY <1>5, <2>1 DEF DestroyedOK, i, y
<1> QED
  BY <1>6, <1>7

(* After the first n of what is left are destroyed. *)
EndedOK(s, left, n, y) ==
  /\ y \in Shells /\ y.kind = s.kind /\ y.system = s.system /\ y.dialog = s.dialog
  /\ y.last = s.last /\ y.missed = s.missed
  /\ s.kind # "home" => y.items = s.items
  /\ s.kind = "home" => Once(y.items) /\ Entries(y.items) = Entries(s.items) \ Reached(left, n)
  /\ Longer(s, y) /\ (ConfSound(s) => ConfSound(y))
  /\ ~y.failed =>
       /\ ~s.failed
       /\ IF SavesOnRemove(s) /\ n > 0 THEN ShellSaved(y) ELSE y.conf = s.conf /\ y.ignore = s.ignore

LEMMA EndedFact ==
  ASSUME NEW s \in Shells, NEW left \in Seq(Names), NEW n \in Nat, n < Len(left),
         NEW t, EndedOK(s, left, n, t), NEW ok \in BOOLEAN,
         NEW y, DestroyedOK(t, left[n + 1], ok, y)
  PROVE  EndedOK(s, left, n + 1, y)
<1> DEFINE id == left[n + 1]
<1>1. /\ t \in Shells /\ t.kind = s.kind /\ t.system = s.system /\ t.dialog = s.dialog
      /\ t.last = s.last /\ t.missed = s.missed /\ Longer(s, t)
      /\ y \in Shells /\ y.kind = s.kind /\ y.system = s.system /\ y.dialog = s.dialog
      /\ y.last = s.last /\ y.missed = s.missed /\ Longer(t, y)
      /\ y.items = IF s.kind = "home" THEN TakenOut(t.items, id) ELSE t.items
  BY DEF EndedOK, DestroyedOK
<1>2. Longer(s, y) /\ (SavesOnRemove(t) <=> SavesOnRemove(s)) /\ (ConfSound(s) => ConfSound(y))
  <2>1. (ConfSound(s) => ConfSound(t)) /\ (ConfSound(t) => ConfSound(y))
    BY DEF EndedOK, DestroyedOK
  <2> QED
    BY <1>1, <2>1, LongerFact DEF SavesOnRemove
<1>3. Reached(left, n + 1) = Reached(left, n) \union {id}
  BY ReachedFact
<1>4. s.kind # "home" => y.items = s.items
  BY <1>1 DEF EndedOK
<1>5. ASSUME s.kind = "home"
      PROVE  Once(y.items) /\ Entries(y.items) = Entries(s.items) \ Reached(left, n + 1)
  <2>1. /\ t.items \in Seq(Names) /\ Once(t.items)
        /\ Entries(t.items) = Entries(s.items) \ Reached(left, n)
    BY <1>1, <1>5 DEF EndedOK, Shells
  <2> DEFINE l == TakenOut(t.items, id)
  <2>2. Once(l) /\ Entries(l) = Entries(t.items) \ {id}
    BY <2>1, TakenOutFact
  <2>3. y.items = l
    BY <1>1, <1>5
  <2> HIDE DEF l, id
  <2> QED
    BY <1>3, <2>1, <2>2, <2>3
<1>6. ASSUME ~y.failed
      PROVE  /\ ~s.failed
             /\ IF SavesOnRemove(s) /\ n + 1 > 0 THEN ShellSaved(y)
                ELSE y.conf = s.conf /\ y.ignore = s.ignore
  <2>1. /\ ~t.failed
        /\ IF SavesOnRemove(s) THEN ShellSaved(y) ELSE y.conf = t.conf /\ y.ignore = t.ignore
    BY <1>2, <1>6 DEF DestroyedOK
  <2>2. ~s.failed /\ (~SavesOnRemove(s) => t.conf = s.conf /\ t.ignore = s.ignore)
    BY <2>1 DEF EndedOK
  <2>3. n + 1 > 0
    OBVIOUS
  <2> QED
    BY <2>1, <2>2, <2>3
<1> QED
  BY <1>1, <1>2, <1>4, <1>5, <1>6 DEF EndedOK

LEMMA DestroyAllFact ==
  ASSUME NEW t \in Syncs, NEW ok \in BOOLEAN, t.shell.kind = "home" => Once(t.shell.items)
  PROVE  EndedOK(t.shell, t.left, Len(t.left), DestroyAll(t, ok))
<1> DEFINE s == t.shell
           left == t.left
           L == Len(left)
           Step(x, n) == DestroyItem(x, left[n], ok)
           F(g) == [n \in 0 .. L |-> IF n = 0 THEN s ELSE Step(g[n - 1], n)]
           destroyed == CHOOSE g : g = F(g)
<1>1. DestroyAll(t, ok) = destroyed[L]
  BY DEF DestroyAll
<1>2. /\ s \in Shells /\ left \in Seq(Names) /\ L \in Nat /\ L = Len(left)
      /\ \A n \in 1 .. L : left[n] \in Names
  <2>1. s \in Shells /\ left \in Seq(Names)
    BY DEF Syncs
  <2> QED
    BY <2>1
<1> HIDE DEF s, left, L
<1>4. \A x \in Shells : \A n \in 1 .. L : DestroyedOK(x, left[n], ok, Step(x, n))
  BY <1>2, DestroyItemFact
<1> HIDE DEF Step
<1>5. \E g : g = F(g)
  <2> DEFINE f == [n \in 1 .. L |-> [x \in Shells |-> Step(x, n)]]
  <2>1. \A x \in Shells : \A n \in 1 .. L : Step(x, n) \in Shells
    BY <1>4 DEF DestroyedOK
  <2>2. f \in Steps(L, Shells)
    BY <2>1 DEF Steps
  <2>3. \A x \in Shells : \A n \in 1 .. L : f[n][x] = Step(x, n)
    OBVIOUS
  <2> HIDE DEF f
  <2>4. Recurs(L, Shells, s, f)
    BY <1>2, <2>2, RecursionFact
  <2>5. PICK g \in [0 .. L -> Shells] : g[0] = s /\ \A n \in 1 .. L : g[n] = f[n][g[n - 1]]
    BY <2>4 DEF Recurs
  <2>6. \A n \in 1 .. L : g[n] = Step(g[n - 1], n)
    <3> SUFFICES ASSUME NEW n \in 1 .. L PROVE g[n] = Step(g[n - 1], n)
      OBVIOUS
    <3>1. n - 1 \in 0 .. L
      BY <1>2
    <3> QED
      BY <2>3, <2>5, <3>1
  <2>7. g = F(g)
    BY <2>5, <2>6
  <2> QED
    BY <2>7
<1>6. destroyed = F(destroyed)
  BY <1>5
<1> HIDE DEF destroyed
<1>7. destroyed[0] = s /\ \A n \in 1 .. L : destroyed[n] = Step(destroyed[n - 1], n)
  BY <1>2, <1>6
<1> DEFINE D == {n \in 0 .. L : EndedOK(s, left, n, destroyed[n])}
<1>8. 0 \in D
  <2>1. Reached(left, 0) = {}
    BY DEF Reached
  <2>2. Longer(s, s)
    BY LongerFact
  <2>3. s.kind = "home" => Once(s.items)
    BY DEF s
  <2>4. EndedOK(s, left, 0, s)
    BY <1>2, <2>1, <2>2, <2>3 DEF EndedOK
  <2> QED
    BY <1>2, <1>7, <2>4
<1>9. ASSUME NEW n \in 0 .. L, n \in D, n < L PROVE n + 1 \in D
  <2>1. n + 1 \in 1 .. L /\ n + 1 - 1 = n /\ n + 1 \in 0 .. L /\ n \in Nat
    BY <1>2, <1>9
  <2>2. EndedOK(s, left, n, destroyed[n])
    BY <1>9
  <2>3. destroyed[n] \in Shells
    BY <2>2 DEF EndedOK
  <2>4. DestroyedOK(destroyed[n], left[n + 1], ok, destroyed[n + 1])
    BY <1>4, <1>7, <2>1, <2>3
  <2>5. n < Len(left)
    BY <1>2, <1>9
  <2>7. EndedOK(s, left, n + 1, destroyed[n + 1])
    BY <1>2, <2>1, <2>2, <2>4, <2>5, EndedFact
  <2> QED
    BY <2>1, <2>7
<1> HIDE DEF D
<1>10. 0 .. L \subseteq D
  BY <1>2, <1>8, <1>9, StepsFact
<1>11. EndedOK(s, left, L, destroyed[L])
  BY <1>2, <1>10 DEF D
<1> QED
  BY <1>1, <1>2, <1>11 DEF s, left

-----------------------------------------------------------------------------
(* The items are what is named and could be loaded. *)
Matches(s, list) ==
  LET named == Among(list, Entries(list) \ s.missed)
  IN CASE s.kind = "home" -> Entries(s.items) = Entries(named)
       [] s.kind = "panel" -> s.items = named
       [] OTHER -> list \in {s.last, Groups(s.items)}

ItemsSound(s) ==
  s.kind # "navigator" =>
    Once(s.items) /\ Entries(s.items) \subseteq Plugin /\ Entries(s.items) \intersect s.missed = {}

(* At the end of the list. *)
LEMMA MatchFact ==
  ASSUME NEW z \in Shells, NEW E \in SUBSET Names, NEW list \in Seq(Names),
         NEW y \in Shells, y.kind = z.kind, y.last = list,
         z.kind # "navigator" =>
           Once(list) /\ y.missed = {id \in Reached(list, Len(list)) : Lacks(z, E, id)},
         z.kind = "panel" => y.items = Picks(list, Holds(z, E, list))[Len(list)],
         z.kind = "home" =>
           /\ Once(y.items)
           /\ Entries(y.items) = {id \in Reached(list, Len(list)) : ~Lacks(z, E, id)}
  PROVE  Matches(y, list) /\ ItemsSound(y)
<1> DEFINE miss == {id \in Entries(list) : Lacks(z, E, id)}
           named == Among(list, Entries(list) \ miss)
<1>1. Reached(list, Len(list)) = Entries(list)
  BY DEF Reached, Entries
<1>2. \A id : ~Lacks(z, E, id) => id \in Plugin
  BY DEF Lacks, HasFile, Shells
<1>3. CASE z.kind = "navigator"
  BY <1>3 DEF Matches, ItemsSound
<1>4. ASSUME z.kind # "navigator"
      PROVE  Once(list) /\ y.missed = miss /\ Once(named) /\ Entries(named) = Entries(list) \ miss
  <2>1. Once(list) /\ y.missed = miss
    BY <1>1, <1>4
  <2> DEFINE A == Entries(list) \ miss
             l == Among(list, A)
  <2> HIDE DEF miss, A
  <2>2. Once(l) /\ Entries(l) = Entries(list) \intersect A
    BY <2>1, AmongFact
  <2> QED
    BY <2>1, <2>2 DEF A
<1>5. CASE z.kind = "home"
  <2>1. Entries(y.items) = Entries(list) \ miss
    BY <1>1, <1>5
  <2>2. Entries(y.items) \subseteq Plugin
    BY <1>2, <2>1
  <2> HIDE DEF miss
  <2>3. ItemsSound(y)
    BY <1>4, <1>5, <2>1, <2>2 DEF ItemsSound
  <2> QED
    BY <1>4, <1>5, <2>1, <2>3 DEF Matches
<1>6. CASE z.kind = "panel"
  <2>1. y.items = named
    BY <1>6 DEF Among, Picked, Holds
  <2>2. Entries(list) \ miss \subseteq Plugin
    BY <1>2
  <2> HIDE DEF miss
  <2>3. ItemsSound(y)
    <3> HIDE DEF named
    <3> QED
      BY <1>4, <1>6, <2>1, <2>2 DEF ItemsSound
  <2> QED
    BY <1>4, <1>6, <2>1, <2>3 DEF Matches
<1> QED
  BY <1>3, <1>5, <1>6 DEF Shells, Kinds

LEMMA LoadedFact ==
  ASSUME NEW s \in Shells, NEW list \in Seq(Names), s.kind # "navigator" => Once(list)
  PROVE  LET y == LoadAll(s, list)
         IN /\ y \in Shells /\ Matches(y, list) /\ ItemsSound(y) /\ y.kind = s.kind
            /\ y.conf = s.conf /\ y.system = s.system
<1> DEFINE z == [s EXCEPT !.items = <<>>, !.missed = {}, !.last = list]
           y == LoadAll(s, list)
<1>1. z \in Shells /\ FilledOK(z, {}, list, Len(list), y)
  BY LoadAllFact
<1>2. z.kind = s.kind /\ z.conf = s.conf /\ z.system = s.system /\ z.last = list
  BY DEF Shells
<1> HIDE DEF z, y
<1>3. y \in Shells /\ y.kind = s.kind /\ y.conf = s.conf /\ y.system = s.system /\ y.last = list
  BY <1>1, <1>2 DEF FilledOK, SameRest
<1>4. /\ z.kind # "navigator" =>
           Once(list) /\ y.missed = {id \in Reached(list, Len(list)) : Lacks(z, {}, id)}
      /\ z.kind = "panel" => y.items = Picks(list, Holds(z, {}, list))[Len(list)]
      /\ z.kind = "home" =>
           /\ Once(y.items)
           /\ Entries(y.items) = {} \union {id \in Reached(list, Len(list)) : ~Lacks(z, {}, id)}
  BY <1>1, <1>2 DEF FilledOK
<1>5. {} \in SUBSET Names
  OBVIOUS
<1>6. Matches(y, list) /\ ItemsSound(y)
  <2>1. z.kind = "home" => Entries(y.items) = {id \in Reached(list, Len(list)) : ~Lacks(z, {}, id)}
    BY <1>4
  <2> QED
    BY <1>1, <1>2, <1>3, <1>4, <1>5, <2>1, MatchFact
<1> QED
  BY <1>3, <1>6 DEF y

LEMMA SyncFact ==
  ASSUME NEW s \in Shells, ItemsSound(s), NEW list \in Seq(Names), NEW ok \in BOOLEAN,
         s.kind # "navigator" => Once(list)
  PROVE  LET y == Sync(s, list, ok)
         IN /\ y \in Shells /\ Matches(y, list) /\ ItemsSound(y) /\ y.kind = s.kind
            /\ y.system = s.system /\ y.dialog = s.dialog
            /\ Longer(s, y) /\ (ConfSound(s) => ConfSound(y))
            /\ ~y.failed =>
                 ~s.failed /\ (ShellSaved(y) \/ (y.conf = s.conf /\ y.ignore = s.ignore))
<1> DEFINE z == [s EXCEPT !.items = IF s.kind = "home" THEN @ ELSE <<>>,
                                !.missed = {}, !.last = list]
           E == Entries(s.items)
           y == Sync(s, list, ok)
<1>0. s.kind # "navigator" => Once(list) /\ Once(s.items)
  BY DEF ItemsSound
<1>1. z \in Shells /\ \E t : AddedOK(z, E, list, Len(list), t) /\ y = DestroyAll(t, ok)
  BY <1>0, AddAllFact
<1>2. PICK t : AddedOK(z, E, list, Len(list), t) /\ y = DestroyAll(t, ok)
  BY <1>1
<1>3. /\ z.kind = s.kind /\ z.conf = s.conf /\ z.system = s.system /\ z.last = list
      /\ z.dialog = s.dialog /\ z.ignore = s.ignore /\ z.failed = s.failed /\ z.events = s.events
  BY DEF Shells
<1>4. E \in SUBSET Names
  <2>1. s.items \in Seq(Names)
    BY DEF Shells
  <2>2. \A n \in DOMAIN s.items : s.items[n] \in Names
    BY <2>1
  <2> QED
    BY <2>2 DEF Entries
<1> HIDE DEF z, y, E
<1> DEFINE u == t.shell
<1>5. /\ t \in Syncs /\ u \in Shells /\ FilledOK(z, E, list, Len(list), u) /\ SameRest(z, u)
      /\ u.kind = s.kind /\ u.conf = s.conf /\ u.system = s.system /\ u.last = list
      /\ u.dialog = s.dialog /\ u.ignore = s.ignore /\ u.failed = s.failed /\ u.events = s.events
  BY <1>2, <1>3 DEF AddedOK, FilledOK, SameRest
<1>6. EndedOK(u, t.left, Len(t.left), y)
  <2>1. u.kind = "home" => Once(u.items)
    BY <1>3, <1>5 DEF FilledOK
  <2> QED
    BY <1>2, <1>5, <2>1, DestroyAllFact
<1>61. Reached(t.left, Len(t.left)) = Entries(t.left)
  <2>1. t.left \in Seq(Names)
    BY <1>5 DEF Syncs
  <2> QED
    BY <2>1 DEF Reached, Entries
<1>7. /\ y \in Shells /\ y.kind = s.kind /\ y.system = s.system /\ y.dialog = s.dialog
      /\ y.last = list /\ y.missed = u.missed
  BY <1>5, <1>6 DEF EndedOK
<1>8. ASSUME z.kind # "navigator"
      PROVE  Once(list) /\ y.missed = {id \in Reached(list, Len(list)) : Lacks(z, E, id)}
  BY <1>0, <1>3, <1>5, <1>7, <1>8 DEF FilledOK
<1>9. ASSUME z.kind = "panel"
      PROVE  y.items = Picks(list, Holds(z, E, list))[Len(list)]
  BY <1>3, <1>5, <1>6, <1>9 DEF FilledOK, EndedOK
<1>10. ASSUME z.kind = "home"
       PROVE  /\ Once(y.items)
              /\ Entries(y.items) = {id \in Reached(list, Len(list)) : ~Lacks(z, E, id)}
  <2>1. Once(y.items) /\ Entries(y.items) = Entries(u.items) \ Entries(t.left)
    BY <1>3, <1>5, <1>6, <1>61, <1>10 DEF EndedOK
  <2>2. Entries(u.items) = E \union {id \in Reached(list, Len(list)) : ~Lacks(z, E, id)}
    BY <1>5, <1>10 DEF FilledOK
  <2>3. Entries(t.left) = E \ {id \in Reached(list, Len(list)) : HasFile(z, id)}
    BY <1>2, <1>10 DEF AddedOK
  <2>4. \A id : id \in E => (Lacks(z, E, id) <=> ~HasFile(z, id))
    BY DEF Lacks
  <2> QED
    BY <2>1, <2>2, <2>3, <2>4
<1>11. Matches(y, list) /\ ItemsSound(y)
  BY <1>1, <1>3, <1>4, <1>7, <1>8, <1>9, <1>10, MatchFact
<1>12. Longer(s, y)
  BY <1>5, <1>6, LongerFact DEF EndedOK
<1>13. ConfSound(s) => ConfSound(y)
  <2>1. ConfSound(s) => ConfSound(u)
    BY <1>5 DEF ConfSound
  <2> QED
    BY <1>6, <2>1 DEF EndedOK
<1>14. ~y.failed => ~s.failed /\ (ShellSaved(y) \/ (y.conf = s.conf /\ y.ignore = s.ignore))
  BY <1>5, <1>6 DEF EndedOK
<1> QED
  BY <1>7, <1>11, <1>12, <1>13, <1>14 DEF y

-----------------------------------------------------------------------------
(* The inductive invariant.  While no write has failed the container is in   *)
(* step with its file, or a monitor that is listened to has news of the      *)
(* file; what the monitor is to pass over is still to come.                  *)
Held(s) == Matches(s, ConfList(s))

Due(s) ==
  \/ Seen(s, UserConf) /\ ~s.ignore
  \/ Twice(s, UserConf)
  \/ s.conf = None /\ Seen(s, SystemConf)

InTime(s) ==
  ~s.failed =>
    /\ s.ignore => Seen(s, UserConf)
    /\ s.ignore /\ s.conf = None => Twice(s, UserConf)
    /\ Held(s) \/ Due(s)

ContainerSound(s) == s \in Shells /\ ItemsSound(s) /\ ConfSound(s) /\ InTime(s)

ContainerIInv == ContainerSound(shell)

LEMMA ConfListFact ==
  ASSUME NEW s \in Shells, ConfSound(s)
  PROVE  ConfList(s) \in Seq(Names) /\ Once(ConfList(s))
<1>1. Once(<<>>) /\ <<>> \in Seq(Names)
  BY DEF Once
<1> QED
  BY <1>1 DEF ConfList, ConfSound, Shells

(* What a container has written is what it holds. *)
LEMMA ShellSavedFact ==
  ASSUME NEW s \in Shells, ItemsSound(s), ShellSaved(s)
  PROVE  Held(s)
<1> DEFINE items == s.items
           list == Groups(items)
           named == Among(list, Entries(list) \ s.missed)
<1>1. items \in Seq(Names)
  BY DEF Shells
<1> HIDE DEF items
<1>2. list \in Seq(Names) /\ Once(list) /\ Entries(list) = Entries(items)
  BY <1>1, GroupsFact
<1>3. ConfList(s) = list
  BY <1>2, ContainerAssumption DEF ConfList, ShellSaved, items
<1>4. CASE s.kind = "navigator"
  BY <1>3, <1>4 DEF Held, Matches, items
<1>5. ASSUME s.kind # "navigator"
      PROVE  Once(items) /\ Entries(items) \intersect s.missed = {}
  BY <1>5 DEF ItemsSound, items
<1>6. CASE s.kind = "home"
  <2> DEFINE A == Entries(list) \ s.missed
             l == Among(list, A)
  <2> HIDE DEF list, A
  <2>1. Entries(l) = Entries(list) \intersect A
    BY <1>2, AmongFact
  <2>2. Entries(l) = Entries(items)
    BY <1>2, <1>5, <1>6, <2>1 DEF A
  <2> QED
    BY <1>3, <1>6, <2>2 DEF Held, Matches, items, A
<1>7. CASE s.kind = "panel"
  <2>1. Picked(items, DOMAIN items) = items
    BY <1>1, WholeFact
  <2>2. list = items
    <3>1. {n \in DOMAIN items : \A m \in DOMAIN items : m < n => items[m] # items[n]} = DOMAIN items
      <4>1. \A m, n \in DOMAIN items : m < n => items[m] # items[n]
        <5>1. DOMAIN items \subseteq Nat
          BY <1>1
        <5> QED
          BY <1>5, <1>7, <5>1 DEF Once
      <4> QED
        BY <4>1
    <3> QED
      BY <2>1, <3>1 DEF Groups
  <2>3. Among(items, Entries(items) \ s.missed) = items
    <3>1. {n \in DOMAIN items : items[n] \in Entries(items) \ s.missed} = DOMAIN items
      BY <1>5, <1>7 DEF Entries
    <3> QED
      BY <2>1, <3>1 DEF Among
  <2> QED
    BY <1>3, <1>7, <2>2, <2>3 DEF Held, Matches, items
<1> QED
  BY <1>4, <1>6, <1>7 DEF Shells, Kinds

(* A user without a file gets a copy. *)
LEMMA ConfFilePathFact ==
  ASSUME NEW s \in Shells, ItemsSound(s), ConfSound(s), NEW ok \in BOOLEAN
  PROVE  LET y == ConfFilePath(s, ok)
         IN /\ y \in Shells /\ ItemsSound(y) /\ ConfSound(y) /\ ConfList(y) = ConfList(s)
            /\ y.kind = s.kind /\ y.ignore = s.ignore /\ y.failed = s.failed /\ Longer(s, y)
            /\ y.conf # s.conf => Seen(y, UserConf)
<1> DEFINE y == ConfFilePath(s, ok)
           ev == Append(s.events, UserConf)
<1>1. CASE s.conf = None /\ s.system # None /\ ok
  <2>1. s.events \in Seq(Monitored) /\ UserConf \in Monitored /\ s.system \in Seq(Names)
    BY <1>1 DEF Shells, Monitored
  <2>2. ev \in Seq(Monitored)
    BY <2>1
  <2>3. y = [s EXCEPT !.conf = s.system, !.events = ev]
    BY <1>1 DEF ConfFilePath, Shells
  <2> HIDE DEF ev, y
  <2>4. /\ y \in Shells /\ y.kind = s.kind /\ y.ignore = s.ignore /\ y.failed = s.failed
        /\ y.items = s.items /\ y.missed = s.missed /\ y.conf = s.system /\ y.system = s.system
        /\ y.events = ev
    BY <2>1, <2>2, <2>3 DEF Shells
  <2>5. Longer(s, y) /\ Seen(y, UserConf)
    BY <2>1, <2>4, EventFact DEF ev
  <2>6. ItemsSound(y) /\ ConfSound(y) /\ ConfList(y) = ConfList(s)
    BY <1>1, <2>4 DEF ItemsSound, ConfSound, ConfList
  <2> QED
    BY <2>4, <2>5, <2>6 DEF y
<1>2. CASE ~(s.conf = None /\ s.system # None /\ ok)
  <2>1. y = s
    BY <1>2 DEF ConfFilePath
  <2> HIDE DEF y
  <2> QED
    BY <2>1, LongerFact DEF y
<1> QED
  BY <1>1, <1>2

(* The file is read again, and the container brought in step with it. *)
LEMMA RereadFact ==
  ASSUME NEW s \in Shells, ItemsSound(s), ConfSound(s), ~s.ignore, NEW ok \in BOOLEAN
  PROVE  ContainerSound(Sync(ConfFilePath(s, ok), ConfList(s), ok))
<1> DEFINE c == ConfFilePath(s, ok)
           list == ConfList(s)
           y == Sync(c, list, ok)
<1>1. /\ c \in Shells /\ ItemsSound(c) /\ ConfSound(c) /\ ConfList(c) = list
      /\ c.kind = s.kind /\ c.ignore = s.ignore
  BY ConfFilePathFact
<1>2. list \in Seq(Names) /\ Once(list)
  BY ConfListFact
<1> HIDE DEF c, list
<1>3. /\ y \in Shells /\ Matches(y, list) /\ ItemsSound(y) /\ y.kind = c.kind
      /\ y.system = c.system /\ (ConfSound(c) => ConfSound(y))
      /\ ~y.failed => ~c.failed /\ (ShellSaved(y) \/ (y.conf = c.conf /\ y.ignore = c.ignore))
  BY <1>1, <1>2, SyncFact
<1> HIDE DEF y
<1>4. ASSUME ~y.failed
      PROVE  /\ y.ignore => Seen(y, UserConf)
             /\ y.ignore /\ y.conf = None => Twice(y, UserConf)
             /\ Held(y)
  <2>1. CASE ShellSaved(y)
    <3>1. y.conf # None
      <4>1. y.items \in Seq(Names)
        BY <1>3 DEF Shells
      <4>2. Groups(y.items) \in Seq(Names)
        BY <4>1, GroupsFact
      <4> QED
        BY <2>1, <4>2, ContainerAssumption DEF ShellSaved
    <3>2. Held(y)
      BY <1>3, <2>1, ShellSavedFact
    <3> QED
      BY <2>1, <3>1, <3>2 DEF ShellSaved
  <2>2. CASE ~ShellSaved(y)
    <3>1. y.conf = c.conf /\ ~y.ignore /\ y.system = c.system
      BY <1>1, <1>3, <1>4, <2>2
    <3>2. ConfList(y) = list
      BY <1>1, <3>1 DEF ConfList
    <3> QED
      BY <1>3, <3>1, <3>2 DEF Held
  <2> QED
    BY <2>1, <2>2
<1>5. InTime(y)
  BY <1>4 DEF InTime
<1> QED
  BY <1>1, <1>3, <1>5 DEF ContainerSound, y, c, list

-----------------------------------------------------------------------------
(* What a step leaves of the items and of the files. *)
SameContents(s, t) ==
  /\ t.kind = s.kind /\ t.items = s.items /\ t.missed = s.missed /\ t.last = s.last
  /\ t.conf = s.conf /\ t.system = s.system

LEMMA SameContentsFact ==
  \A s, t : SameContents(s, t) =>
    /\ Held(s) <=> Held(t)
    /\ ItemsSound(s) <=> ItemsSound(t)
    /\ ConfSound(s) <=> ConfSound(t)
BY DEF SameContents, Held, Matches, ConfList, ItemsSound, ConfSound

LEMMA MonitoredFact ==
  /\ UserConf \in Monitored /\ SystemConf \in Monitored /\ UserConf # SystemConf
  /\ \A p \in Plugin : MonitorEvent("created", p) \in Monitored
                         /\ MonitorEvent("deleted", p) \in Monitored
  /\ \A e \in Monitored : e # UserConf /\ e # SystemConf => e.plugin \in Plugin
BY DEF Monitored, UserConf, SystemConf, MonitorEvent

(* The first event is handled. *)
LEMMA TailFact ==
  ASSUME NEW s \in Shells, s.events # <<>>
  PROVE  LET t == [s EXCEPT !.events = Tail(@)]
         IN /\ t \in Shells /\ SameContents(s, t) /\ t.ignore = s.ignore /\ t.failed = s.failed
            /\ t.installed = s.installed
            /\ Head(s.events) \in Monitored
            /\ \A e : Twice(s, e) => Seen(t, e)
            /\ \A e : e # Head(s.events) =>
                 (Seen(s, e) => Seen(t, e)) /\ (Twice(s, e) => Twice(t, e))
<1> DEFINE a == s.events
           b == Tail(a)
           l == Len(a)
           t == [s EXCEPT !.events = Tail(@)]
<1>1. a \in Seq(Monitored) /\ a # <<>>
  BY DEF Shells
<1> HIDE DEF a
<1>2. /\ l \in Nat /\ l # 0 /\ b \in Seq(Monitored) /\ DOMAIN a = 1 .. l /\ DOMAIN b = 1 .. l - 1
      /\ Head(a) = a[1] /\ Head(a) \in Monitored
      /\ \A n \in 1 .. l - 1 : b[n] = a[n + 1]
  BY <1>1
<1>3. t = [s EXCEPT !.events = b]
  BY DEF a, Shells
<1> HIDE DEF b, l, t
<1>4. /\ t \in Shells /\ SameContents(s, t) /\ t.ignore = s.ignore /\ t.failed = s.failed
      /\ t.installed = s.installed /\ t.events = b
  BY <1>2, <1>3 DEF Shells, SameContents
<1>5. \A n \in 2 .. l : n - 1 \in 1 .. l - 1 /\ b[n - 1] = a[n]
  <2> SUFFICES ASSUME NEW n \in 2 .. l PROVE n - 1 \in 1 .. l - 1 /\ b[n - 1] = a[n]
    OBVIOUS
  <2>1. n - 1 \in 1 .. l - 1 /\ n - 1 + 1 = n
    BY <1>2
  <2>2. b[n - 1] = a[n - 1 + 1]
    BY ONLY <1>2, <2>1
  <2> QED
    BY <2>1, <2>2
<1>6. \A n \in 1 .. l : n = 1 \/ n \in 2 .. l
  BY <1>2
<1>7. \A m, n \in 2 .. l : m < n => m - 1 < n - 1
  BY <1>2
<1>8. \A m, n \in 1 .. l : m < n => n \in 2 .. l
  BY <1>2
<1>9. ASSUME NEW e, NEW n \in 2 .. l, a[n] = e PROVE Seen(t, e)
  <2>1. b[n - 1] = e /\ n - 1 \in DOMAIN b
    BY <1>2, <1>5, <1>9
  <2> QED
    BY <1>4, <2>1 DEF Seen
<1>91. ASSUME NEW e, Twice(s, e) PROVE Seen(t, e)
  <2>1. PICK m \in 1 .. l, n \in 1 .. l : m < n /\ a[m] = e /\ a[n] = e
    BY <1>2, <1>91 DEF Twice, a
  <2> QED
    BY <1>8, <1>9, <2>1
<1>10. ASSUME NEW e, e # a[1], Seen(s, e) PROVE Seen(t, e)
  <2>1. PICK n \in 1 .. l : a[n] = e
    BY <1>2, <1>10 DEF Seen, a
  <2> QED
    BY <1>6, <1>9, <1>10, <2>1
<1>11. ASSUME NEW e, e # a[1], Twice(s, e) PROVE Twice(t, e)
  <2>1. PICK m \in 1 .. l, n \in 1 .. l : m < n /\ a[m] = e /\ a[n] = e
    BY <1>2, <1>11 DEF Twice, a
  <2>2. m \in 2 .. l /\ n \in 2 .. l
    BY <1>6, <1>11, <2>1
  <2>3. m - 1 < n - 1 /\ b[m - 1] = e /\ b[n - 1] = e /\ m - 1 \in DOMAIN b /\ n - 1 \in DOMAIN b
    BY <1>2, <1>5, <1>7, <2>1, <2>2
  <2> QED
    BY <1>4, <2>3 DEF Twice
<1> QED
  BY <1>2, <1>4, <1>91, <1>10, <1>11 DEF a, t

(* The plugins' files have changed: what is in the container is written. *)
LEMMA DirFact ==
  ASSUME NEW s \in Shells, ItemsSound(s), ConfSound(s), NEW e \in Monitored,
         e # UserConf, e # SystemConf, NEW ok \in BOOLEAN
  PROVE  LET y == PluginDirChanged(s, e, ok)
         IN /\ y \in Shells /\ ItemsSound(y) /\ ConfSound(y)
            /\ ~y.failed =>
                 /\ ~s.failed
                 /\ \/ y = s
                    \/ /\ y.ignore = s.ignore /\ y.conf # None
                       /\ Seen(y, UserConf) /\ (Seen(s, UserConf) => Twice(y, UserConf))
<1> DEFINE new == IF s.kind = "home" /\ e.type = "created" THEN <<e.plugin>> ELSE <<>>
           present == Among(s.items, s.installed)
           list == new \o present
           g == Groups(list)
           ev == Append(s.events, UserConf)
           y == PluginDirChanged(s, e, ok)
<1>1. s.items \in Seq(Names) /\ s.events \in Seq(Monitored) /\ UserConf \in Monitored
  BY MonitoredFact DEF Shells
<1>2. g \in Seq(Names) /\ Once(g)
  <2>1. e.plugin \in Names
    BY MonitoredFact DEF Names
  <2>2. new \in Seq(Names)
    BY <2>1
  <2>3. present \in Seq(Names)
    BY <1>1, PickedTypeFact DEF Among
  <2> HIDE DEF new, present
  <2>4. list \in Seq(Names)
    BY <2>2, <2>3
  <2> HIDE DEF list
  <2> QED
    BY <2>4, GroupsFact
<1>3. ev \in Seq(Monitored) /\ g # None
  BY <1>1, <1>2, ContainerAssumption
<1>4. y = IF new # <<>> \/ present # s.items
            THEN IF ok THEN [s EXCEPT !.conf = g, !.events = ev] ELSE [s EXCEPT !.failed = TRUE]
            ELSE s
  BY DEF PluginDirChanged, ListToConf, Shells
<1> HIDE DEF g, ev, y, new, present
<1>5. CASE y = s
  BY <1>5 DEF y
<1>6. CASE y = [s EXCEPT !.conf = g, !.events = ev]
  <2>1. /\ y \in Shells /\ y.kind = s.kind /\ y.items = s.items /\ y.missed = s.missed
        /\ y.conf = g /\ y.system = s.system /\ y.events = ev /\ y.ignore = s.ignore
        /\ y.failed = s.failed
    BY <1>2, <1>3, <1>6 DEF Shells
  <2>2. Seen(y, UserConf) /\ (Seen(s, UserConf) => Twice(y, UserConf))
    BY <1>1, <2>1, EventFact DEF ev
  <2>3. ItemsSound(y) /\ ConfSound(y)
    BY <1>2, <2>1 DEF ItemsSound, ConfSound
  <2> QED
    BY <1>3, <2>1, <2>2, <2>3 DEF y
<1>7. CASE y = [s EXCEPT !.failed = TRUE]
  <2>1. y \in Shells /\ SameContents(s, y) /\ y.failed = TRUE
    BY <1>7 DEF Shells, SameContents
  <2>2. ItemsSound(y) /\ ConfSound(y)
    BY <2>1, SameContentsFact
  <2> QED
    BY <2>1, <2>2 DEF y
<1> QED
  BY <1>4, <1>5, <1>6, <1>7

LEMMA HandleMonitorFact == ASSUME ContainerIInv, HandleMonitor PROVE ContainerIInv'
<1>1. PICK ok \in BOOLEAN :
        LET event == Head(shell.events)
            s == [shell EXCEPT !.events = Tail(@)]
        IN shell' = CASE event = UserConf -> ConfChanged(s, ok)
                      [] event = SystemConf -> SystemConfChanged(s, ok)
                      [] OTHER -> PluginDirChanged(s, event, ok)
  BY DEF HandleMonitor
<1> DEFINE event == Head(shell.events)
           s == [shell EXCEPT !.events = Tail(@)]
<1>2. /\ shell \in Shells /\ ItemsSound(shell) /\ ConfSound(shell) /\ InTime(shell)
      /\ shell.events # <<>>
  BY DEF ContainerIInv, ContainerSound, HandleMonitor
<1>3. /\ s \in Shells /\ SameContents(shell, s) /\ s.ignore = shell.ignore /\ s.failed = shell.failed
      /\ event \in Monitored
      /\ \A e : Twice(shell, e) => Seen(s, e)
      /\ \A e : e # event => (Seen(shell, e) => Seen(s, e)) /\ (Twice(shell, e) => Twice(s, e))
  BY <1>2, TailFact
<1>4. shell' = CASE event = UserConf -> ConfChanged(s, ok)
                 [] event = SystemConf -> SystemConfChanged(s, ok)
                 [] OTHER -> PluginDirChanged(s, event, ok)
  BY <1>1
<1> HIDE DEF event, s
<1>5. /\ ItemsSound(s) /\ ConfSound(s) /\ (Held(shell) <=> Held(s)) /\ s.conf = shell.conf
  BY <1>2, <1>3, SameContentsFact DEF SameContents
<1>6. ASSUME ~s.failed
      PROVE  /\ shell.ignore => Seen(shell, UserConf)
             /\ shell.ignore /\ shell.conf = None => Twice(shell, UserConf)
             /\ Held(s) \/ Due(shell)
  BY <1>2, <1>3, <1>5, <1>6 DEF InTime
<1>7. ASSUME s.ignore, event = UserConf \/ (event = SystemConf /\ s.conf = None)
      PROVE  ContainerSound([s EXCEPT !.ignore = FALSE])
  <2> DEFINE y == [s EXCEPT !.ignore = FALSE]
  <2>1. /\ y \in Shells /\ SameContents(s, y) /\ y.ignore = FALSE /\ y.failed = s.failed
        /\ y.events = s.events
    BY <1>3 DEF Shells, SameContents
  <2> HIDE DEF y
  <2>2. ItemsSound(y) /\ ConfSound(y) /\ (Held(s) <=> Held(y)) /\ y.conf = s.conf
    BY <1>5, <2>1, SameContentsFact DEF SameContents
  <2>3. \A e : Seen(s, e) => Seen(y, e)
    BY <2>1 DEF Seen
  <2>4. ASSUME ~y.failed PROVE Held(y) \/ Due(y)
    <3>1. Held(s) \/ Due(shell)
      BY <1>6, <2>1, <2>4
    <3>2. CASE event = UserConf
      <4>1. Twice(shell, UserConf) => Due(y)
        BY <1>3, <2>1, <2>3 DEF Due
      <4>2. shell.conf = None /\ Seen(shell, SystemConf) => Due(y)
        BY <1>3, <1>5, <2>2, <2>3, <3>2, MonitoredFact DEF Due
      <4>3. shell.ignore
        BY <1>3, <1>7
      <4> QED
        BY <2>2, <3>1, <4>1, <4>2, <4>3 DEF Due
    <3>3. CASE event = SystemConf /\ s.conf = None
      <4>1. Twice(shell, UserConf)
        BY <1>3, <1>5, <1>6, <1>7, <2>1, <2>4, <3>3
      <4> QED
        BY <1>3, <2>1, <2>3, <4>1 DEF Due
    <3> QED
      BY <1>7, <3>2, <3>3
  <2>5. InTime(y)
    BY <2>1, <2>4 DEF InTime
  <2> QED
    BY <2>1, <2>2, <2>5 DEF ContainerSound, y
<1>8. ASSUME event = UserConf \/ (event = SystemConf /\ s.conf = None)
      PROVE  ContainerSound(ConfChanged(s, ok))
  <2>1. CASE s.ignore
    BY <1>7, <1>8, <2>1 DEF ConfChanged
  <2>2. CASE ~s.ignore
    BY <1>3, <1>5, <2>2, RereadFact DEF ConfChanged
  <2> QED
    BY <2>1, <2>2
<1>9. ASSUME event # UserConf, ~s.failed, event # SystemConf \/ s.conf # None
      PROVE  InTime(s)
  <2>1. /\ Seen(shell, UserConf) => Seen(s, UserConf)
        /\ Twice(shell, UserConf) => Twice(s, UserConf)
        /\ event # SystemConf /\ Seen(shell, SystemConf) => Seen(s, SystemConf)
    BY <1>3, <1>9
  <2>2. Due(shell) => Due(s)
    BY <1>3, <1>5, <1>9, <2>1 DEF Due
  <2> QED
    BY <1>3, <1>5, <1>6, <1>9, <2>1, <2>2 DEF InTime
<1>10. CASE event = UserConf
  <2>1. shell' = ConfChanged(s, ok)
    BY <1>4, <1>10, MonitoredFact
  <2>2. ContainerSound(ConfChanged(s, ok))
    BY <1>8, <1>10
  <2> QED
    BY <2>1, <2>2 DEF ContainerIInv
<1>11. CASE event = SystemConf
  <2>1. CASE s.conf = None
    <3>1. shell' = ConfChanged(s, ok)
      BY <1>4, <1>11, <2>1, MonitoredFact DEF SystemConfChanged
    <3> QED
      BY <1>8, <1>11, <2>1, <3>1 DEF ContainerIInv
  <2>2. CASE s.conf # None
    <3>1. shell' = s
      BY <1>4, <1>11, <2>2, MonitoredFact DEF SystemConfChanged
    <3>2. InTime(s)
      BY <1>9, <1>11, <2>2, MonitoredFact DEF InTime
    <3>3. ContainerSound(s)
      BY <1>3, <1>5, <3>2 DEF ContainerSound
    <3> QED
      BY <3>1, <3>3 DEF ContainerIInv
  <2> QED
    BY <2>1, <2>2
<1>12. CASE event # UserConf /\ event # SystemConf
  <2> DEFINE y == PluginDirChanged(s, event, ok)
  <2>1. shell' = y
    BY <1>4, <1>12
  <2>2. /\ y \in Shells /\ ItemsSound(y) /\ ConfSound(y)
        /\ ~y.failed =>
             /\ ~s.failed
             /\ \/ y = s
                \/ /\ y.ignore = s.ignore /\ y.conf # None
                   /\ Seen(y, UserConf) /\ (Seen(s, UserConf) => Twice(y, UserConf))
    BY <1>3, <1>5, <1>12, DirFact
  <2> HIDE DEF y
  <2>3. InTime(s)
    BY <1>9, <1>12 DEF InTime
  <2>4. ASSUME ~y.failed, y # s PROVE InTime(y)
    <3>1. /\ ~s.failed /\ y.ignore = s.ignore /\ y.conf # None
          /\ Seen(y, UserConf) /\ (Seen(s, UserConf) => Twice(y, UserConf))
      BY <2>2, <2>4
    <3>2. y.ignore => Twice(y, UserConf)
      BY <2>3, <3>1 DEF InTime
    <3>3. y.ignore \in BOOLEAN
      BY <2>2 DEF Shells
    <3>4. Due(y)
      BY <3>1, <3>2, <3>3 DEF Due
    <3> QED
      BY <3>1, <3>4 DEF InTime
  <2>5. InTime(y)
    BY <2>3, <2>4 DEF InTime
  <2> QED
    BY <2>1, <2>2, <2>5 DEF ContainerIInv, ContainerSound
<1> QED
  BY <1>10, <1>11, <1>12

(* Lists that others write. *)
LEMMA OthersListFact ==
  ASSUME NEW list \in ConfLists \union {None}
  PROVE  list \in Seq(Names) \union {None} /\ (list # None => Once(list))
<1>1. CASE list \in ConfLists
  <2>1. list \in Seq(Plugin) /\ Once(list) /\ Plugin \subseteq Names
    BY <1>1, ContainerAssumption DEF Names
  <2> HIDE DEF Plugin, Names
  <2> QED
    BY <2>1
<1> QED
  BY <1>1

(* The news of what others have done waits with the rest. *)
LEMMA ElsewhereFact ==
  ASSUME ContainerIInv, NEW c \in Seq(Names) \union {None}, c # None => Once(c),
         NEW d \in Seq(Names) \union {None}, d # None => Once(d), NEW p \in SUBSET Plugin,
         NEW e \in Monitored,
         c # shell.conf => e = UserConf, d # shell.system => e = SystemConf,
         LET s == [shell EXCEPT !.conf = c, !.system = d, !.installed = p]
         IN shell' = [s EXCEPT !.events = Append(@, e)]
  PROVE  ContainerIInv'
<1> DEFINE ev == Append(shell.events, e)
           y == shell'
<1>1. /\ shell \in Shells /\ ItemsSound(shell) /\ ConfSound(shell) /\ InTime(shell)
      /\ shell.events \in Seq(Monitored)
  BY DEF ContainerIInv, ContainerSound, Shells
<1>2. ev \in Seq(Monitored)
  BY <1>1
<1>3. y = [shell EXCEPT !.conf = c, !.system = d, !.installed = p, !.events = ev]
  BY <1>1 DEF Shells
<1> HIDE DEF ev, y
<1>4. /\ y \in Shells /\ y.kind = shell.kind /\ y.items = shell.items /\ y.missed = shell.missed
      /\ y.last = shell.last /\ y.conf = c /\ y.system = d /\ y.events = ev
      /\ y.ignore = shell.ignore /\ y.failed = shell.failed
  BY <1>1, <1>2, <1>3 DEF Shells
<1>5. ItemsSound(y) /\ ConfSound(y)
  BY <1>1, <1>4 DEF ItemsSound, ConfSound
<1>6. /\ Longer(shell, y) /\ Seen(y, e) /\ (Seen(shell, e) => Twice(y, e))
  BY <1>1, <1>4, EventFact DEF ev
<1>7. \A i : (Seen(shell, i) => Seen(y, i)) /\ (Twice(shell, i) => Twice(y, i))
  BY <1>6 DEF Longer
<1>8. ASSUME ~y.failed
      PROVE  /\ y.ignore => Seen(y, UserConf)
             /\ y.ignore /\ y.conf = None => Twice(y, UserConf)
             /\ Held(y) \/ Due(y)
  <2>1. /\ shell.ignore => Seen(shell, UserConf)
        /\ shell.ignore /\ shell.conf = None => Twice(shell, UserConf)
        /\ Held(shell) \/ Due(shell)
    BY <1>1, <1>4, <1>8 DEF InTime
  <2>2. CASE c # shell.conf
    <3>1. e = UserConf
      BY <2>2
    <3>2. Seen(y, UserConf) /\ (Seen(shell, UserConf) => Twice(y, UserConf))
      BY <1>6, <3>1
    <3>3. y.ignore \in BOOLEAN
      BY <1>4 DEF Shells
    <3> QED
      BY <1>4, <2>1, <3>2, <3>3 DEF Due
  <2>3. CASE c = shell.conf
    <3>1. /\ y.ignore => Seen(y, UserConf)
          /\ y.ignore /\ y.conf = None => Twice(y, UserConf)
      BY <1>4, <1>7, <2>1, <2>3
    <3>2. Due(shell) => Due(y)
      BY <1>4, <1>7, <2>3 DEF Due
    <3>3. CASE d = shell.system \/ c # None
      <4>1. ConfList(y) = ConfList(shell)
        BY <1>4, <2>3, <3>3 DEF ConfList
      <4>2. Held(shell) <=> Held(y)
        BY <1>4, <4>1 DEF Held, Matches
      <4> QED
        BY <2>1, <3>1, <3>2, <4>2
    <3>4. CASE d # shell.system /\ c = None
      BY <1>4, <1>6, <3>1, <3>4 DEF Due
    <3> QED
      BY <3>3, <3>4
  <2> QED
    BY <2>2, <2>3
<1>9. InTime(y)
  BY <1>8 DEF InTime
<1> QED
  BY <1>4, <1>5, <1>9 DEF ContainerIInv, ContainerSound, y

LEMMA OthersFact ==
  ASSUME ContainerIInv, WriteUserConf \/ WriteSystemConf \/ Install \/ Uninstall
  PROVE  ContainerIInv'
<1>1. /\ shell \in Shells /\ ConfSound(shell)
  BY DEF ContainerIInv, ContainerSound
<1>2. /\ shell.conf \in Seq(Names) \union {None} /\ (shell.conf # None => Once(shell.conf))
      /\ shell.system \in Seq(Names) \union {None} /\ (shell.system # None => Once(shell.system))
      /\ shell.installed \in SUBSET Plugin
  BY <1>1 DEF Shells, ConfSound
<1> DEFINE After(c, d, p) == [shell EXCEPT !.conf = c, !.system = d, !.installed = p]
           Told(s, e) == [s EXCEPT !.events = Append(@, e)]
<1>3. CASE WriteUserConf
  <2>1. PICK list \in ConfLists \union {None} :
          shell' = Told([shell EXCEPT !.conf = list], UserConf)
    BY <1>3 DEF WriteUserConf, Elsewhere
  <2>2. [shell EXCEPT !.conf = list] = After(list, shell.system, shell.installed)
    BY <1>1 DEF Shells
  <2>3. shell' = Told(After(list, shell.system, shell.installed), UserConf)
    BY <2>1, <2>2
  <2>4. list \in Seq(Names) \union {None} /\ (list # None => Once(list)) /\ UserConf \in Monitored
    BY OthersListFact, MonitoredFact
  <2> QED
    BY <1>2, <2>3, <2>4, ElsewhereFact
<1>4. CASE WriteSystemConf
  <2>1. PICK list \in ConfLists \union {None} :
          shell' = Told([shell EXCEPT !.system = list], SystemConf)
    BY <1>4 DEF WriteSystemConf, Elsewhere
  <2>2. [shell EXCEPT !.system = list] = After(shell.conf, list, shell.installed)
    BY <1>1 DEF Shells
  <2>3. shell' = Told(After(shell.conf, list, shell.installed), SystemConf)
    BY <2>1, <2>2
  <2>4. list \in Seq(Names) \union {None} /\ (list # None => Once(list)) /\ SystemConf \in Monitored
    BY OthersListFact, MonitoredFact
  <2> QED
    BY <1>2, <2>3, <2>4, ElsewhereFact
<1>5. CASE Install \/ Uninstall
  <2>1. PICK p \in Plugin, kind \in {"created", "deleted"} :
          \E q \in SUBSET Plugin :
             shell' = Told([shell EXCEPT !.installed = q], MonitorEvent(kind, p))
    <3>1. CASE Install
      <4>1. PICK p \in Plugin :
              shell' = Told([shell EXCEPT !.installed = @ \union {p}], MonitorEvent("created", p))
        BY <3>1 DEF Install, Elsewhere
      <4>2. shell' = Told([shell EXCEPT !.installed = shell.installed \union {p}], MonitorEvent("created", p))
        BY <1>1, <4>1 DEF Shells
      <4>3. shell.installed \union {p} \in SUBSET Plugin
        BY <1>2
      <4> HIDE DEF Told
      <4> QED
        BY <4>2, <4>3
    <3>2. CASE Uninstall
      <4>1. PICK p \in shell.installed :
              shell' = Told([shell EXCEPT !.installed = @ \ {p}], MonitorEvent("deleted", p))
        BY <3>2 DEF Uninstall, Elsewhere
      <4>2. shell' = Told([shell EXCEPT !.installed = shell.installed \ {p}], MonitorEvent("deleted", p))
        BY <1>1, <4>1 DEF Shells
      <4>3. shell.installed \ {p} \in SUBSET Plugin /\ p \in Plugin
        BY <1>2
      <4> HIDE DEF Told
      <4> QED
        BY <4>2, <4>3
    <3> QED
      BY <1>5, <3>1, <3>2
  <2>2. PICK q \in SUBSET Plugin :
          shell' = Told([shell EXCEPT !.installed = q], MonitorEvent(kind, p))
    BY <2>1
  <2>3. [shell EXCEPT !.installed = q] = After(shell.conf, shell.system, q)
    BY <1>1 DEF Shells
  <2>4. shell' = Told(After(shell.conf, shell.system, q), MonitorEvent(kind, p))
    BY <2>2, <2>3
  <2>5. MonitorEvent(kind, p) \in Monitored
    BY MonitoredFact
  <2> QED
    BY <1>2, <2>4, <2>5, ElsewhereFact
<1> QED
  BY <1>3, <1>4, <1>5

(* The container writes what it holds. *)
LEMMA WrittenFact ==
  ASSUME NEW s \in Shells, ItemsSound(s), ConfSound(s), NEW ok \in BOOLEAN
  PROVE  ContainerSound(ContainerSave(s, ok))
<1> DEFINE y == ContainerSave(s, ok)
<1>1. /\ y \in Shells /\ y.kind = s.kind /\ y.missed = s.missed /\ y.items = s.items
      /\ ConfSound(y) /\ (~y.failed => ShellSaved(y))
  BY ContainerSaveFact
<1> HIDE DEF y
<1>2. ItemsSound(y)
  BY <1>1 DEF ItemsSound
<1>3. ASSUME ~y.failed
      PROVE  Seen(y, UserConf) /\ y.conf # None /\ Held(y)
  <2>1. y.items \in Seq(Names) /\ ShellSaved(y)
    BY <1>1, <1>3 DEF Shells
  <2>2. Groups(y.items) \in Seq(Names)
    BY <2>1, GroupsFact
  <2> QED
    BY <1>1, <1>2, <2>1, <2>2, ShellSavedFact, ContainerAssumption DEF ShellSaved
<1>4. InTime(y)
  BY <1>3 DEF InTime
<1> QED
  BY <1>1, <1>2, <1>4 DEF ContainerSound, y

LEMMA DialogFact ==
  ASSUME NEW s, ContainerSound(s), NEW d \in (SUBSET Plugin) \union {None}
  PROVE  ContainerSound([s EXCEPT !.dialog = d])
<1> DEFINE y == [s EXCEPT !.dialog = d]
<1>1. s \in Shells
  BY DEF ContainerSound
<1>2. /\ y \in Shells /\ SameContents(s, y) /\ y.ignore = s.ignore /\ y.failed = s.failed
      /\ y.events = s.events
  BY <1>1 DEF Shells, SameContents
<1> HIDE DEF y
<1>3. (Held(s) <=> Held(y)) /\ (ItemsSound(s) <=> ItemsSound(y)) /\ (ConfSound(s) <=> ConfSound(y))
  BY <1>2, SameContentsFact
<1>4. \A e : (Seen(s, e) <=> Seen(y, e)) /\ (Twice(s, e) <=> Twice(y, e))
  BY <1>2 DEF Seen, Twice
<1>5. Due(s) <=> Due(y)
  BY <1>2, <1>4 DEF Due, SameContents
<1> QED
  BY <1>2, <1>3, <1>4, <1>5 DEF ContainerSound, InTime, SameContents, y

LEMMA CloseAppletFact == ASSUME ContainerIInv, CloseApplet PROVE ContainerIInv'
<1>1. PICK id \in Entries(shell.items), ok \in BOOLEAN :
        /\ SavesOnRemove(shell)
        /\ shell' = ContainerSave([shell EXCEPT !.items = TakenOut(@, id)], ok)
  BY DEF CloseApplet
<1> DEFINE i == TakenOut(shell.items, id)
           s == [shell EXCEPT !.items = TakenOut(@, id)]
<1>2. /\ shell \in Shells /\ ItemsSound(shell) /\ ConfSound(shell)
      /\ shell.items \in Seq(Names) /\ shell.kind = "home"
  BY <1>1 DEF ContainerIInv, ContainerSound, Shells, SavesOnRemove
<1>3. Once(shell.items)
  BY <1>2 DEF ItemsSound
<1>4. i \in Seq(Names) /\ Once(i) /\ Entries(i) = Entries(shell.items) \ {id}
  BY <1>2, <1>3, TakenOutFact
<1>5. s = [shell EXCEPT !.items = i]
  BY <1>2 DEF Shells
<1>6. shell' = ContainerSave(s, ok)
  BY <1>1
<1> HIDE DEF i, s
<1>7. /\ s \in Shells /\ s.kind = shell.kind /\ s.items = i /\ s.missed = shell.missed
      /\ s.conf = shell.conf /\ s.system = shell.system
  BY <1>2, <1>4, <1>5 DEF Shells
<1>8. ItemsSound(s) /\ ConfSound(s)
  BY <1>2, <1>4, <1>7 DEF ItemsSound, ConfSound
<1> QED
  BY <1>6, <1>7, <1>8, WrittenFact DEF ContainerIInv

LEMMA SelectFact == ASSUME ContainerIInv, SelectPlugins PROVE ContainerIInv'
<1>1. PICK chosen \in SUBSET shell.dialog, ok \in BOOLEAN :
        shell' = [ContainerSave(Sync(shell, Among(ByName, chosen), ok), ok) EXCEPT !.dialog = None]
  BY DEF SelectPlugins
<1> DEFINE list == Among(ByName, chosen)
           y == Sync(shell, list, ok)
<1>2. shell \in Shells /\ ItemsSound(shell) /\ ConfSound(shell)
  BY DEF ContainerIInv, ContainerSound
<1>3. list \in Seq(Names) /\ Once(list)
  <2>1. ByName \in Seq(Plugin) /\ Once(ByName) /\ Plugin \subseteq Names
    BY ContainerAssumption DEF Names
  <2> HIDE DEF Plugin, Names
  <2>2. ByName \in Seq(Names)
    BY <2>1
  <2> QED
    BY <2>1, <2>2, AmongFact
<1> HIDE DEF list
<1>4. y \in Shells /\ ItemsSound(y) /\ ConfSound(y)
  BY <1>2, <1>3, SyncFact
<1> HIDE DEF y
<1>5. ContainerSound(ContainerSave(y, ok))
  BY <1>4, WrittenFact
<1> QED
  <2> DEFINE x == ContainerSave(y, ok)
  <2>1. shell' = [x EXCEPT !.dialog = None]
    BY <1>1 DEF y, list
  <2> HIDE DEF x
  <2>2. None \in (SUBSET Plugin) \union {None} /\ ContainerSound(x)
    BY <1>5 DEF x
  <2>3. ContainerSound([x EXCEPT !.dialog = None])
    BY <2>2, DialogFact
  <2> QED
    BY <2>1, <2>3 DEF ContainerIInv

(* The shell starts, and loads its containers. *)
LEMMA StartShellFact ==
  ASSUME NEW s \in Shells, ItemsSound(s), ConfSound(s), NEW ok \in BOOLEAN
  PROVE  ContainerSound(StartShell(s, ok))
<1> DEFINE c == ConfFilePath(s, ok)
           list == ConfList(s)
           x == LoadAll(c, list)
           y == StartShell(s, ok)
<1>1. c \in Shells /\ ItemsSound(c) /\ ConfSound(c) /\ ConfList(c) = list
  BY ConfFilePathFact
<1>2. list \in Seq(Names) /\ Once(list)
  BY ConfListFact
<1>3. y = [x EXCEPT !.events = <<>>, !.ignore = FALSE, !.dialog = None, !.failed = FALSE]
  BY DEF StartShell
<1> HIDE DEF c, list, y
<1>4. x \in Shells /\ Matches(x, list) /\ ItemsSound(x) /\ x.conf = c.conf /\ x.system = c.system
  BY <1>1, <1>2, LoadedFact
<1> HIDE DEF x
<1>5. y \in Shells /\ SameContents(x, y) /\ ~y.ignore
  <2> DEFINE e == <<>>
  <2>1. e \in Seq(Monitored)
    OBVIOUS
  <2>2. y = [x EXCEPT !.events = e, !.ignore = FALSE, !.dialog = None, !.failed = FALSE]
    BY <1>3
  <2> HIDE DEF e
  <2> QED
    BY <1>4, <2>1, <2>2 DEF Shells, SameContents
<1>6. ItemsSound(y) /\ ConfSound(y)
  BY <1>1, <1>4, <1>5 DEF ItemsSound, ConfSound, SameContents
<1>7. ConfList(x) = list
  BY <1>1, <1>4 DEF ConfList
<1>8. Held(y)
  BY <1>4, <1>5, <1>7, SameContentsFact DEF Held
<1>9. InTime(y)
  BY <1>5, <1>8 DEF InTime
<1> QED
  BY <1>5, <1>6, <1>9 DEF ContainerSound, y

LEMMA ContainerInitFact == ContainerInit => ContainerIInv
<1> SUFFICES ASSUME ContainerInit PROVE ContainerIInv
  OBVIOUS
<1>1. PICK kind \in Kinds, list \in ConfLists :
        shell = StartShell([Emptied(kind) EXCEPT !.system = list], TRUE)
  BY DEF ContainerInit, Kinds
<1> DEFINE s == [Emptied(kind) EXCEPT !.system = list]
<1>2. list \in Seq(Names) \union {None} /\ (list # None => Once(list))
  BY OthersListFact
<1>3. /\ s \in Shells /\ s.items = <<>> /\ s.conf = None /\ s.system = list
  <2> DEFINE e == <<>>
             m == {}
  <2>1. e \in Seq(Names) /\ e \in Seq(Monitored) /\ m \in SUBSET Missable
    OBVIOUS
  <2>2. Emptied(kind) =
          [kind |-> kind, items |-> e, conf |-> None, system |-> None,
           installed |-> Plugin, events |-> e, ignore |-> FALSE, dialog |-> None,
           failed |-> FALSE, missed |-> m, last |-> e]
    BY Zenon DEF Emptied
  <2> HIDE DEF e, m
  <2> DEFINE z == Emptied(kind)
  <2>3. z \in Shells /\ z.items = e /\ z.conf = None
    BY <2>1, <2>2 DEF Shells
  <2> HIDE DEF z
  <2>4. s = [z EXCEPT !.system = list]
    BY Zenon DEF z
  <2> HIDE DEF s
  <2>5. s \in Shells /\ s.items = e /\ s.conf = None /\ s.system = list
    BY <1>2, <2>3, <2>4 DEF Shells
  <2> QED
    BY <2>5 DEF e
<1> HIDE DEF s
<1>4. ItemsSound(s) /\ ConfSound(s)
  <2>1. Once(<<>>) /\ Entries(<<>>) = {}
    BY DEF Once, Entries
  <2> QED
    BY <1>2, <1>3, <2>1 DEF ItemsSound, ConfSound
<1> QED
  BY <1>1, <1>3, <1>4, StartShellFact DEF ContainerIInv, s

LEMMA ContainerStepFact == ContainerIInv /\ [ContainerNext]_shell => ContainerIInv'
<1> SUFFICES ASSUME ContainerIInv, [ContainerNext]_shell PROVE ContainerIInv'
  OBVIOUS
<1>1. CASE HandleMonitor
  BY <1>1, HandleMonitorFact
<1>2. CASE WriteUserConf \/ WriteSystemConf \/ Install \/ Uninstall
  BY <1>2, OthersFact
<1>3. CASE CloseApplet
  BY <1>3, CloseAppletFact
<1>4. CASE OpenDialog
  <2>1. shell' = [shell EXCEPT !.dialog = shell.installed] /\ shell \in Shells
    BY <1>4 DEF OpenDialog, ContainerIInv, ContainerSound
  <2>2. shell.installed \in (SUBSET Plugin) \union {None}
    BY <2>1 DEF Shells
  <2> QED
    BY <2>1, <2>2, DialogFact DEF ContainerIInv
<1>5. CASE SelectPlugins
  BY <1>5, SelectFact
<1>6. CASE CancelDialog
  <2>1. shell' = [shell EXCEPT !.dialog = None] /\ ContainerSound(shell)
    BY <1>6 DEF CancelDialog, ContainerIInv
  <2>2. None \in (SUBSET Plugin) \union {None}
    OBVIOUS
  <2> QED
    BY <2>1, <2>2, DialogFact DEF ContainerIInv
<1>7. CASE RestartShell
  BY <1>7, StartShellFact DEF RestartShell, ContainerIInv, ContainerSound
<1>8. CASE UNCHANGED shell
  BY <1>8 DEF ContainerIInv
<1> QED
  BY <1>1, <1>2, <1>3, <1>4, <1>5, <1>6, <1>7, <1>8 DEF ContainerNext

LEMMA ContainerIInvImpliesInv == ContainerIInv => ContainerInv
<1> SUFFICES ASSUME ContainerIInv PROVE ContainerInv
  OBVIOUS
<1>1. shell \in Shells /\ ItemsSound(shell) /\ InTime(shell) /\ shell.items \in Seq(Names)
  BY DEF ContainerIInv, ContainerSound, Shells
<1>2. ContainerTypeOK
  <2>1. \A n \in DOMAIN shell.items : shell.items[n] \in Names
    BY <1>1
  <2> QED
    BY <1>1, <2>1 DEF ContainerTypeOK, Shells, Kinds, Entries
<1>3. NoPluginTwice
  BY <1>1 DEF NoPluginTwice, ItemsSound
<1>4. ContainerInStep
  <2> SUFFICES ASSUME shell.events = <<>>, ~shell.failed PROVE Held(shell)
    BY DEF ContainerInStep, Held, Matches
  <2>1. \A e : ~Seen(shell, e) /\ ~Twice(shell, e)
    BY DEF Seen, Twice
  <2> QED
    BY <1>1, <2>1 DEF InTime, Due
<1> QED
  BY <1>2, <1>3, <1>4 DEF ContainerInv

(* A container of the shell holds what its file names and could be loaded,   *)
(* in order and no plugin twice, whenever no monitor has news: for any       *)
(* plugins, files, defaults of the policy and number of events that wait,    *)
(* whatever is installed, removed, chosen or written meanwhile, and however  *)
(* writes fail and the shell restarts (hd_desktop_user_conf_dir_changed and  *)
(* the flag that passes over the news of the container's own writes).        *)
THEOREM ContainerSafe == ContainerSpec => []ContainerInv
<1>1. ContainerSpec => []ContainerIInv
  BY ContainerInitFact, ContainerStepFact, PTL DEF ContainerSpec
<1> QED
  BY <1>1, ContainerIInvImpliesInv, PTL
=============================================================================
