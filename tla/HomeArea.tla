------------------------------- MODULE HomeArea -------------------------------
(* The applets of the home view: where HildonHomeArea puts them, how they lie *)
(* above each other, what HDHomeWindow saves of that and when, the stylus on  *)
(* a HildonDesktopHomeItem, and what an item is told of the screen.           *)
EXTENDS Integers, Sequences, FiniteSets, NullPointer, Lists

CONSTANTS
  Applets,
  Natural,      \* the size an applet asks for: [Applets -> [w, h]]
  Width, Height,  \* of the area
  Padding,
  Spots,        \* the points to which each applet is dragged
  Lengths,      \* the widths and heights to which each applet is resized
  Torn          \* what a file is after a crash in the middle of a save

Rects == [x : Int, y : Int, w : Nat, h : Nat]
Sizes == [w : Nat, h : Nat]
Places == [rect : Rects, index : Nat]

ASSUME HomeAssumption ==
  /\ IsFiniteSet(Applets) /\ None \notin Applets \union Rects \union Sizes \union Places
  /\ Torn \notin [Applets -> Places \union {None}]
  /\ Width \in Nat \ {0} /\ Height \in Nat \ {0} /\ Padding \in Nat
  /\ Natural \in [Applets -> [w : Nat \ {0}, h : Nat \ {0}]]
  /\ Spots \in [Applets -> SUBSET [x : Nat, y : Nat]]
  /\ Lengths \in [Applets -> SUBSET (Nat \ {0})]

VARIABLES
  home,     \* the area: children, rectangles, stack, layout, configuration file
  stylus    \* the item under the stylus, and the state of that item

homeVars == <<home, stylus>>

Top == Cardinality(Applets)     \* stands for G_MAXINT
SameSpot(r, q) == q # None /\ r.x = q.x /\ r.y = q.y
Rect(p, s) == [x |-> p.x, y |-> p.y, w |-> s.w, h |-> s.h]
Children(a) == Entries(a.children)
Up == [item |-> None, state |-> "normal", timer |-> FALSE, far |-> FALSE, told |-> 0]
-----------------------------------------------------------------------------
(* Free rectangles. *)
Meet(r, s) ==
  /\ r.x < s.x + s.w /\ s.x < r.x + r.w
  /\ r.y < s.y + s.h /\ s.y < r.y + r.h

Within(r, s) ==
  r.x >= s.x /\ r.y >= s.y /\ r.x + r.w <= s.x + s.w /\ r.y + r.h <= s.y + s.h

(* Mutant: the part on the right begins one column too early. *)
PiecesTooWide(o, r) ==
  {p \in {[o EXCEPT !.h = r.y - o.y],
          [o EXCEPT !.w = r.x - o.x],
          [o EXCEPT !.x = r.x + r.w - 1, !.w = o.x + o.w - r.x - r.w + 1],
          [o EXCEPT !.y = r.y + r.h, !.h = o.y + o.h - r.y - r.h]} : p.w > 0 /\ p.h > 0}

(* The largest rectangles of o that leave out r: above, left, right, below. *)
Pieces(o, r) ==
  {p \in {[o EXCEPT !.h = r.y - o.y],
          [o EXCEPT !.w = r.x - o.x],
          [o EXCEPT !.x = r.x + r.w, !.w = o.x + o.w - r.x - r.w],
          [o EXCEPT !.y = r.y + r.h, !.h = o.y + o.h - r.y - r.h]} : p.w > 0 /\ p.h > 0}

(* A rectangle of which nothing is left stays in the region as it was. *)
SubtractFrom(region, r) ==
  UNION {IF Meet(o, r) /\ Pieces(o, r) # {} THEN Pieces(o, r) ELSE {o} : o \in region}

Padded(r) ==
  LET left(p) == IF p = 0 THEN 0 ELSE Padding
      right(p, whole) == IF p = whole THEN 0 ELSE Padding
  IN [x |-> r.x - left(r.x), y |-> r.y - left(r.y),
      w |-> r.w + left(r.x) + right(r.x + r.w, Width),
      h |-> r.h + left(r.y) + right(r.y + r.h, Height)]

Region(a) ==
  LET left[n \in 0 .. Len(a.children)] ==
        IF n = 0 THEN {[x |-> 0, y |-> 0, w |-> Width, h |-> Height]}
        ELSE SubtractFrom(left[n - 1], Padded(a.rect[a.children[n]]))
  IN left[Len(a.children)]

(* The rectangles an applet of size s fits in; the first one from the top left. *)
Fitting(a, s) == {r \in Region(a) : r.w >= s.w /\ r.h >= s.h}

FirstFit(fits, p) ==
  \E r \in fits : /\ SameSpot(r, p)
                  /\ \A q \in fits : r.y < q.y \/ (r.y = q.y /\ r.x <= q.x)

Place(a, s) ==
  LET fits == Fitting(a, s)
      Corners == [x : 0 .. Width, y : 0 .. Height]
  IN IF \E p \in Corners : FirstFit(fits, p)
       THEN CHOOSE p \in Corners : FirstFit(fits, p) ELSE [x |-> 0, y |-> 0]
-----------------------------------------------------------------------------
(* The stack of the items' windows. *)
RaiseItem(a, i) ==
  IF i \in Children(a)
    THEN [a EXCEPT !.stack = Append(TakenOut(a.stack, i), i)] ELSE a

(* g_list_sort by stack index is stable; every item is raised in this order. *)
Before(a, j, k) ==
  \/ a.index[a.children[j]] < a.index[a.children[k]]
  \/ a.index[a.children[j]] = a.index[a.children[k]] /\ j < k

Rank(a, k) == Cardinality({j \in DOMAIN a.children : Before(a, j, k)}) + 1

SortStack(a) ==
  LET sorted == [n \in DOMAIN a.children |->
                   a.children[CHOOSE k \in DOMAIN a.children : Rank(a, k) = n]]
  IN [a EXCEPT !.children = sorted, !.stack = sorted, !.raised = {}]

LayoutChanged(a) == [a EXCEPT !.timer = TRUE]

Put(a, i, r, index) ==
  SortStack([a EXCEPT !.children = Append(@, i), !.rect[i] = r, !.index[i] = index,
                      !.stack = Append(@, i), !.paused = @ \ {i}])

Remember(a, i, r) == IF a.loaded THEN [a EXCEPT !.layout[i] = r] ELSE a
-----------------------------------------------------------------------------
EmptyArea ==
  [children |-> <<>>, stack |-> <<>>, raised |-> {},
   rect |-> [i \in Applets |-> None], request |-> [i \in Applets |-> None],
   index |-> [i \in Applets |-> 0], before |-> [i \in Applets |-> None],
   layout |-> [i \in Applets |-> None], loaded |-> TRUE,
   timer |-> FALSE, background |-> FALSE, off |-> FALSE, paused |-> {}, late |-> {}, early |-> {},
   file |-> [i \in Applets |-> None]]

(* The window is built: what the file has is the layout of items to come. *)
Load(file) ==
  IF file = Torn
    THEN [EmptyArea EXCEPT !.file = Torn, !.loaded = FALSE]
    ELSE [EmptyArea EXCEPT !.file = file,
            !.layout = [i \in Applets |-> IF file[i] = None THEN None ELSE file[i].rect],
            !.index = [i \in Applets |-> IF file[i] = None THEN 0 ELSE file[i].index]]

HomeInit == home = EmptyArea /\ stylus = Up

(* A plugin is loaded, at its remembered place or at a free one. *)
AddApplet(i) ==
  /\ i \notin Children(home)
  /\ LET known == home.loaded /\ home.layout[i] # None
         r == IF known THEN home.layout[i] ELSE Rect(Place(home, Natural[i]), Natural[i])
         sized == [home EXCEPT !.request[i] = [w |-> r.w, h |-> r.h],
                               !.late = IF home.background \/ home.off THEN @ \union {i} ELSE @ \ {i}]
     IN home' = IF known THEN Put(sized, i, r, home.index[i])
                         ELSE LayoutChanged(Put(Remember(sized, i, r), i, r, Top))
  /\ UNCHANGED stylus

Removed(a, i) ==
  LET rest == [a EXCEPT !.children = TakenOut(@, i),
                        !.stack = TakenOut(@, i),
                        !.raised = @ \ {i}, !.paused = @ \ {i}, !.late = @ \ {i},
                        !.early = @ \ {i},
                        !.rect[i] = None, !.request[i] = None, !.before[i] = None,
                        !.index[i] = 0,
                        !.layout[i] = None]
  IN IF a.loaded /\ a.layout[i] # None THEN LayoutChanged(rest) ELSE rest

(* Its plugin goes, or its close button is pressed. *)
RemoveApplet(i) ==
  /\ i \in Children(home)
  /\ home' = Removed(home, i)
  /\ stylus' = IF stylus.item = i THEN Up ELSE stylus

(* The items' windows are counted from the bottom of the stack.  It is       *)
(* remembered in early for which items the save comes too early: those in the *)
(* middle of a drag, which are written where they are, and those of the       *)
(* layout that are still to come, which are not written at all.              *)
Saved(a, dragged) ==
  [a EXCEPT !.timer = FALSE, !.raised = {},
        !.early = dragged \union {i \in Applets \ Children(a) : a.layout[i] # None},
        !.index = [i \in Applets |-> IF i \in Children(a) THEN At(a.stack, i) - 1 ELSE @[i]],
        !.file = [i \in Applets |->
                    IF i \in Children(a) THEN [rect |-> a.rect[i], index |-> At(a.stack, i) - 1]
                                         ELSE None]]

Dragged(u) == IF u.state = "moving" THEN {u.item} ELSE {}

SaveTimeout == home.timer /\ home' = Saved(home, Dragged(stylus)) /\ UNCHANGED stylus

(* The desktop ends, in the middle of a save perhaps, and starts again. *)
RestartHome ==
  /\ \/ home' = Load(home.file)
     \/ home.timer /\ home' = Load(Torn)
  /\ stylus' = Up
-----------------------------------------------------------------------------
(* The stylus on an item. *)
PressItem(i) ==
  /\ stylus.item = None /\ i \in Children(home)
  /\ stylus' = [Up EXCEPT !.item = i, !.timer = TRUE]
  /\ UNCHANGED home

PressHandle(i) ==
  /\ stylus.item = None /\ i \in Children(home)
  /\ stylus' = [Up EXCEPT !.item = i, !.state = "resizing"]
  /\ UNCHANGED home

(* A second press at once, and the click it makes double: both are handed on. *)
DoubleClick ==
  /\ stylus.item # None /\ stylus.timer
  /\ stylus' = [stylus EXCEPT !.timer = FALSE, !.told = @ + 2]
  /\ UNCHANGED home

(* A long press is handed on to what is below. *)
ClickTimeout ==
  /\ stylus.timer
  /\ stylus' = [stylus EXCEPT !.timer = FALSE, !.told = @ + 1]
  /\ UNCHANGED home

StartMoving(a, i) ==
  [RaiseItem(a, i) EXCEPT !.before[i] = a.rect[i], !.raised = @ \union {i}]

Clamped(p, r) ==
  LET least(a, b) == IF a < b THEN a ELSE b
      most(a, b) == IF a < b THEN b ELSE a
  IN [x |-> least(p.x, Width - r.w), y |-> least(p.y, Height - r.h)]

MotionNotify ==
  \E i \in {stylus.item} \ {None} :
    \/ /\ stylus.timer \/ stylus.state = "moving"
       /\ \E p \in Spots[i] :
            LET a == IF stylus.timer THEN StartMoving(home, i) ELSE home
            IN home' = [a EXCEPT !.rect[i] = Rect(Clamped(p, @), @)]
       /\ stylus' = [stylus EXCEPT !.timer = FALSE, !.far = TRUE, !.state = "moving"]
    \/ /\ stylus.state = "resizing"
       /\ \E w, h \in Lengths[i] :
            /\ home.rect[i].x + w <= Width /\ home.rect[i].y + h <= Height
            /\ home' = [home EXCEPT !.request[i] = [w |-> w, h |-> h]]
       /\ UNCHANGED stylus

(* What was requested is allocated when the main loop is idle. *)
Allocate(i) ==
  /\ i \in Children(home)
  /\ home.rect[i] # Rect(home.rect[i], home.request[i])
  /\ home' = [home EXCEPT !.rect[i] = Rect(@, home.request[i])]
  /\ UNCHANGED stylus

(* The rectangle is compared with the one before the last move of the item. *)
(* Mutant: what a drag changed is not announced. *)
EndUnsaved(a, i) == a

EndChange(a, i) == IF a.before[i] # a.rect[i] THEN LayoutChanged(a) ELSE a

Release ==
  \E i \in {stylus.item} \ {None} :
    LET a == [RaiseItem(home, i) EXCEPT !.raised = @ \union {i}]
    IN /\ home' = IF stylus.state # "normal" THEN EndChange(a, i) ELSE a
       /\ stylus' = Up
-----------------------------------------------------------------------------
(* The home view goes behind another window, or the display off, and back. *)
Tell(a, behind) == [a EXCEPT !.paused = IF behind THEN Children(a) ELSE {}]

Background ==
  LET a == [home EXCEPT !.background = ~@]
  IN home' = (IF home.off THEN a ELSE Tell(a, a.background)) /\ UNCHANGED stylus

ScreenOff ==
  LET a == [home EXCEPT !.off = ~@]
  IN home' = (IF home.background THEN a ELSE Tell(a, a.off)) /\ UNCHANGED stylus

HomeNext ==
  \/ \E i \in Applets : AddApplet(i) \/ RemoveApplet(i) \/ PressItem(i) \/ PressHandle(i)
                        \/ Allocate(i)
  \/ SaveTimeout \/ RestartHome
  \/ DoubleClick \/ ClickTimeout \/ MotionNotify \/ Release
  \/ Background \/ ScreenOff

HomeSpec == HomeInit /\ [][HomeNext]_homeVars
-----------------------------------------------------------------------------
Area == [x |-> 0, y |-> 0, w |-> Width, h |-> Height]

Stacked(a) == Entries(a.stack)

HomeTypeOK ==
  /\ home.children \in Seq(Applets) /\ Once(home.children)
  /\ home.stack \in Seq(Applets) /\ Once(home.stack) /\ Stacked(home) = Children(home)
  /\ \A i \in Applets : home.rect[i] # None <=> i \in Children(home)
  /\ stylus.item \in Children(home) \union {None}

(* Where an applet is and where the file says it is differ only until the  *)
(* timeout that saves, while the applet is being dragged, or for good when *)
(* the last save came in the middle of a drag that ended where it began,   *)
(* or before a remembered applet came back to its place.                   *)
PlacesSaved ==
  \A i \in Children(home) \ Dragged(stylus) :
    \/ home.timer
    \/ i \in home.early /\ (SameSpot(home.rect[i], home.before[i]) \/ SameSpot(home.rect[i], home.layout[i]))
    \/ home.file # Torn /\ home.file[i] # None /\ SameSpot(home.rect[i], home.file[i].rect)

(* Whatever comes and goes, items lie in the order of their stack indexes  *)
(* but for those the user has raised since.                                *)
StackByIndex ==
  \A m, n \in DOMAIN home.stack :
    m < n /\ {home.stack[m], home.stack[n]} \intersect home.raised = {} =>
      home.index[home.stack[m]] <= home.index[home.stack[n]]

(* An item that has been moved or resized was not told of a press, and one *)
(* that will be told of a release was.                                     *)
PressesPaired ==
  stylus.item # None =>
    (stylus.told > 0 <=> ~stylus.timer /\ ~stylus.far /\ stylus.state # "resizing")

(* Items know whether they can be seen, but for those that came when they  *)
(* could not.                                                              *)
PausedTogether ==
  \A i \in Children(home) \ home.late :
    i \in home.paused <=> home.background \/ home.off

(* What the home view keeps of its applets is in step: places with the     *)
(* file, the stack with the indexes, presses with releases.                *)
HomeInv ==
  /\ HomeTypeOK
  /\ PlacesSaved
  /\ StackByIndex
  /\ PressesPaired
  /\ PausedTogether

Free(a, r) == Within(r, Area) /\ \A j \in Children(a) : ~Meet(r, Padded(a.rect[j]))

(* A new applet gets a free place if there is one; only a rectangle that   *)
(* another applet covers as a whole is taken for free by mistake.          *)
PlacedFree ==
  [][\A i \in Children(home') \ Children(home) :
       LET size == Natural[i]
           r == home'.rect[i]
       IN /\ ~(home.loaded /\ home.layout[i] # None)
          /\ \E x \in 0 .. Width - 1, y \in 0 .. Height - 1 :
               Free(home, Rect([x |-> x, y |-> y], size))
          => \A j \in Children(home) :
               Meet(r, Padded(home.rect[j])) =>
                 \E q \in Fitting(home, size) :
                   SameSpot(r, q) /\ Within(q, Padded(home.rect[j]))]_home
=============================================================================
