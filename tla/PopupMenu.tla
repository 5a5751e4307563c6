------------------------------ MODULE PopupMenu ------------------------------
(***************************************************************************)
(* The menus in the panes of a popup window: items one below the other in  *)
(* a viewport, with two buttons that scroll it as soon as the items need   *)
(* more than the height there is.  A button scrolls once when it is pressed *)
(* and then, by a timer, for as long as it is held.  GTK+ places the items  *)
(* later than the list changes.                                            *)
(***************************************************************************)
EXTENDS Integers, Sequences, FiniteSets, NullPointer

CONSTANTS
  MenuItems, Separators, \* menu items, and those that cannot be selected
  ItemHeight,            \* priv->item_height; a separator is 1 high
  MaxHeight,             \* of the parent window, or the screen
  ButtonsHeight,         \* item_height + 9: what the buttons take of it
  MaxStrays              \* bound of the timers of one kind nobody can remove

ASSUME PopupMenuAssumption ==
  /\ Separators \subseteq MenuItems
  /\ {ItemHeight, MaxHeight} \subseteq Nat \ {0} /\ {ButtonsHeight, MaxStrays} \subseteq Nat
  /\ ButtonsHeight < MaxHeight
  /\ None \notin MenuItems \union {"up", "down", "initial", "step"}

VARIABLE popupMenu

(* The height of the items of a set. *)
ItemsHeight(set) ==
  ItemHeight * Cardinality(set \ Separators) + Cardinality(set \intersect Separators)

PopupMenuTypeOK ==
  /\ popupMenu \in
       [items : Seq(MenuItems),                            \* top down
        selected : (MenuItems \ Separators) \union {None}, \* selected_item
        highlighted : SUBSET MenuItems,                    \* items in the selected state
        controls : BOOLEAN, pending : BOOLEAN,             \* controls_on, a queued resize
        held : {"up", "down", None},                       \* the button under the stylus
        dir : {-1, 1},                                     \* scroll_dir
        timer : {"initial", "step", None},                 \* scroll_id
        strays : [{"initial", "step"} -> Nat],             \* timers it has forgotten
        crossed : BOOLEAN,                                 \* see Crossed
        request : Nat, page : Nat, upper : Nat, value : Int,
        top : [MenuItems -> Nat \union {-1}]]              \* allocation.y
  /\ \A j, k \in DOMAIN popupMenu.items : popupMenu.items[j] = popupMenu.items[k] => j = k

PopupMenuInit ==
  popupMenu = [items |-> <<>>, selected |-> None, highlighted |-> {}, controls |-> FALSE,
               pending |-> FALSE, held |-> None, dir |-> 1, timer |-> None,
               strays |-> [kind \in {"initial", "step"} |-> 0], crossed |-> FALSE,
               request |-> 0,                        \* the height asked for the viewport,
               page |-> 0, upper |-> 0, value |-> 0, \* its adjustment,
               top |-> [i \in MenuItems |-> -1]]     \* no item is placed

(* update_scroll_buttons: a button at its limit is insensitive, and does not  *)
(* tell when it is let go.                                                   *)
AtEnd(m) == IF m.dir = 1 THEN m.value >= m.upper - m.page ELSE m.value <= 0
UpdateScrollButtons(m) ==
  [m EXCEPT !.held = IF \/ @ = "up" /\ m.value <= 0
                        \/ @ = "down" /\ m.value >= m.upper - m.page THEN None ELSE @]
ScrollTo(m, v) == UpdateScrollButtons([m EXCEPT !.value = v])

(* Past the limit it stops there: the callback returns FALSE. *)
ScrollStep(m) ==
  LET v == m.value + (ItemHeight + 1) * m.dir
  IN IF 0 <= v /\ v <= m.upper - m.page
     THEN [menu |-> ScrollTo(m, v), again |-> TRUE]
     ELSE [menu |-> ScrollTo(m, IF m.dir = 1 THEN m.upper - m.page ELSE 0), again |-> FALSE]

(* An item that GTK+ has not placed yet is 1 high, above the others. *)
Placed(m) == {i \in MenuItems : m.top[i] # -1}
HeightOf(m, i) == IF i \in Placed(m) THEN ItemHeight ELSE 1

CheckScrollItem(m) ==
  LET y == m.top[m.selected]
      below == y + HeightOf(m, m.selected) - m.page
  IN IF m.upper = 0 THEN m
     ELSE IF y < m.value THEN ScrollTo(m, y)
     ELSE IF below > m.value THEN ScrollTo(m, below) ELSE m

Mark(m, i) == [m EXCEPT !.selected = i, !.highlighted = (@ \ {m.selected}) \union {i}]
SelectItem(m, i) == IF i \in Separators THEN m ELSE CheckScrollItem(Mark(m, i))

(* gtk_container_remove alone, of the items gone, which leaves the list left: *)
(* the menu goes on with an item it does not have.                           *)
BoxRemoveUnseen(m, gone, left) ==
  [m EXCEPT !.items = left, !.top = [i \in MenuItems |-> IF i \in gone THEN -1 ELSE @[i]]]

(* The menu listens to it and forgets the item that was selected. *)
BoxRemove(m, gone, left) ==
  LET without == BoxRemoveUnseen(m, gone, left)
  IN IF m.selected \notin gone THEN without
     ELSE [without EXCEPT !.selected = None, !.highlighted = @ \ {m.selected}]

ItemsIn(s) == {s[k] : k \in DOMAIN s}

(* After every change of the list: with buttons, or as high as its items. *)
ParentSize(m) ==
  LET height == ItemsHeight(ItemsIn(m.items))
      large == height > MaxHeight
  IN [m EXCEPT !.pending = TRUE, !.controls = large,
               !.request = IF large THEN MaxHeight - ButtonsHeight ELSE height,
               !.held = IF large THEN @ ELSE None]

-----------------------------------------------------------------------------
InMenu == ItemsIn(popupMenu.items)

(* A button that becomes insensitive at its limit does not report its release, *)
(* and its timer is left.  It is remembered here that something else happened  *)
(* under a timer: any change of the list that adds to it, and what moves the   *)
(* menu when no button is held.                                               *)
Crossed(m) == [m EXCEPT !.crossed = @ \/ m.timer # None]
CrossedAlone(m) == [m EXCEPT !.crossed = @ \/ (m.timer # None /\ m.held = None)]

Selectable == {k \in DOMAIN popupMenu.items : popupMenu.items[k] \notin Separators}
Above(i) ==
  {popupMenu.items[j] : j \in {k \in DOMAIN popupMenu.items :
                                \E n \in DOMAIN popupMenu.items : popupMenu.items[n] = i /\ k < n}}

(* real_add_item packs from the end: the last item added is on top. *)
AddMenuItem(i) ==
  /\ i \notin InMenu
  /\ popupMenu' = ParentSize([Crossed(popupMenu) EXCEPT !.items = <<i>> \o @])

RemoveMenuItem(i) ==
  \E k \in DOMAIN popupMenu.items :
    /\ popupMenu.items[k] = i
    /\ popupMenu' = ParentSize(BoxRemove(CrossedAlone(popupMenu), {i},
                      SubSeq(popupMenu.items, 1, k - 1)
                        \o SubSeq(popupMenu.items, k + 1, Len(popupMenu.items))))

(* The menu is made anew: the item of the active window is selected before    *)
(* it is in the menu, and before the old items go.                           *)
ReplaceItems(i, items) ==
  /\ ItemsIn(items) \intersect InMenu = {} /\ i \in ItemsIn(items) \union {None}
  /\ LET m == Crossed(popupMenu)
         chosen == IF i = None THEN m ELSE SelectItem(m, i)
     IN popupMenu' = ParentSize(BoxRemove(chosen, InMenu, items))

Layout ==
  LET page == popupMenu.request
      height == ItemsHeight(InMenu)
      upper == IF height > page THEN height ELSE page
      placed == [popupMenu EXCEPT !.pending = FALSE, !.page = page, !.upper = upper,
                   !.top = [i \in MenuItems |-> IF i \in InMenu THEN ItemsHeight(Above(i)) ELSE -1]]
  IN /\ popupMenu.pending
     /\ popupMenu' = ScrollTo(placed, IF popupMenu.value < 0 THEN 0
                                      ELSE IF popupMenu.value > upper - page THEN upper - page
                                      ELSE popupMenu.value)

-----------------------------------------------------------------------------
(* A press forgets a timer that is left, which then runs beside the new one. *)
Forgotten(m) ==
  IF m.timer = None THEN m.strays ELSE [m.strays EXCEPT ![m.timer] = @ + 1]

ScrollStart(button) ==
  /\ popupMenu.controls /\ popupMenu.held = None
  /\ popupMenu.timer # None => popupMenu.strays[popupMenu.timer] < MaxStrays
  /\ LET pressed == [popupMenu EXCEPT !.held = button, !.dir = IF button = "up" THEN -1 ELSE 1,
                        !.strays = Forgotten(popupMenu),
                        !.crossed = popupMenu.pending \/ popupMenu.timer # None
                                      \/ popupMenu.strays # [kind \in {"initial", "step"} |-> 0]]
     IN /\ UpdateScrollButtons(pressed).held = button      \* it is sensitive
        /\ popupMenu' = [ScrollStep(pressed).menu EXCEPT !.timer = "initial"]

ScrollInitialStep ==
  popupMenu.timer = "initial" /\ popupMenu' = [popupMenu EXCEPT !.timer = "step"]

(* A forgotten one takes the place of the timer that is known. *)
StrayInitialStep ==
  /\ popupMenu.strays["initial"] > 0
  /\ popupMenu' = [popupMenu EXCEPT !.timer = "step", !.strays["initial"] = @ - 1]

StrayTimeout ==
  LET step == ScrollStep(popupMenu)
  IN /\ popupMenu.strays["step"] > 0
     /\ popupMenu' = [step.menu EXCEPT !.strays["step"] = IF step.again THEN @ ELSE @ - 1]

ScrollTimeout ==
  LET step == ScrollStep(popupMenu)
  IN /\ popupMenu.timer = "step"
     /\ popupMenu' = [step.menu EXCEPT !.timer = IF step.again THEN @ ELSE None]

ScrollStop ==
  /\ popupMenu.held # None
  /\ popupMenu' = [popupMenu EXCEPT !.held = None, !.timer = None]

-----------------------------------------------------------------------------
(* The stylus selects what it points at, and does not scroll. *)
PointAt(i) ==
  /\ i \in Placed(popupMenu) \ Separators
  /\ popupMenu.top[i] + ItemHeight > popupMenu.value
  /\ popupMenu.top[i] < popupMenu.value + popupMenu.page
  /\ popupMenu' = Mark(popupMenu, i)

Select(i) == i \in InMenu /\ popupMenu' = SelectItem(CrossedAlone(popupMenu), i)
Deselect ==
  popupMenu' = [popupMenu EXCEPT !.selected = None, !.highlighted = @ \ {popupMenu.selected}]

SelectNearest(places, step) ==
  \E k \in places : /\ \A j \in places : step * k <= step * j
                    /\ popupMenu' = SelectItem(CrossedAlone(popupMenu), popupMenu.items[k])
SelectFirst == SelectNearest(Selectable, 1)
SelectLast == SelectNearest(Selectable, -1)

(* The keys go from one end of the menu to the other. *)
SelectNextPrev(step) ==
  LET further == {k \in Selectable : \E j \in DOMAIN popupMenu.items :
                                      popupMenu.items[j] = popupMenu.selected /\ step * j < step * k}
  IN /\ popupMenu.selected # None
     /\ SelectNearest(IF further = {} THEN Selectable ELSE further, step)

ScrollToSelected ==
  /\ popupMenu.controls /\ popupMenu.selected # None
  /\ popupMenu' = CheckScrollItem(CrossedAlone(popupMenu))

PopupMenuNext ==
  \/ \E i \in MenuItems : AddMenuItem(i) \/ RemoveMenuItem(i) \/ Select(i) \/ PointAt(i)
  \/ \E i, j \in MenuItems :
       i # j /\ (ReplaceItems(i, <<i, j>>) \/ ReplaceItems(None, <<i, j>>))
  \/ \E button \in {"up", "down"} : ScrollStart(button)
  \/ \E step \in {-1, 1} : SelectNextPrev(step)
  \/ SelectFirst \/ SelectLast \/ ScrollToSelected \/ Deselect \/ Layout
  \/ ScrollInitialStep \/ ScrollTimeout \/ ScrollStop \/ StrayInitialStep \/ StrayTimeout

PopupMenuSpec == PopupMenuInit /\ [][PopupMenuNext]_popupMenu

-----------------------------------------------------------------------------
(* What Return activates is in the menu, and the user sees it selected. *)
SelectedListed ==
  /\ popupMenu.selected \in InMenu \union {None}
  /\ popupMenu.highlighted = {popupMenu.selected} \ {None}

(* Selecting, scrolling and changes of the list never leave the viewport     *)
(* beside the items, once they are placed, whatever timers are left over.    *)
ScrolledInRange ==
  ~popupMenu.pending => /\ popupMenu.value \in 0 .. popupMenu.upper - popupMenu.page
                        /\ Placed(popupMenu) = InMenu
                        /\ (popupMenu.controls <=> popupMenu.upper > popupMenu.page)

(* Nothing scrolls when no button is held, unless the menu was moved or has   *)
(* grown under a timer: the release is lost when a button becomes insensitive *)
(* under the stylus, but then there is nothing to scroll.  Until then no      *)
(* timer is forgotten either.                                                *)
ScrollEnds ==
  ~popupMenu.crossed =>
    /\ popupMenu.held = None /\ popupMenu.timer # None => AtEnd(popupMenu) \/ ~popupMenu.controls
    /\ \A kind \in {"initial", "step"} : popupMenu.strays[kind] = 0

(* The menu of a popup window, over its list, its selection and its scrolling. *)
PopupMenuInv ==
  /\ PopupMenuTypeOK
  /\ SelectedListed
  /\ ScrolledInRange
  /\ ScrollEnds
=============================================================================
