----------------------------- MODULE PopupWindow -----------------------------
(***************************************************************************)
(* The popup windows of the desktop library: a window with extra panes     *)
(* beside it.  While it is open one of these windows holds the grab of     *)
(* GTK+, which gets all events of the desktop, and the pointer and keyboard *)
(* of the X server.  The grabs move with the pointer and the keys, and     *)
(* closing the window gives them up.                                       *)
(***************************************************************************)
EXTENDS Integers, Sequences, FiniteSets, NullPointer

CONSTANTS
  NPanes,    \* n_extra_panes
  OthersGrab \* another client can hold the pointer when the window is opened

ASSUME PopupAssumption ==
  NPanes \in Nat /\ OthersGrab \in BOOLEAN /\ None \notin -1 .. NPanes

VARIABLE popup

ExtraPanes == 1 .. NPanes
TheWindow == 0      \* the window itself
PopupWindows == ExtraPanes \union {TheWindow}
Transfer == -1      \* the transfer window, outside of the screen

PopupTypeOK ==
  popup \in [open : BOOLEAN, haveGrab : BOOLEAN,        \* open, have_xgrab
             withGrab : ExtraPanes \union {None},       \* pane_with_grab
             shown : SUBSET PopupWindows,
             filled : SUBSET ExtraPanes,                \* panes with items
             grabs : Seq(PopupWindows),
             xgrab : PopupWindows \union {Transfer, None}]

PopupInit ==
  popup = [open |-> FALSE, haveGrab |-> FALSE, withGrab |-> None, shown |-> {},
           filled |-> {}, grabs |-> <<>>, xgrab |-> None]

(* gtk_grab_add, gtk_grab_remove: the first window of the list gets the events. *)
GrabAdd(p, w) ==
  [p EXCEPT !.grabs = IF \E k \in DOMAIN @ : @[k] = w THEN @ ELSE <<w>> \o @]
Released(list, windows) ==
  LET kept == {k \in DOMAIN list : list[k] \notin windows}
      Place(k) == Cardinality({j \in kept : j <= k})
  IN [n \in 1 .. Cardinality(kept) |-> list[CHOOSE k \in kept : Place(k) = n]]
GrabRemove(p, w) == [p EXCEPT !.grabs = Released(@, {w})]

(* The X server refuses windows that are not on the screen.  A grab that is  *)
(* refused leaves the one before as it is.                                  *)
GrabOnWindow(p, w) ==
  [p EXCEPT !.xgrab = IF w \in p.shown \union {Transfer} THEN w ELSE @]

(* A window that is hidden gives up what the X server granted it. *)
HideWindows(p, windows) ==
  [p EXCEPT !.shown = @ \ windows, !.xgrab = IF @ \in windows THEN None ELSE @]

GrabMovesTo(p, from, w) ==
  [GrabAdd(GrabOnWindow(GrabRemove(p, from), w), w) EXCEPT
     !.withGrab = IF w = TheWindow THEN None ELSE w, !.haveGrab = (w = TheWindow)]

(* What the branch for panes is for: without it only the window's grab ends. *)
PopdownOfTheWindow(p) ==
  IF ~p.open THEN p
  ELSE [GrabRemove(HideWindows(p, PopupWindows), TheWindow) EXCEPT !.open = FALSE, !.xgrab = None]

PopdownAll(p) ==
  IF ~p.open THEN p
  ELSE LET hidden == HideWindows(p, PopupWindows)
           free == [hidden EXCEPT
                      !.grabs = Released(@, IF p.haveGrab THEN {TheWindow} ELSE ExtraPanes)]
       IN [free EXCEPT !.open = FALSE, !.xgrab = IF @ = Transfer THEN None ELSE @]

JumpToPane(p, w) ==
  LET holder == IF p.haveGrab THEN TheWindow ELSE p.withGrab
  IN IF TheWindow \notin p.shown \/ holder = w THEN p ELSE GrabMovesTo(p, holder, w)

-----------------------------------------------------------------------------
(* The button or a key of the panel opens the window: its callers do so only *)
(* while it is closed.                                                      *)
PopupOpens ==
  /\ ~popup.open
  /\ \E refused \in {FALSE, OthersGrab} :
       LET asked == IF refused THEN popup
                    ELSE [GrabOnWindow(popup, Transfer) EXCEPT !.haveGrab = TRUE]
           there == [asked EXCEPT !.shown = {TheWindow} \union popup.filled]
           granted == IF refused THEN there ELSE GrabOnWindow(there, TheWindow)
       IN popup' = [GrabAdd(granted, TheWindow) EXCEPT !.open = TRUE]

(* An item is activated, a key cancels, the button of the panel is released. *)
PopupCloses == popup' = PopdownAll(popup)

(* The window has the grab and the pointer moves onto a pane, also onto the  *)
(* place of one that is hidden.                                             *)
PopupMotion(w) ==
  /\ popup.grabs # <<>> /\ Head(popup.grabs) = TheWindow
  /\ popup' = GrabMovesTo(popup, TheWindow, w)

PopupLeave(w) ==
  /\ popup.grabs # <<>> /\ Head(popup.grabs) = TheWindow
  /\ \/ w \in popup.shown /\ popup' = GrabMovesTo(popup, TheWindow, w)
     \/ w \notin popup.shown /\ TheWindow \notin popup.shown /\ popup' = GrabRemove(popup, TheWindow)

(* A pane has the grab and the pointer leaves it. *)
CompositedLeaveNotify(w) ==
  /\ popup.open /\ popup.grabs # <<>> /\ Head(popup.grabs) \in ExtraPanes
  /\ popup' = GrabMovesTo(popup, Head(popup.grabs), w)

(* The window has the grab: a press beside it and beside the first pane. *)
ButtonPress(w) ==
  /\ popup.grabs # <<>> /\ Head(popup.grabs) = TheWindow
  /\ w \notin {TheWindow, 1}
  /\ popup' = PopdownAll(popup)

(* A pane has it.  near: seen from the pane, the pointer is not farther away *)
(* than the window is large, which the code takes for a press in the window. *)
CompositedButtonPress(w, near) ==
  /\ popup.grabs # <<>> /\ Head(popup.grabs) \in ExtraPanes
  /\ w \notin ExtraPanes \/ Head(popup.grabs) \notin popup.shown
  /\ ~(near /\ w # Head(popup.grabs))
  /\ popup' = PopdownAll(popup)

JumpTo(w) == popup.open /\ popup' = JumpToPane(popup, w)

(* A pane that has got items is shown when the window is opened again; one   *)
(* that has lost them is hidden, and the window gets the grab back.          *)
ItemsCome(w) == popup' = [popup EXCEPT !.filled = @ \union {w}]

ItemsGo(w) ==
  LET without == [HideWindows(popup, {w}) EXCEPT !.filled = @ \ {w}]
  IN popup' = IF popup.open THEN JumpToPane(without, TheWindow) ELSE without

PopupNext ==
  \/ PopupOpens \/ PopupCloses
  \/ \E w \in ExtraPanes : PopupMotion(w) \/ PopupLeave(w) \/ ItemsCome(w) \/ ItemsGo(w)
  \/ \E w \in PopupWindows : CompositedLeaveNotify(w) \/ JumpTo(w)
  \/ \E w \in PopupWindows \union {None} :
       ButtonPress(w) \/ \E near \in BOOLEAN : CompositedButtonPress(w, near)

PopupSpec == PopupInit /\ [][PopupNext]_popup

-----------------------------------------------------------------------------
(* While the window is open just one of its windows has the grab of GTK+,   *)
(* the one that the fields name, or closing it would leave another's behind. *)
OneGrab ==
  popup.open => popup.grabs = <<IF popup.haveGrab THEN TheWindow ELSE popup.withGrab>>

(* Once it is closed the desktop gets its events again. *)
ClosedFree == ~popup.open => popup.grabs = <<>> /\ popup.xgrab = None

(* Keys and the pointer are never lost to a window that is not there.        *)
GrabSeen == popup.open => popup.xgrab \in popup.shown

(* The grabs of a popup window: they follow the pointer and end with it. *)
PopupInv ==
  /\ PopupTypeOK
  /\ OneGrab
  /\ ClosedFree
  /\ GrabSeen
=============================================================================
