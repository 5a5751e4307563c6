----------------------------- MODULE MatchboxWm -----------------------------
(***************************************************************************)
(* The client life cycle of the Matchbox window manager: how map and unmap *)
(* requests, iconifying, key presses, mouse clicks and client messages     *)
(* change the stacking order, the visible main client, the input focus and *)
(* the flags of the clients.                                               *)
(*                                                                         *)
(* The window manager handles one X event at a time, so an action is a     *)
(* whole handler.  The handlers call each other through the methods of the *)
(* clients; an operator takes the state before a call to the state after   *)
(* it.                                                                     *)
(***************************************************************************)
EXTENDS StackOrder, Integers, FiniteSets, Lists

CONSTANTS
  Type,         \* what a window is: app, dialog, desktop or panel
  Group,        \* the window group in its WM hints, a window or None
  Modal,        \* dialogs with _NET_WM_STATE_MODAL
  Urgent,       \* dialogs with the urgency hint
  NoInput,      \* windows with the input hint off
  StartIconic,  \* windows whose initial state is iconic
  StartQuiet,   \* windows mapped with _NET_WM_USER_TIME 0
  Unmanaged,    \* a window that is never managed, such as the root
  Hints,        \* the WM_TRANSIENT_FOR values clients use
  Retarget,     \* windows that change WM_TRANSIENT_FOR once they are managed
  Restate,      \* windows that change their _NET_WM_STATE
  MaxModals,    \* bound of n_modals_present, either way
  MaxCalls      \* a handler that makes more calls in each other does not return

ASSUME WmAssumption ==
  /\ Type \in [Clients -> {"app", "dialog", "desktop", "panel"}]
  /\ Group \in [Clients -> Clients \union {None}]
  /\ Modal \union Urgent \subseteq {c \in Clients : Type[c] = "dialog"}
  /\ NoInput \union StartIconic \union StartQuiet \subseteq Clients
  /\ Retarget \union Restate \subseteq Clients
  /\ Unmanaged \notin Clients \union {None}
  /\ Hints \in [Clients -> SUBSET (Clients \union {None, Unmanaged})]
  /\ MaxModals \in Nat /\ MaxCalls \in Nat
  /\ IsFiniteSet(Clients)

VARIABLE wm

(* Fields of Wm, then per client the fields trans and next_focused_client, *)
(* then the flags and states of the clients as sets.                       *)
WmState ==
  [order : Seq(Clients),     \* the stack from bottom to top
   focus : Pointer,          \* focused_client
   top : Pointer,            \* stack_top_app
   desktop : Pointer,        \* client_desktop
   raised : BOOLEAN,         \* DESKTOP_RAISED_FLAG
   modals : Int,             \* n_modals_present
   hung : BOOLEAN,           \* the handler never returns
   trans : [Clients -> Pointer],
   next : [Clients -> Pointer],
   mapped : SUBSET Clients,
   minimized : SUBSET Clients,   \* CLIENT_IS_MINIMIZED
   newForDesktop : SUBSET Clients, \* CLIENT_NEW_FOR_DESKTOP
   quiet : SUBSET Clients,       \* CLIENT_NO_FOCUS_ON_MAP
   above : SUBSET Clients,       \* CLIENT_HAS_ABOVE_STATE
   full : SUBSET Clients,        \* CLIENT_FULLSCREEN_FLAG
   docked : SUBSET Clients]      \* panels whose WM_STATE is Normal

Managed(s) == Members(s.order)
IsMain(c) == Type[c] \in {"app", "desktop"}
IsDialog(c) == Type[c] = "dialog"
Mapped(s, T) == {c \in Managed(s) \intersect s.mapped : Type[c] \in T}

-----------------------------------------------------------------------------
(* Looking at the stack and at the transiency tree.                        *)

Highest(s, S) == CHOOSE c \in S : \A d \in S : Place(s.order, d) <= Place(s.order, c)
Lowest(s, S) == CHOOSE c \in S : \A d \in S : Place(s.order, c) <= Place(s.order, d)
TopOf(s) == s.order[Len(s.order)]
(* stack_get_below: the search goes round the stack and ends at c. *)
GetBelow(s, c) ==
  LET apps == Mapped(s, {"app"}) \ {c}
      lower == {d \in apps : Place(s.order, d) < Place(s.order, c)}
  IN IF lower # {} THEN Highest(s, lower) ELSE IF apps # {} THEN Highest(s, apps) ELSE c

(* wm_get_visible_main_client *)
Visible(s) == IF s.raised THEN s.desktop ELSE s.top

(* What f leads to from c, step by step *)
Path(f, c) ==
  LET path[n \in 0 .. Cardinality(Clients)] == IF n = 0 THEN c ELSE f[path[n - 1]]
  IN path
LastOf(f, c) == Path(f, c)[Cardinality(Clients)]

(* Following trans to the end, which the handlers do in many places. *)
Up(s, F) == [p \in Pointer |-> IF p \in F /\ s.trans[p] # None THEN s.trans[p] ELSE p]
Line(s, c, F) == {Path(Up(s, F), c)[n] : n \in 0 .. Cardinality(Clients)}
Root(s, c) == LastOf(Up(s, Clients), c)
Ancestors(s, c) == Line(s, c, Clients) \ {c}

Children(s, c, F) == {p \in Managed(s) \intersect F : s.trans[p] = c}
Family(s, c, F) ==
  {p \in (Managed(s) \intersect F) \ {c} : c \in Line(s, p, Managed(s) \intersect F)}

(* Always to the highest transient *)
Down(s, F) ==
  [p \in Clients |-> IF Children(s, p, F) = {} THEN p ELSE Highest(s, Children(s, p, F))]

(* client_get_highest_transient, looking at clients of F only: the         *)
(* transient of c with most transients of its own, the higher of two equal *)
(* ones; from there on always the highest one, as the depth is not reset.  *)
HighestTransient(s, c, F) ==
  LET kids == Children(s, c, F)
      size(k) == Cardinality(Family(s, k, F))
  IN IF kids = {} THEN c
     ELSE LastOf(Down(s, F), Highest(s, {k \in kids : \A j \in kids : size(j) <= size(k)}))

(* client_get_transient_list: for None the dialogs that belong to no main  *)
(* client, for a main client those of its window group too.                *)
TransientFor(s, p, c) ==
  IF c = None THEN IsDialog(Root(s, p))
  ELSE \/ c \in Ancestors(s, p)
       \/ /\ s.trans[p] # None /\ Group[c] # None /\ IsMain(c)
          /\ IsMain(Root(s, p)) /\ Group[Root(s, p)] = Group[c]

Transients(s, c, F) == {p \in F \ {c} : Type[p] = "dialog" /\ TransientFor(s, p, c)}

-----------------------------------------------------------------------------
(* Moving clients in the stack.                                            *)

Above(s, c) == IF c = TopOf(s) THEN None ELSE s.order[Place(s.order, c) + 1]

Below(s, c) ==
  IF Place(s.order, c) = 1 THEN None ELSE s.order[Place(s.order, c) - 1]

Restack(s, c, b) == [s EXCEPT !.order = MoveAbove(@, c, b)]
Raise(s, c) == Restack(s, c, TopOf(s))

Others(q, S) == Among(q, Members(q) \ S)
Insert(rest, q, k) ==
  [n \in 1 .. Len(rest) + Len(q) |->
     IF n <= k THEN rest[n] ELSE IF n <= k + Len(q) THEN q[n - k] ELSE rest[n - Len(q)]]
Reversed(q) == [n \in 1 .. Len(q) |-> q[Len(q) + 1 - n]]

(* The loop that moves the clients of S, in their order, each above the    *)
(* one moved before and the first above b.                                 *)
Regroup(s, S, b) ==
  [s EXCEPT !.order = Insert(Others(@, S), Among(@, S), Place(Others(@, S), b))]

SetToTop(s, S) ==
  [s EXCEPT !.order = Insert(Others(@, S), Among(@, S), Len(Others(@, S)))]

(* stack_move_transients_to_top *)
TransientsToTop(s, c, F) == IF F = {} THEN s ELSE SetToTop(s, Transients(s, c, F))

(* Mutant: the panels go on top of everything. *)
PanelsOnTop(s, b) == SetToTop(s, Mapped(s, {"panel"}))

(* stack_move_type_above_client for panels: each goes directly above b, so *)
(* their order is reversed.                                                *)
PanelsAbove(s, b) ==
  LET panels == Mapped(s, {"panel"})
  IN [s EXCEPT !.order = Insert(Others(@, panels), Reversed(Among(@, panels)),
                                Place(Others(@, panels), b))]

(* Mutant: the dialogs of t itself are left where they are. *)
StackRootDialogs(s, t) ==
  IF t = None THEN s
  ELSE LET roots == TransientsToTop(TransientsToTop(s, None, Clients), None, s.above)
       IN TransientsToTop(roots, None, Urgent)

(* Mutant: dialogs that belong to no main client are left out. *)
StackOwnDialogs(s, t) ==
  IF t = None THEN s ELSE TransientsToTop(TransientsToTop(s, t, Clients), t, s.above)

(* wm_stack_dialogs_for_transient *)
StackDialogs(s, t) ==
  IF t = None THEN s
  ELSE LET own == TransientsToTop(TransientsToTop(s, t, Clients), t, s.above)
           roots == TransientsToTop(TransientsToTop(own, None, Clients), None, s.above)
       IN TransientsToTop(roots, None, Urgent)

-----------------------------------------------------------------------------
(* client_set_focus.  The X errors of XSetInputFocus arrive after the trap *)
(* is removed, so focused_client is c whatever the state of its window.    *)
SetFocus(s, c) ==
  LET old == s.focus
      linked == \/ Root(s, old) = Root(s, c)
                \/ IsDialog(old) /\ IsDialog(c) /\ s.trans[c] = None
  IN IF c = None \/ c \in NoInput \/ c = old THEN s
     ELSE [s EXCEPT !.focus = c,
                    !.next[c] = IF old # None /\ linked THEN old ELSE @]

(* main_client_hide *)
MainHide(s, c) ==
  IF /\ s.focus \notin {c, None}
     /\ IsDialog(s.focus)
     /\ s.trans[s.focus] # None
  THEN [s EXCEPT !.next[c] = s.focus]
  ELSE [s EXCEPT !.next[c] = None, !.focus = IF @ = c THEN None ELSE @]

-----------------------------------------------------------------------------
(* Showing a client: its show method.                                      *)

(* The loops "stack_enumerate (w, p) if (p->trans == c) p->method (p)": a   *)
(* call is the rest of such a loop from p on.                               *)
Sound(s) ==
  /\ Distinct(s.order) /\ s.mapped \subseteq Managed(s)
  /\ s.top # None => s.top \in Managed(s) /\ Type[s.top] = "app"
  /\ s.desktop # None => s.desktop \in Managed(s) /\ Type[s.desktop] = "desktop"
  /\ \A c \in Clients : s.trans[c] \in Managed(s) \union {None}

Calls ==
  {x \in [method : {"show", "iconize"}, s : WmState, c : Clients, p : Pointer] :
     Sound(x.s) /\ x.p \in Managed(x.s) \union {None}}

EachTransient(call, s, c, method) ==
  IF Children(s, c, Clients) = {} THEN s
  ELSE call[[method |-> method, s |-> s, c |-> c, p |-> s.order[1]]]

(* Mutant: the transients stay minimised. *)
RestoreAlone(call, s, c) == IF c \in s.mapped THEN s ELSE [s EXCEPT !.minimized = @ \ {c}]

(* Undoing the iconic state in main_client_show and dialog_client_show. *)
Restore(call, s, c) ==
  IF c \in s.mapped \/ c \notin s.minimized THEN s
  ELSE EachTransient(call, [s EXCEPT !.minimized = @ \ {c}], c, "show")

(* A client not to be focused goes below the one visible before, v. *)
PlaceQuiet(s, c, v) ==
  IF c \in s.quiet \ s.mapped /\ v # None
  THEN [Restack(s, c, Below(s, v)) EXCEPT !.quiet = @ \ {c}]
  ELSE [s EXCEPT !.quiet = @ \ (IF c \in s.mapped THEN {} ELSE {c})]

(* main_client_show *)
MainShow(call, s, c) ==
  LET v == Visible(s)
      flagged == [s EXCEPT !.newForDesktop = IF s.raised THEN @ \union {c}
                                             ELSE IF v # c THEN @ \ {c} ELSE @]
  IN [PlaceQuiet(Restore(call, Raise(flagged, c), c), c, v) EXCEPT !.mapped = @ \union {c}]

(* The place of a transient dialog in dialog_client_show: above the        *)
(* highest other one of its main client, or right above the visible client *)
(* if that is of the same group.                                           *)
PlaceDialog(s, c) ==
  LET r == Root(s, c)
      v == Visible(s)
      raised == Restack(s, c, HighestTransient(s, r, Clients \ {c}))
  IN IF /\ ~IsDialog(s.trans[c]) /\ IsMain(r) /\ Group[r] # None
        /\ v \notin {None, r} /\ Group[v] = Group[r]
     THEN Restack(raised, c, v)
     ELSE raised

(* A modal dialog that is not minimised any more is counted again. *)
WithModal(s, restored, c) ==
  IF c \in Modal /\ c \in s.minimized /\ c \notin s.mapped
  THEN [restored EXCEPT !.modals = @ + 1]
  ELSE restored

(* The "insurance" at the end of dialog_client_show *)
RaiseFlagged(s) ==
  LET own == IF Visible(s) = None THEN s ELSE TransientsToTop(s, Visible(s), s.above)
  IN TransientsToTop(TransientsToTop(own, None, s.above), None, Urgent)

(* Its moves: to its place, then its transients above it. *)
DialogMoves(s, c) ==
  LET placed == IF s.trans[c] = None THEN Raise(s, c) ELSE PlaceDialog(s, c)
  IN RaiseFlagged(Regroup(placed, Transients(placed, c, Clients), c))

(* dialog_client_show *)
DialogShow(call, s, c) ==
  [DialogMoves(WithModal(s, Restore(call, s, c), c), c) EXCEPT !.mapped = @ \union {c}]

(* Mutant: the desktop is mapped where it is. *)
DesktopMap(s, c) == [s EXCEPT !.mapped = @ \union {c}]

(* desktop_client_show *)
DesktopShow(s, c) == [Raise(s, c) EXCEPT !.mapped = @ \union {c}]

(* dockbar_client_show *)
PanelShow(s, c) ==
  LET mains == Mapped(s, {"app", "desktop"})
      moved == IF mains = {} THEN s ELSE Restack(s, c, Highest(s, mains))
  IN IF c \in s.docked THEN s
     ELSE [moved EXCEPT !.mapped = @ \union {c}, !.docked = @ \union {c}]

Show(call, s, c) ==
  CASE Type[c] = "app" -> MainShow(call, s, c)
    [] Type[c] = "dialog" -> DialogShow(call, s, c)
    [] Type[c] = "desktop" -> DesktopShow(s, c)
    [] Type[c] = "panel" -> PanelShow(s, c)

-----------------------------------------------------------------------------
(* wm_activate_client, after the call of show.                             *)

(* A dialog that belongs to no main client keeps the focus. *)
KeepsFocus(s) ==
  s.focus # None /\ \A p \in {s.focus} \union Ancestors(s, s.focus) : IsDialog(p)

(* The client focused with main client c *)
FocusWith(s, c) ==
  IF KeepsFocus(s) THEN s.focus
  ELSE IF s.next[c] # None /\ IsDialog(s.next[c]) THEN s.next[c]
  ELSE c

(* Panels right above c, then the dialogs *)
BringUp(s, c) == StackDialogs(IF c \in s.full THEN s ELSE PanelsAbove(s, c), c)

MakeVisible(s, c) ==
  IF Type[c] = "app" THEN [s EXCEPT !.raised = FALSE, !.top = c] ELSE [s EXCEPT !.raised = TRUE]

Switch(s, c) == SetFocus(MakeVisible(BringUp(s, c), c), FocusWith(s, c))
ActivateMain(s, c) == Switch(IF s.top \in {None, c} THEN s ELSE MainHide(s, s.top), c)

(* Mutant: stack_top_app is taken for the visible client. *)
OfHiddenTop(s, c) ==
  LET r == Root(s, c)
  IN s.top # None /\ s.trans[c] # None /\ IsMain(r) /\ s.top # r /\ Group[s.top] # Group[c]

(* A dialog of a main client that is not visible is not focused, unless it *)
(* has the window group of the visible one.                                *)
OfHidden(s, c) ==
  LET v == Visible(s)
      r == Root(s, c)
  IN v # None /\ s.trans[c] # None /\ IsMain(r) /\ v # r /\ Group[v] # Group[c]

ActivateDialog(s, c) ==
  LET v == Visible(s)
  IN SetFocus(IF s.raised THEN StackDialogs(s, v)
              ELSE IF v \in s.full THEN s ELSE PanelsAbove(s, v),
              IF OfHidden(s, c) THEN None ELSE c)

AfterShow(s, c) ==
  IF IsMain(c) THEN ActivateMain(s, c)
  ELSE IF IsDialog(c) THEN ActivateDialog(s, c)
  ELSE SetFocus(s, c)

(* wm_activate_client *)
Activate(call, s, c) ==
  IF c = None \/ s.hung THEN s ELSE AfterShow(Show(call, s, c), c)

-----------------------------------------------------------------------------
(* Taking a client away: its iconize and destroy methods.                  *)

(* Mutant: only the last app goes back to the desktop. *)
LastToDesktop(s, c) == GetBelow(s, c) = c

(* What main_client_unmap shows in place of stack_top_app: the desktop, if *)
(* no other app is left or the app was opened from the desktop.            *)
ToDesktop(s, c) == GetBelow(s, c) = c \/ c \in s.newForDesktop

(* Mutant: stack_top_app is kept when the last app goes. *)
KeptTop(s, c) ==
  IF s.top # c \/ GetBelow(s, c) = c THEN s.top
  ELSE IF ToDesktop(s, c) THEN GetBelow(s, c) ELSE None

NewTop(s, c) ==
  IF s.top # c THEN s.top
  ELSE IF ToDesktop(s, c) /\ GetBelow(s, c) # c THEN GetBelow(s, c) ELSE None

(* Mutant: a successor for any app that goes. *)
AnySuccessor(s, c) == IF ToDesktop(s, c) THEN s.desktop ELSE GetBelow(s, c)

Successor(s, c) ==
  IF s.top # c THEN None
  ELSE IF ToDesktop(s, c) THEN s.desktop ELSE GetBelow(s, c)

(* main_client_unmap *)
MainUnmap(call, s, c) ==
  Activate(call, [s EXCEPT !.mapped = @ \ {c},
                     !.focus = IF @ = c THEN None ELSE @,
                     !.top = NewTop(s, c)],
           Successor(s, c))

(* dialog_client_set_focus_next: the focus it sets ...                     *)
PassFocus(s, c) ==
  IF s.focus # c THEN s
  ELSE SetFocus([s EXCEPT !.focus = None], IF s.next[c] = c THEN None ELSE s.next[c])

(* Mutant: any other dialog is a candidate, not only modal ones. *)
FocusAnyDialog(s, c) ==
  LET others == {d \in Managed(s) : IsDialog(d)} \ {c}
  IN IF s.focus # c \/ s.next[c] \notin {None, c} THEN None
     ELSE IF others # {} THEN Highest(s, others) ELSE Visible(s)

(* ... and the client it asks to activate.  When no other modal dialog     *)
(* exists the visible main client has none either.                         *)
FocusCandidate(s, c) ==
  LET modal == (Managed(s) \intersect Modal) \ {c}
  IN IF s.focus # c \/ s.next[c] \notin {None, c} THEN None
     ELSE IF modal # {} THEN Highest(s, modal) ELSE Visible(s)

FocusNext(call, s, c) == Activate(call, PassFocus(s, c), FocusCandidate(s, c))

(* dialog_client_iconize *)
DialogIconize(call, s, c) ==
  LET gone == [s EXCEPT !.minimized = @ \union {c}, !.mapped = @ \ {c},
                        !.modals = IF c \in Modal THEN @ - 1 ELSE @]
  IN FocusNext(call, EachTransient(call, gone, c, "iconize"), c)

UnmapUnlessHung(call, s, c) == IF s.hung THEN s ELSE MainUnmap(call, s, c)

(* main_client_iconize *)
MainIconize(call, s, c) ==
  UnmapUnlessHung(call, EachTransient(call, [s EXCEPT !.minimized = @ \union {c}], c, "iconize"), c)

(* base_client_iconize sets the state before it calls hide, and            *)
(* dockbar_client_hide does nothing in the iconic state.                   *)
Iconize(call, s, c) ==
  CASE Type[c] = "app" -> MainIconize(call, s, c)
    [] Type[c] = "dialog" -> DialogIconize(call, s, c)
    [] Type[c] = "desktop" -> MainHide(s, c)
    [] Type[c] = "panel" -> [s EXCEPT !.docked = @ \ {c}]

(* One turn of the loop at x.p.  The calls move clients while it runs, so   *)
(* it may skip some, meet some twice, and never end.                        *)
Turn(call, x) ==
  LET s == IF x.s.trans[x.p] # x.c THEN x.s
           ELSE IF x.method = "show" THEN Show(call, x.s, x.p) ELSE Iconize(call, x.s, x.p)
  IN call[[x EXCEPT !.s = s, !.p = Above(s, x.p)]]

(* All loops, with at most n turns and calls in each other. *)
Loops[n \in 0 .. MaxCalls] ==
  [x \in Calls |->
     IF x.p = None \/ x.s.hung THEN x.s
     ELSE IF n = 0 THEN [x.s EXCEPT !.hung = TRUE]
     ELSE Turn(Loops[n - 1], x)]

Loop == Loops[MaxCalls]

(* Mutant: clients keep c as what they are transient for. *)
ForgetKeepTrans(s, c) ==
  [s EXCEPT !.order = Without(@, c), !.focus = IF @ = c THEN None ELSE @,
            !.next = [p \in Clients |-> IF p = c THEN None ELSE IF @[p] = c THEN @[c] ELSE @[p]],
            !.mapped = @ \ {c}, !.minimized = @ \ {c}]

(* base_client_destroy *)
Forget(s, c) ==
  [s EXCEPT
     !.order = Without(@, c),
     !.focus = IF @ = c THEN None ELSE @,
     !.trans = [p \in Clients |-> IF p = c THEN None ELSE IF @[p] = c THEN @[c] ELSE @[p]],
     !.next = [p \in Clients |-> IF p = c THEN None ELSE IF @[p] = c THEN @[c] ELSE @[p]],
     !.mapped = @ \ {c}, !.minimized = @ \ {c}, !.newForDesktop = @ \ {c},
     !.quiet = @ \ {c}, !.above = @ \ {c}, !.full = @ \ {c}, !.docked = @ \ {c}]

(* Mutant: n_modals_present is left alone. *)
DialogDestroyUncounted(call, s, c) == Activate(call, Forget(PassFocus(s, c), c), FocusCandidate(s, c))

(* dialog_client_destroy *)
DialogDestroy(call, s, c) ==
  LET gone == [PassFocus(s, c) EXCEPT !.modals = IF c \in Modal THEN @ - 1 ELSE @]
  IN Activate(call, Forget(gone, c), FocusCandidate(s, c))

(* Mutant: the flag for the raised desktop stays. *)
DesktopDestroyRaised(call, s, c) ==
  LET back == Activate(call, [s EXCEPT !.mapped = @ \ {c}], s.top)
  IN [Forget([back EXCEPT !.raised = s.raised], c) EXCEPT !.desktop = None]

(* desktop_client_destroy *)
DesktopDestroy(call, s, c) ==
  LET back == Activate(call, [s EXCEPT !.mapped = @ \ {c}], s.top)
  IN [Forget([back EXCEPT !.raised = FALSE], c) EXCEPT !.desktop = None]

Destroy(call, s, c) ==
  CASE Type[c] = "app" -> Forget(MainUnmap(call, s, c), c)
    [] Type[c] = "dialog" -> DialogDestroy(call, s, c)
    [] Type[c] = "desktop" -> DesktopDestroy(call, s, c)
    [] Type[c] = "panel" -> Forget(s, c)

-----------------------------------------------------------------------------
(* The events.                                                             *)

WmInit ==
  wm = [order |-> <<>>, focus |-> None, top |-> None, desktop |-> None,
        raised |-> FALSE, modals |-> 0, hung |-> FALSE,
        trans |-> [c \in Clients |-> None], next |-> [c \in Clients |-> None],
        mapped |-> {}, minimized |-> {}, newForDesktop |-> {}, quiet |-> {},
        above |-> {}, full |-> {}, docked |-> {}]

Add(S, c, b) == IF b THEN S \union {c} ELSE S

(* The client wm_make_new_client is about to show.  hint is its            *)
(* WM_TRANSIENT_FOR; a window that is not managed stands for the one of    *)
(* the group leader, which may be the new client itself.                   *)
NewClient(s, c, hint) ==
  LET order == PutAbove(s.order, c, None)
      parent == IF hint = None \/ ~IsDialog(c) THEN None
                ELSE IF hint \in Members(order) THEN hint
                ELSE IF Group[c] \in Members(order) THEN Group[c]
                ELSE None
  IN [s EXCEPT !.order = order, !.trans[c] = parent,
               !.desktop = IF Type[c] = "desktop" THEN c ELSE @,
               !.modals = IF c \in Modal THEN @ + 1 ELSE @,
               !.minimized = Add(@, c, c \in StartIconic /\ Type[c] # "panel"),
               !.quiet = Add(@, c, c \in StartQuiet /\ Type[c] # "panel"),
               !.above = Add(@, c, parent \in @)]

(* Pointers to clients that were freed *)
Dangling(s) ==
  ({s.focus, s.top, s.desktop}
     \union UNION {{s.trans[c], s.next[c]} : c \in Managed(s)}) \ (Managed(s) \union {None})

Intact(s) == ~s.hung /\ Dangling(s) = {}

(* One event is handled.  What the window manager does once a pointer      *)
(* dangles is undefined and not modelled, and n_modals_present, which may  *)
(* drift away, is kept within MaxModals of zero.                           *)
Handle(s) ==
  /\ Intact(wm)
  /\ wm' = s
  /\ wm'.modals \in -MaxModals .. MaxModals

(* Mutant: a map request of a managed client makes another client of it. *)
MapNewTwice(call, c, hint) == Handle(Activate(call, NewClient(wm, c, hint), c))

(* A map request for a new window.  A client that is transient for itself  *)
(* is a loop in trans that show follows for ever.                          *)
MapNew(call, c, hint) ==
  LET new == NewClient(wm, c, hint)
  IN /\ c \notin Managed(wm)
     /\ Handle(IF new.trans[c] = c THEN [new EXCEPT !.hung = TRUE]
               ELSE IF c \in StartIconic /\ Type[c] = "app"
               THEN Iconize(call, [new EXCEPT !.minimized = @ \ {c}], c)
               ELSE Activate(call, new, c))

(* A map request for a window that is managed, but not mapped. *)
MapAgain(call, c) ==
  /\ c \in Managed(wm) \ wm.mapped
  /\ Handle(Activate(call, wm, c))

(* wm_remove_client, for a window that is unmapped or destroyed *)
RemoveClient(call, c) ==
  /\ c \in Managed(wm)
  /\ Handle(Destroy(call, wm, c))

(* WM_CHANGE_STATE to iconic, or the minimise button *)
ChangeState(call, c) ==
  /\ c \in Managed(wm)
  /\ Handle(Iconize(call, wm, c))

(* The next key: stack_cycle_backward *)
NextClient(call) ==
  LET apps == Mapped(wm, {"app"})
      c == Lowest(wm, apps)
  IN /\ apps # {}
     /\ Handle(Activate(call, Restack(wm, c, Highest(wm, apps)), c))

(* The previous key: stack_cycle_forward *)
PrevClient(call) ==
  LET apps == Mapped(wm, {"app"})
      sunk == Restack(wm, Highest(wm, apps), None)
  IN /\ apps # {}
     /\ Handle(Activate(call, sunk, Highest(sunk, apps)))

(* wm_toggle_desktop *)
ToggleDesktop(call) ==
  /\ wm.desktop # None
  /\ Handle(Activate(call, wm, IF wm.raised THEN wm.top ELSE wm.desktop))

(* _NET_ACTIVE_WINDOW: the main client of a dialog comes first. *)
NetActiveWindow(call, c) ==
  LET r == Root(wm, c)
      first == IF IsDialog(c) /\ r \notin {c, Visible(wm)} THEN Activate(call, wm, r) ELSE wm
  IN /\ c \in Managed(wm)
     /\ Handle(Activate(call, first, c))

(* _NET_WM_STATE with _NET_WM_STATE_ABOVE *)
NetWmStateAbove(call, c) ==
  /\ c \in Managed(wm) \intersect Restate /\ IsDialog(c)
  /\ \E S \in {wm.above \union {c}, wm.above \ {c}} : Handle(Activate(call, [wm EXCEPT !.above = S], c))

(* main_client_toggle_fullscreen *)
ToggleFullscreen(call, c) ==
  /\ c \in Managed(wm) \intersect Restate /\ Type[c] = "app"
  /\ Handle(Activate(call, [wm EXCEPT !.full = IF c \in @ THEN @ \ {c} ELSE @ \union {c}], c))

(* A changed WM_TRANSIENT_FOR: not for itself, however indirectly. *)
TransientForChange(c, hint) ==
  /\ c \in Managed(wm) \intersect Retarget
  /\ Handle([wm EXCEPT !.trans[c] =
               IF hint \in Managed(wm) /\ c \notin {hint} \union Ancestors(wm, hint)
               THEN hint ELSE None])

(* A button press on the window of a client *)
ButtonPress(call, c) ==
  LET f == wm.focus
      blocked == f \notin {None, c} /\ f \in Modal /\ wm.trans[f] = c
      focused == SetFocus(wm, c)
  IN /\ c \in Managed(wm) \intersect wm.mapped
     /\ ~blocked
     /\ Handle(IF IsDialog(c) THEN (IF c = f THEN wm ELSE Activate(call, wm, c))
               ELSE IF IsMain(c) THEN [focused EXCEPT !.next[c] = None]
               ELSE focused)

(* Every handler gets the loops it may run. *)
WmNext ==
  \E call \in {Loop} :
     \/ \E c \in Clients : \E hint \in Hints[c] \ {c} :
          MapNew(call, c, hint) \/ TransientForChange(c, hint)
     \/ \E c \in Clients :
          \/ MapAgain(call, c)
          \/ RemoveClient(call, c)
          \/ ChangeState(call, c)
          \/ NetActiveWindow(call, c)
          \/ NetWmStateAbove(call, c)
          \/ ToggleFullscreen(call, c)
          \/ ButtonPress(call, c)
     \/ NextClient(call)
     \/ PrevClient(call)
     \/ ToggleDesktop(call)

WmSpec == WmInit /\ [][WmNext]_wm
-----------------------------------------------------------------------------
(* The state of the window manager has the types of its fields; the stack  *)
(* holds no client twice.                                                  *)
WmTypeOK == wm \in WmState /\ Distinct(wm.order)

(* stack_top_app is a mapped app, and there is one as long as any app is   *)
(* mapped: without it the search of stack_get_below would not end.         *)
TopIsMapped ==
  Intact(wm) => IF wm.top = None THEN Mapped(wm, {"app"}) = {}
                                 ELSE wm.top \in Mapped(wm, {"app"})

(* When any app or desktop is mapped, one of them is the visible one.      *)
SomethingVisible ==
  Intact(wm) /\ Visible(wm) = None => Mapped(wm, {"app", "desktop"}) = {}

(* The main client taken for the visible one is the highest in the stack,  *)
(* unless it asked not to be focused when it was mapped.                   *)
VisibleOnTop ==
  Intact(wm) /\ Visible(wm) \notin StartQuiet \union {None} =>
    \A c \in Mapped(wm, {"app", "desktop"}) :
      Place(wm.order, c) <= Place(wm.order, Visible(wm))

(* The dialogs of the visible main client are above it, those with the     *)
(* above state over those without it.                                      *)
DialogsAbove ==
  LET own == {d \in Mapped(wm, {"dialog"}) : Root(wm, d) = Visible(wm)}
  IN Intact(wm) =>
       \A d \in own :
         /\ Place(wm.order, d) > Place(wm.order, Visible(wm))
         /\ \A e \in own \ wm.above :
              d \in wm.above => Place(wm.order, d) > Place(wm.order, e)

(* Panels are above the visible main client, unless it is full screen, and *)
(* below its dialogs.                                                      *)
PanelsPlaced ==
  Intact(wm) /\ Visible(wm) \notin wm.full \union {None} =>
    \A b \in Mapped(wm, {"panel"}) :
      /\ Place(wm.order, b) > Place(wm.order, Visible(wm))
      /\ \A d \in Mapped(wm, {"dialog"}) :
           Root(wm, d) = Visible(wm) => Place(wm.order, b) < Place(wm.order, d)

(* Dialogs that never were transient for anything are above all main       *)
(* clients, and urgent ones over the dialogs that are not.                 *)
RootDialogsOnTop ==
  Intact(wm) =>
    \A d \in Mapped(wm, {"dialog"}) :
      Hints[d] = {None} =>
        /\ \A c \in Mapped(wm, {"app", "desktop"}) : Place(wm.order, d) > Place(wm.order, c)
        /\ \A e \in Mapped(wm, {"dialog"}) \ Urgent :
             d \in Urgent => Place(wm.order, d) > Place(wm.order, e)

(* When the app that was opened from the desktop goes away, the desktop    *)
(* comes back, whatever other apps are open.                               *)
BackToDesktop ==
  [][\A c \in wm.newForDesktop :
       c = Visible(wm) /\ c \notin wm'.mapped /\ wm.desktop # None => wm'.raised]_wm

(* Every handler returns, however the calls in its loops change the stack. *)
HandlersReturn == ~wm.hung

(* When a client goes away it is not left as stack_top_app, as the desktop *)
(* or as what a dialog is transient for, also when the focus goes to a     *)
(* client that was freed.                                                  *)
PointersManaged ==
  {wm.top, wm.desktop} \union {wm.trans[c] : c \in Managed(wm)}
    \subseteq Managed(wm) \union {None}

(* An app that is no longer minimised brings its dialog back. *)
TransientsRestored ==
  [][\A a \in wm.minimized \ wm'.minimized :
       a \in Mapped(wm', {"app"}) /\ Intact(wm') =>
         \A d \in Managed(wm') : IsDialog(d) /\ wm'.trans[d] = a => d \notin wm'.minimized]_wm

(* n_modals_present follows the modal dialogs that are present and not        *)
(* minimised.  It never grows by more, and falls behind only by the ones that *)
(* are minimised already when they are minimised or destroyed, one for each.  *)
ModalsFollowed ==
  [][LET Shown(s) == Cardinality((Managed(s) \intersect Modal) \ s.minimized)
         away == Cardinality(wm.minimized \intersect Modal)
     IN Intact(wm') =>
          Shown(wm') - Shown(wm) - (wm'.modals - wm.modals) \in 0 .. away]_wm

(* A new dialog of a main client that is not visible is not focused. *)
NewDialogKeepsFocus ==
  [][\A d \in Managed(wm') \ Managed(wm) :
       /\ IsDialog(d) /\ Intact(wm')
       /\ IsMain(Root(wm', d)) /\ Visible(wm') \notin {None, Root(wm', d)}
       => wm'.focus # d]_wm
-----------------------------------------------------------------------------
(* What a comment says, and the code does not do: when a client goes away  *)
(* no pointer to it stays behind.                                          *)
NothingDangles == Dangling(wm) = {}

(* The client in the foreground is mapped and on top of the stack, there is one *)
(* whenever there could be, and every remembered client is managed. *)
ForegroundInv ==
  /\ TopIsMapped
  /\ VisibleOnTop
  /\ SomethingVisible
  /\ PointersManaged

(* Whatever the handlers do to the stack they walk, they return, and dialogs and *)
(* panels stay where they belong. *)
PanelsInv ==
  /\ WmTypeOK
  /\ HandlersReturn
  /\ DialogsAbove
  /\ PanelsPlaced

(* A dialog comes back with its application, counts as modal while it is there, *)
(* and does not take the focus from another application when it is new. *)
FocusKept ==
  /\ TransientsRestored
  /\ ModalsFollowed
  /\ NewDialogKeepsFocus

=============================================================================
