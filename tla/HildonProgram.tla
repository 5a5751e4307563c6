---------------------------- MODULE HildonProgram ----------------------------
(***************************************************************************)
(* Windows and the program of a libhildon application.  A window learns    *)
(* from a property of the root window whether it is topmost: by a filter   *)
(* of its own as long as it belongs to no program, then by the filter of   *)
(* the program.  The common toolbar of the program moves to the topmost    *)
(* window.  Filters read the property when they get to the event.          *)
(***************************************************************************)
EXTENDS Naturals, Sequences, NullPointer

CONSTANTS
  Windows,      \* windows of the application
  Toolbars,     \* common toolbars
  Dialog, Foreign, Dead,  \* other X windows that can be the active one: of the
                \* same group, of another application, and one that is destroyed
  MaxNotifies   \* bound on the property events under way

ASSUME ProgramAssumption ==
  /\ None \notin Windows \union Toolbars \union {"hidden", "shown", "gone"}
  /\ {Dialog, Foreign, Dead, None} \intersect Windows = {}
  /\ Dead \notin {Dialog, Foreign, None} /\ Foreign \notin {Dialog, None} /\ Dialog # None
  /\ MaxNotifies \in Nat

VARIABLES
  active,    \* _MB_CURRENT_APP_WINDOW
  notifies,  \* PropertyNotify events the application has not handled
  app        \* the windows and the program

programVars == <<active, notifies, app>>

(* "hidden": without an X window *)
WindowState == {None, "hidden", "shown", "gone"}

Apps == [state : [Windows -> WindowState],
         filter : SUBSET Windows,        \* windows with a filter of their own
         topmost : SUBSET Windows,       \* is_topmost of windows
         killable : SUBSET Windows,      \* X windows with _HILDON_ABLE_TO_HIBERNATE
         windows : Seq(Windows),         \* the program: its windows,
         tracks : BOOLEAN,               \* its filter,
         onTop : BOOLEAN,                \* is_topmost,
         canHibernate : BOOLEAN,
         toolbar : Toolbars \union {None},
         parent : Windows \union {None}, \* the window with the common toolbar,
         broken : BOOLEAN,               \* common_toolbar has been destroyed
         liberal : BOOLEAN]  \* does the application add windows on the screen,
                             \* and take windows back

ProgramTypeOK ==
  /\ active \in Windows \union {Dialog, Foreign, Dead, None}
  /\ notifies \in 0 .. MaxNotifies
  /\ app \in Apps

ProgramInit ==
  /\ active = None /\ notifies = 0
  /\ app \in {[state |-> [w \in Windows |-> None], filter |-> {}, topmost |-> {},
             killable |-> {}, windows |-> <<>>, tracks |-> FALSE, onTop |-> FALSE,
             canHibernate |-> FALSE, toolbar |-> None, parent |-> None, broken |-> FALSE,
             liberal |-> l] : l \in BOOLEAN}

InProgram(p, w) == \E k \in DOMAIN p.windows : p.windows[k] = w
ProgramWindows(p) == {w \in Windows : InProgram(p, w)}
Shown(p, w) == p.state[w] = "shown"
Live(p, w) == p.state[w] \in {"hidden", "shown"}

---------------------------------------------------------------------------
(* The one of some windows that comes last in the list of the program. *)
LastOf(p, some) ==
  CHOOSE w \in some : \E k \in DOMAIN p.windows :
    /\ p.windows[k] = w
    /\ \A j \in DOMAIN p.windows : p.windows[j] \in some => j <= k

(* hildon_window_take_common_toolbar, called for one after the other: the   *)
(* last window of the program keeps it.                                     *)
TakeToolbar(p, some) ==
  LET takers == some \intersect ProgramWindows(p)
  IN IF p.toolbar = None \/ takers = {} THEN p ELSE [p EXCEPT !.parent = LastOf(p, takers)]

(* A window without an X window has the id None, which is also the id of no *)
(* active window.                                                           *)
IsActive(p, w) == active = IF Shown(p, w) THEN w ELSE None

(* hildon_window_update_topmost for each of some windows *)
UpdateTopmost(p, some) ==
  LET risen == {w \in some \ p.topmost : IsActive(p, w)}
  IN TakeToolbar([p EXCEPT !.topmost = {w \in @ : w \in some => IsActive(p, w)} \union risen],
                 risen)

(* hildon_program_update_top_most: if reading the group of the active window *)
(* fails nothing is updated; without an active window the program is not.    *)
UpdateProgram(p) ==
  IF active = Dead THEN p
  ELSE UpdateTopmost(IF active = None THEN p ELSE [p EXCEPT !.onTop = active # Foreign],
                     ProgramWindows(p))

(* Mutant: the window keeps no filter of its own. *)
UnsetProgramUntracked(p, w) == p

(* hildon_window_unset_program *)
UnsetProgram(p, w) == [p EXCEPT !.filter = @ \union {w}]

(* g_slist_remove *)
Removed(seq, w) ==
  LET place == CHOOSE k \in DOMAIN seq : seq[k] = w
  IN [k \in 1 .. Len(seq) - 1 |-> IF k < place THEN seq[k] ELSE seq[k + 1]]

(* hildon_program_remove_window *)
RemoveFromProgram(p, w) ==
  LET left == Removed(p.windows, w)
  IN [UnsetProgram(p, w) EXCEPT !.windows = left, !.tracks = left # <<>>]

---------------------------------------------------------------------------
(* The window manager; an X window that is gone leaves the property behind. *)
SetActive(v) ==
  /\ v # active /\ v # Dead /\ notifies < MaxNotifies
  /\ v \in Windows => Shown(app, v)
  /\ active' = v /\ notifies' = notifies + 1
  /\ UNCHANGED app

DialogDies ==
  /\ active \in {Dialog, Foreign}
  /\ active' = Dead
  /\ UNCHANGED <<notifies, app>>

WithoutX(w) == IF active = w THEN Dead ELSE active

(* One event, seen by the filter of the program and those of windows. *)
HandleNotify ==
  /\ notifies > 0
  /\ notifies' = notifies - 1
  /\ app' = UpdateTopmost(IF app.tracks THEN UpdateProgram(app) ELSE app, app.filter)
  /\ UNCHANGED active

(* hildon_window_new *)
NewWindow(w) ==
  /\ app.state[w] = None
  /\ app' = [app EXCEPT !.state[w] = "hidden", !.filter = @ \union {w}]
  /\ UNCHANGED <<active, notifies>>

(* Mutant: the X window is created without the property. *)
RealizeForgets(w) ==
  /\ app.state[w] = "hidden"
  /\ app' = UpdateTopmost([app EXCEPT !.state[w] = "shown"], {w})
  /\ UNCHANGED <<active, notifies>>

(* hildon_window_realize *)
Realize(w) ==
  /\ app.state[w] = "hidden"
  /\ app' = UpdateTopmost([app EXCEPT !.state[w] = "shown",
                             !.killable = IF InProgram(app, w) /\ app.canHibernate
                                          THEN @ \union {w} ELSE @], {w})
  /\ UNCHANGED <<active, notifies>>

(* hildon_window_unrealize *)
Unrealize(w) ==
  /\ Shown(app, w)
  /\ active' = WithoutX(w)
  /\ app' = [app EXCEPT !.state[w] = "hidden", !.killable = @ \ {w}]
  /\ UNCHANGED notifies

(* Mutant: the toolbar stays in the box that is destroyed. *)
DestroyKeepsToolbar(w) ==
  /\ Live(app, w)
  /\ active' = WithoutX(w)
  /\ app' = [(IF InProgram(app, w) THEN RemoveFromProgram(app, w) ELSE app) EXCEPT
               !.state[w] = "gone", !.filter = @ \ {w}, !.killable = @ \ {w}]
  /\ UNCHANGED notifies

(* hildon_window_destroy: the box goes with what is in it, from which only   *)
(* windows of the program take the common toolbar out before.                *)
DestroyWindow(w) ==
  /\ Live(app, w)
  /\ active' = WithoutX(w)
  /\ LET member == InProgram(app, w)
         p == IF app.parent # w THEN app
              ELSE [app EXCEPT !.parent = None, !.broken = @ \/ ~member]
     IN app' = [(IF member THEN RemoveFromProgram(p, w) ELSE p) EXCEPT
                  !.state[w] = "gone", !.filter = @ \ {w}, !.killable = @ \ {w}]
  /\ UNCHANGED notifies

(* hildon_program_add_window *)
AddWindowToProgram(w) ==
  /\ Live(app, w) /\ ~InProgram(app, w)
  /\ app.liberal \/ app.state[w] = "hidden"
  /\ LET p == IF app.windows = <<>> THEN [UpdateProgram(app) EXCEPT !.tracks = TRUE] ELSE app
     IN app' = [p EXCEPT !.windows = Append(@, w),
                         !.filter = @ \ {w},
                         !.killable = IF ~Shown(p, w) THEN @
                                      ELSE IF p.canHibernate THEN @ \union {w} ELSE @ \ {w}]
  /\ UNCHANGED <<active, notifies>>

RemoveWindow(w) ==
  /\ app.liberal /\ InProgram(app, w)
  /\ app' = RemoveFromProgram(app, w)
  /\ UNCHANGED <<active, notifies>>

(* hildon_program_set_can_hibernate *)
SetCanHibernate(can) ==
  /\ can # app.canHibernate
  /\ LET shown == {w \in Windows : Shown(app, w) /\ InProgram(app, w)}
     IN app' = [app EXCEPT !.canHibernate = can,
                           !.killable = IF can THEN @ \union shown ELSE @ \ shown]
  /\ UNCHANGED <<active, notifies>>

(* Mutant: the topmost window takes the toolbar when it becomes so again. *)
SetToolbarLater(t) ==
  /\ t # app.toolbar
  /\ app' = [app EXCEPT !.toolbar = t, !.parent = None]
  /\ UNCHANGED <<active, notifies>>

(* hildon_program_set_common_toolbar *)
SetCommonToolbar(t) ==
  /\ t # app.toolbar
  /\ LET p == [app EXCEPT !.toolbar = t, !.parent = None]
     IN app' = IF p.onTop THEN TakeToolbar(p, p.topmost) ELSE p
  /\ UNCHANGED <<active, notifies>>

ProgramNext ==
  \/ \E v \in Windows \union {Dialog, Foreign, None} : SetActive(v)
  \/ DialogDies \/ HandleNotify
  \/ \E w \in Windows : \/ NewWindow(w) \/ Realize(w) \/ Unrealize(w) \/ DestroyWindow(w)
                        \/ AddWindowToProgram(w) \/ RemoveWindow(w)
  \/ \E can \in BOOLEAN : SetCanHibernate(can)
  \/ \E t \in Toolbars : SetCommonToolbar(t)

ProgramSpec == ProgramInit /\ [][ProgramNext]_programVars

---------------------------------------------------------------------------
(* A window is tracked by exactly one filter, whatever the order in which it *)
(* is added, taken back and shown, and the program's is there when needed.   *)
TrackedOnce ==
  /\ \A w \in Windows : Live(app, w) => (w \in app.filter <=> ~InProgram(app, w))
  /\ \A w \in Windows : InProgram(app, w) \/ w \in app.filter => Live(app, w)
  /\ app.tracks <=> app.windows # <<>>

(* Once all events are handled exactly the active window counts as topmost.  *)
(* (A program that could not read the active window waits for the next one.) *)
TopmostInStep ==
  notifies = 0 /\ active # Dead =>
    \A w \in Windows : Shown(app, w) => (w \in app.topmost <=> active = w)

(* The task navigator sees what the program has set last, on all windows. *)
HibernationKnown ==
  \A w \in Windows : Shown(app, w) /\ InProgram(app, w)
                       => (w \in app.killable <=> app.canHibernate)

(* The common toolbar is alive and in a live window of the program, unless   *)
(* the application takes a window back: it takes the toolbar with it.        *)
ToolbarAtHome ==
  app.liberal \/ (/\ app.parent # None => InProgram(app, app.parent)
                  /\ ~app.broken)

(* It is in the topmost window, unless that is added while on the screen. *)
ToolbarOnTop ==
  app.liberal \/ \A w \in Windows :
    Shown(app, w) /\ InProgram(app, w) /\ w \in app.topmost /\ app.toolbar # None
      => app.parent = w

(* Program and windows agree: each window is known once, topmost is told as it *)
(* is, the hibernation property is where it belongs, and the common toolbar is in *)
(* the topmost window. *)
ProgramInv ==
  /\ ProgramTypeOK
  /\ TrackedOnce
  /\ TopmostInStep
  /\ HibernationKnown
  /\ ToolbarAtHome
  /\ ToolbarOnTop

=============================================================================
