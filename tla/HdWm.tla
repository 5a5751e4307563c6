------------------------------- MODULE HdWm -------------------------------
(***************************************************************************)
(* Applications and windows in the desktop's window manager library        *)
(* (hildon-desktop/libhildonwm) and the buttons of the application         *)
(* switcher.  The library learns about windows from three properties of    *)
(* the root window, which it reads when it gets to the event, not when the *)
(* property changes.  When memory runs low it terminates applications in   *)
(* the background but keeps their entries: they hibernate until the        *)
(* application is started again and shows a window with the same key.      *)
(***************************************************************************)
EXTENDS Naturals, Sequences, FiniteSets, NullPointer, Lists

CONSTANTS
  Apps,       \* applications with a .desktop file
  Xids,       \* window ids
  Objs,       \* addresses of HDWMWindow objects, numbers
  AppOf,      \* the application of a window, by WM_CLASS
  KeyOf,      \* its hibernation key: WM_CLASS and WM_WINDOW_ROLE
  Killable,   \* applications whose windows say that they can be killed
  NButtons,   \* buttons of the switcher
  MaxEvents   \* bound on the X events under way

ASSUME HdWmAssumption ==
  /\ Objs \subseteq Nat /\ NButtons \in Nat /\ Killable \subseteq Apps
  /\ None \notin Objs \union Apps \union Xids
  /\ IsFiniteSet(Xids) /\ Cardinality(Objs) >= 2 * Cardinality(Xids)   \* enough memory
  /\ AppOf \in [Xids -> Apps] /\ DOMAIN KeyOf = Xids
  /\ \A x, y \in Xids : KeyOf[x] = KeyOf[y] => AppOf[x] = AppOf[y]

VARIABLES
  running,    \* applications with a process
  timers,     \* those whose process gets SIGKILL if it is still there
  stack,      \* the window manager: application windows, bottom to top
  desktop,    \* the window manager shows the desktop
  asked,      \* a message to show the desktop is on its way to it
  prop,       \* the properties it has set on the root window
  events,     \* the property events the library has not handled
  hd          \* the library and the switcher

envVars == <<running, timers, stack, desktop, asked, prop, events>>
hdVars == <<running, timers, stack, desktop, asked, prop, events, hd>>

Keys == {KeyOf[x] : x \in Xids}
Positions == 1 .. NButtons

Libraries ==
  [windows : [Xids -> Objs \union {None}],       \* the hash of awake windows
   sleeping : [Keys -> Objs \union {None}],      \* the hash of hibernating ones
   parent : [Objs -> Apps \union {None}],        \* None: not allocated
   hibernating : SUBSET Apps,                    \* the flag of an application
   appActive : [Apps -> Objs \union {None}],
   active : Objs \union {None}, lastActive : Objs \union {None},
   applications : Seq(Apps), children : [Apps -> Seq(Objs)],
   buttons : [Positions -> Apps \union {None}], refresh : BOOLEAN]

HdWmTypeOK ==
  /\ running \subseteq Apps /\ timers \subseteq running
  /\ stack \in Seq(Xids) /\ desktop \in BOOLEAN /\ asked \in BOOLEAN
  /\ prop \in [list : Seq(Xids), showing : BOOLEAN, current : Xids \union {None}]
  /\ events \in Seq({"list", "showing", "current"})
  /\ hd \in Libraries

HdWmInit ==
  /\ running = Apps /\ timers = {} /\ stack = <<>> /\ desktop = FALSE /\ asked = FALSE
  /\ prop = [list |-> <<>>, showing |-> FALSE, current |-> None]
  /\ events = <<>>
  /\ hd = [windows |-> [x \in Xids |-> None], sleeping |-> [k \in Keys |-> None],
           parent |-> [o \in Objs |-> None], hibernating |-> {},
           appActive |-> [a \in Apps |-> None], active |-> None, lastActive |-> None,
           applications |-> <<>>, children |-> [a \in Apps |-> <<>>],
           buttons |-> [p \in Positions |-> None], refresh |-> FALSE]

Unless(v, o) == IF v = o THEN None ELSE v

Awake(h, a) == {x \in Xids : h.windows[x] # None /\ AppOf[x] = a}
Asleep(h, a) == {k \in Keys : h.sleeping[k] # None /\ h.parent[h.sleeping[k]] = a}

---------------------------------------------------------------------------
(* Processes and the window manager *)

Current == IF desktop \/ stack = <<>> THEN None ELSE stack[Len(stack)]
Published == prop = [list |-> stack, showing |-> desktop, current |-> Current]

(* An application starts, on its own or because the library activated it. *)
Start(a) ==
  /\ a \notin running
  /\ \A x \in Entries(stack) : AppOf[x] # a
  /\ running' = running \union {a}
  /\ UNCHANGED <<timers, stack, desktop, asked, prop, events, hd>>

(* A process ends on SIGTERM, or hd_wm_window_sigterm_timeout_cb kills it.  One *)
(* that ends by itself only closes its windows, which is Unmap.                 *)
Terminate(a) ==
  /\ a \in timers
  /\ running' = running \ {a} /\ timers' = timers \ {a}
  /\ UNCHANGED <<stack, desktop, asked, prop, events, hd>>

(* A window id is not used again before the library has seen the old window go. *)
MapWindow(x) ==
  /\ Published /\ AppOf[x] \in running /\ x \notin Entries(stack) /\ hd.windows[x] = None
  /\ stack' = Append(stack, x) /\ desktop' = FALSE
  /\ UNCHANGED <<running, timers, asked, prop, events, hd>>

Raise(x) ==
  /\ Published /\ x \in Entries(stack) /\ Current # x
  /\ stack' = Append(TakenOut(stack, x), x) /\ desktop' = FALSE
  /\ UNCHANGED <<running, timers, asked, prop, events, hd>>

(* A window is closed, or goes with its process. *)
Unmap(x) ==
  /\ Published /\ x \in Entries(stack)
  /\ stack' = TakenOut(stack, x)
  /\ UNCHANGED <<running, timers, desktop, asked, prop, events, hd>>

ShowDesktop ==
  /\ Published /\ asked
  /\ desktop' = TRUE /\ asked' = FALSE
  /\ UNCHANGED <<running, timers, stack, prop, events, hd>>

(* The properties are set one after the other: list, desktop hint, current window. *)
Publish ==
  /\ ~Published /\ Len(events) < MaxEvents
  /\ CASE prop.list # stack ->
            prop' = [prop EXCEPT !.list = stack] /\ events' = Append(events, "list")
       [] prop.list = stack /\ prop.showing # desktop ->
            prop' = [prop EXCEPT !.showing = desktop] /\ events' = Append(events, "showing")
       [] OTHER ->
            prop' = [prop EXCEPT !.current = Current] /\ events' = Append(events, "current")
  /\ UNCHANGED <<running, timers, stack, desktop, asked, hd>>

---------------------------------------------------------------------------
(* Entries of the switcher *)

(* hd_wm_add_applications, and the refresh that the signal queues *)
AddEntry(h, o, a) ==
  [h EXCEPT !.applications = IF a \in Entries(@) THEN @ ELSE <<a>> \o @,
            !.children[a] = <<o>> \o @,
            !.refresh = TRUE]

(* Mutant: the refresh of the buttons is not queued. *)
RemoveEntryUnqueued(h, o, a) ==
  LET left == TakenOut(h.children[a], o)
  IN [h EXCEPT !.children[a] = left,
               !.applications = IF left = <<>> THEN TakenOut(@, a) ELSE @]

(* hd_wm_remove_applications; the last child takes the application with it,  *)
(* and the button that shows it becomes empty at once.                       *)
RemoveEntry(h, o, a) ==
  LET left == TakenOut(h.children[a], o)
      showing == {p \in Positions : h.buttons[p] = a}
      first == {p \in showing : \A q \in showing : p <= q}
  IN [h EXCEPT !.children[a] = left,
               !.applications = IF left = <<>> THEN TakenOut(@, a) ELSE @,
               !.buttons = IF left = <<>> THEN [p \in Positions |-> IF p \in first THEN None ELSE @[p]]
                                          ELSE @,
               !.refresh = TRUE]

(* hd_wm_window_finalize: an object without an entry was never added. *)
Finalize(h, o) ==
  LET a == h.parent[o]
      removed == IF o \in Entries(h.children[a]) THEN RemoveEntry(h, o, a) ELSE h
  IN [removed EXCEPT !.parent[o] = None,
                     !.appActive[a] = Unless(@, o),
                     !.active = Unless(@, o),
                     !.lastActive = Unless(@, o)]

(* refresh_app_button for an application that changed *)
ShowChanged(h, a) ==
  [h EXCEPT !.buttons = [p \in Positions |->
      IF p <= Len(h.applications) /\ h.applications[p] = a THEN a ELSE @[p]]]

---------------------------------------------------------------------------
(* The client list *)

(* A window that hibernates moves to the other hash, which destroys what had *)
(* the same key there.                                                       *)
FallAsleep(h, x) ==
  LET k == KeyOf[x]
      o == h.windows[x]
      h1 == IF h.sleeping[k] = None THEN h ELSE Finalize(h, h.sleeping[k])
  IN ShowChanged([h1 EXCEPT !.sleeping[k] = o, !.windows[x] = None], AppOf[x])

(* Mutant: windows of a hibernating application are destroyed. *)
StealDestroys(h, x) == Finalize([h EXCEPT !.windows[x] = None], h.windows[x])

(* client_list_steal_foreach_func for a window that is not on the list any more *)
Steal(h, x) ==
  IF AppOf[x] \in h.hibernating THEN FallAsleep(h, x)
  ELSE Finalize([h EXCEPT !.windows[x] = None], h.windows[x])

FreeObj(h) == CHOOSE o \in Objs : /\ h.parent[o] = None
                                  /\ \A p \in Objs : h.parent[p] = None => o <= p

(* hd_wm_window_new: a hibernating window with the same key comes back, and *)
(* its application counts as awake.                                         *)
NewObject(h, x) ==
  IF h.sleeping[KeyOf[x]] # None
  THEN [h EXCEPT !.windows[x] = h.sleeping[KeyOf[x]], !.sleeping[KeyOf[x]] = None,
                 !.hibernating = @ \ {AppOf[x]}]
  ELSE [h EXCEPT !.windows[x] = FreeObj(h), !.parent[FreeObj(h)] = AppOf[x]]

(* hd_wm_add_window, then an entry for what has none *)
AddWindow(h, x) ==
  LET o == h.windows[x]
      a == AppOf[x]
      h1 == [h EXCEPT !.active = o, !.lastActive = o, !.appActive[a] = o]
  IN IF o \in Entries(h.children[a]) THEN h1 ELSE AddEntry(h1, o, a)

(* hd_wm_add_window fails for a window that has gone in the meantime. *)
AbortWindow(h, x) == Finalize([h EXCEPT !.windows[x] = None], h.windows[x])

(* One window of the list: an unknown one is added.  If it does not exist any *)
(* more that is noticed when its class is read (early) or later.              *)
ListedWindow(h, x, early) ==
  IF h.windows[x] # None THEN h
  ELSE IF x \in Entries(stack) THEN AddWindow(NewObject(h, x), x)
  ELSE IF early THEN h
  ELSE AbortWindow(NewObject(h, x), x)

StealAll(h, order) ==
  LET after[n \in 0 .. Len(order)] ==
        IF n = 0 THEN h ELSE Steal(after[n - 1], order[n])
  IN after[Len(order)]

ListAll(h, list, early) ==
  LET after[n \in 0 .. Len(list)] ==
        IF n = 0 THEN h ELSE ListedWindow(after[n - 1], list[n], early)
  IN after[Len(list)]

(* hd_wm_process_x_client_list; the hash gives up its windows in any order. *)
ProcessClientList(h) ==
  LET gone == {x \in Xids : h.windows[x] # None} \ Entries(prop.list)
  IN \E order \in Orders(gone), early \in BOOLEAN :
       hd' = ListAll(StealAll(h, order), prop.list, early)

(* hd_wm_process_mb_current_app_window: nothing for the window that is active. *)
ProcessCurrentApp(h) ==
  LET o == IF prop.current = None THEN None ELSE h.windows[prop.current]
  IN hd' = IF o \in {None, h.active} THEN h
           ELSE [h EXCEPT !.active = o, !.lastActive = o, !.appActive[h.parent[o]] = o]

(* hd_wm_x_event_filter: the next event; what it reads may be newer. *)
HandleEvent ==
  /\ events # <<>>
  /\ CASE Head(events) = "list" -> ProcessClientList(hd)
       [] Head(events) = "current" -> ProcessCurrentApp(hd)
       [] Head(events) = "showing" ->
            hd' = IF prop.showing THEN [hd EXCEPT !.active = None] ELSE hd
  /\ events' = Tail(events)
  /\ UNCHANGED <<running, timers, stack, desktop, asked, prop>>

---------------------------------------------------------------------------
(* Memory, user requests and timeouts *)

(* hd_wm_memory_kill_all_watched: applications with an awake window, not the *)
(* one whose window is on top.                                               *)
KillTargets(h) ==
  LET top == IF prop.current = None \/ h.windows[prop.current] = None THEN None
             ELSE AppOf[prop.current]
  IN {a \in (Killable \ h.hibernating) \ {top} : Awake(h, a) # {}}

(* hd_wm_memory_bgkill_func: each is flagged, gets SIGTERM, and SIGKILL later. *)
BackgroundKill ==
  /\ hd' = [hd EXCEPT !.hibernating = @ \union KillTargets(hd)]
  /\ timers' = timers \union (KillTargets(hd) \intersect running)
  /\ UNCHANGED <<running, stack, desktop, asked, prop, events>>

(* hd_wm_top_item for a window of a hibernating application remembers it;   *)
(* all else it does are messages to the window manager and activations.     *)
TopItem(o) ==
  /\ hd.parent[o] \in hd.hibernating
  /\ hd' = [hd EXCEPT !.appActive[hd.parent[o]] = o]
  /\ UNCHANGED envVars

(* hd_wm_window_close of a window that counts as hibernating: without the    *)
(* flag its object is destroyed.  Other windows are closed by the            *)
(* application, see Unmap.                                                   *)
CloseHibernating(x) ==
  LET a == AppOf[x]
      k == KeyOf[x]
      h == [hd EXCEPT !.hibernating = @ \ {a}]
      h1 == IF h.sleeping[k] = None THEN h
            ELSE [Finalize(h, h.sleeping[k]) EXCEPT !.sleeping[k] = None]
  IN /\ a \in hd.hibernating
     /\ hd.windows[x] # None \/ hd.sleeping[k] # None
     /\ hd' = IF Asleep(h1, a) # {} THEN [h1 EXCEPT !.hibernating = @ \union {a}] ELSE h1
     /\ UNCHANGED envVars

(* hd_wm_top_desktop *)
TopDesktop ==
  /\ ~asked
  /\ asked' = TRUE
  /\ hd' = [hd EXCEPT !.active = None]
  /\ UNCHANGED <<running, timers, stack, desktop, prop, events>>

(* refresh_buttons *)
RefreshButtons ==
  /\ hd.refresh
  /\ hd' = [hd EXCEPT !.refresh = FALSE,
                      !.buttons = [p \in Positions |-> IF p <= Len(hd.applications)
                                                       THEN hd.applications[p] ELSE None]]
  /\ UNCHANGED envVars

HdWmNext ==
  \/ \E a \in Apps : Start(a) \/ Terminate(a)
  \/ \E x \in Xids : MapWindow(x) \/ Raise(x) \/ Unmap(x) \/ CloseHibernating(x)
  \/ \E o \in Objs : TopItem(o)
  \/ ShowDesktop \/ Publish \/ HandleEvent
  \/ BackgroundKill \/ TopDesktop \/ RefreshButtons

HdWmSpec == HdWmInit /\ [][HdWmNext]_hdVars

---------------------------------------------------------------------------
(* Properties *)

Objects(h) == {o \in Objs : h.parent[o] # None}

(* The switcher lists every window object of the two hashes, awake or        *)
(* hibernating, exactly once and under its application, lists no application *)
(* twice, and nothing else: hd-wm.c:1924 and the finalizer keep it so.       *)
SwitcherComplete ==
  /\ \A a \in Apps : a \in Entries(hd.applications) <=> hd.children[a] # <<>>
  /\ \A a \in Apps : Entries(hd.children[a]) = {o \in Objs : hd.parent[o] = a}
  /\ Once(hd.applications) /\ \A a \in Apps : Once(hd.children[a])
  /\ Objects(hd) = ({hd.windows[x] : x \in Xids} \union {hd.sleeping[k] : k \in Keys}) \ {None}

(* active_window, last_active_window and the active windows of applications  *)
(* never point to a freed object, and an application's to its own window.    *)
ActiveLive ==
  /\ {hd.active, hd.lastActive} \subseteq Objects(hd) \union {None}
  /\ hd.active # None => hd.lastActive = hd.active
  /\ \A a \in Apps : hd.appActive[a] # None => hd.parent[hd.appActive[a]] = a

(* Although events are handled late and read newer values: once all are      *)
(* handled, the library's active window is the one the window manager shows. *)
ActiveInStep ==
  (events = <<>> /\ Published /\ ~asked) =>
    /\ desktop => hd.active = None
    /\ Current # None => hd.active # None /\ hd.active = hd.windows[Current]
    /\ {x \in Xids : hd.windows[x] # None} = Entries(stack)

(* Unless a refresh is pending the buttons show the first applications of    *)
(* the list; all changes of the list queue a refresh, and only one.          *)
ButtonsInStep ==
  ~hd.refresh => \A p \in Positions :
                   hd.buttons[p] = IF p <= Len(hd.applications) THEN hd.applications[p] ELSE None

(* What hibernates is kept: while an application is flagged its windows'     *)
(* objects go only when the user closes one of them, or when a window that   *)
(* comes back has gone again.                                                *)
HibernatedKept ==
  [][\A o \in Objs : hd.parent[o] \in hd.hibernating /\ hd'.parent[o] = None
        => \/ \E x \in Xids : CloseHibernating(x)
           \/ \E x \in Entries(prop.list) \ Entries(stack) :
                 AppOf[x] = hd.parent[o] /\ hd.sleeping[KeyOf[x]] = o]_hdVars

(* "locate the application associated with the top-level window"             *)
(* (hd-wm-memory.c:171): killing in the background spares the application    *)
(* whose window the window manager has made current.  It does not when that  *)
(* window is new.                                                            *)
TopAppSpared ==
  [][BackgroundKill /\ prop.current # None
       => AppOf[prop.current] \notin hd'.hibernating \ hd.hibernating]_hdVars

(* Entries that hibernate belong to applications that count as hibernating, *)
(* without which they can neither be closed nor be started.  They do not    *)
(* when an application comes back with some of its windows only.            *)
SleepersFlagged == \A a \in Apps : Asleep(hd, a) # {} => a \in hd.hibernating

(* What the task navigator shows is what the library knows: every window has its *)
(* place, the active one exists, and the buttons are in step. *)
SwitcherInv ==
  /\ HdWmTypeOK
  /\ SwitcherComplete
  /\ ActiveLive
  /\ ActiveInStep
  /\ ButtonsInStep

===========================================================================
