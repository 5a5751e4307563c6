------------------------------ MODULE MCDesktop ------------------------------
(* Parts of hildon-desktop, each on its own: a behaviour exercises the one   *)
(* in focus.  Of two windows of one application and one of another, a        *)
(* behaviour of the window manager library shows two.  The user takes up to  *)
(* MaxEfforts steps with the applets: presses, removals and restarts; what   *)
(* applets are told of the screen is explored apart from the stylus.         *)
EXTENDS HdWm, NotificationManager, SystemNotes, SwitcherMenu, HomeArea,
  PluginContainer, PopupWindow, PopupMenu, TLC

CONSTANTS Parts, mail, web, a1, a2, b1, t1, t2, clock, news, radio, MaxEfforts

VARIABLES focus, cast, efforts

MCAppOf == [x \in Xids |-> IF x = b1 THEN web ELSE mail]
MCKeyOf == [x \in Xids |-> x]

MCNatural == (clock :> [w |-> 1, h |-> 2]) @@ (news :> [w |-> 1, h |-> 1])
               @@ (radio :> [w |-> 1, h |-> 1])
MCSpots == [i \in Applets |-> IF i = clock THEN {[x |-> 0, y |-> 0], [x |-> 1, y |-> 0]} ELSE {}]
MCLengths == [i \in Applets |-> IF i = news THEN {2} ELSE {}]

MCByName == <<clock, mail, news, radio, web>>
MCConfLists == {<<clock>>, <<mail, radio>>}

MCInit ==
  /\ focus \in Parts
  /\ cast \in IF focus = "windows" THEN {{a1, a2}, {a1, b1}} ELSE {{}}
  /\ HdWmInit /\ ManagerInit /\ NotesInit /\ MenuInit /\ HomeInit /\ PopupInit /\ PopupMenuInit
  /\ ContainerInit /\ (focus # "plugins" => shell.kind = "home" /\ shell.items = <<clock>>)
  /\ efforts = 0

Others(part) ==
  /\ part # "windows" => UNCHANGED hdVars
  /\ part # "notifications" => UNCHANGED managerVars
  /\ part # "notes" => UNCHANGED notesVars
  /\ part # "menu" => UNCHANGED menuVars
  /\ part \notin {"applets", "screen"} => UNCHANGED homeVars
  /\ part # "plugins" => UNCHANGED shell
  /\ part # "popup" => UNCHANGED popup
  /\ part # "list" => UNCHANGED popupMenu
  /\ part \notin {"applets", "screen", "plugins"} => UNCHANGED efforts

MCApplets ==
  /\ HomeNext
  /\ efforts' = IF \/ stylus.item = None /\ stylus'.item # None
                   \/ Children(home) \ Children(home') # {}
                  THEN efforts + 1 ELSE efforts
  /\ \/ focus = "applets" /\ efforts' <= MaxEfforts /\ ~home'.background /\ ~home'.off
     \/ focus = "screen" /\ efforts' <= 1 /\ stylus' = Up

(* Once ids have come round to open notifications, two at a time will do. *)
MCNotifications ==
  /\ ManagerNext
  /\ clashed' => Cardinality(UNION {{i} \X DOMAIN rows'[i] : i \in Ids}) <= 2

(* Few notifications together with few applications that want attention.    *)
MCMenu ==
  /\ MenuNext
  /\ Cardinality(Opened(open')) + Cardinality(urgent') + Cardinality(ignored')
       + Cardinality(asleep') <= 2

(* The policy is explored less deep than the containers without one.  Events  *)
(* that are handled and restarts that forget some are no efforts.            *)
MCPlugins ==
  /\ ContainerNext
  /\ efforts' = IF /\ shell'.events # shell.events
                   /\ Len(shell'.events) <= Len(shell.events)
                  THEN efforts ELSE efforts + 1
  /\ efforts' <= IF shell.kind = "navigator" THEN MaxEfforts ELSE MaxEfforts + 1

MCNext ==
  /\ UNCHANGED <<focus, cast>>
  /\ \/ focus = "windows" /\ HdWmNext /\ Entries(stack') \subseteq cast
     \/ focus = "notifications" /\ MCNotifications
     \/ focus = "notes" /\ NotesNext
     \/ focus = "menu" /\ MCMenu
     \/ focus = "popup" /\ PopupNext
     \/ focus = "list" /\ PopupMenuNext
     \/ focus \in {"applets", "screen"} /\ MCApplets
     \/ focus = "plugins" /\ MCPlugins
  /\ Others(focus)

MCVars == <<focus, cast, efforts, hdVars, managerVars, notesVars, menuVars, homeVars, shell,
            popup, popupMenu>>

MCSpec == MCInit /\ [][MCNext]_MCVars
==============================================================================
