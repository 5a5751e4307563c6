---------------------------- MODULE SwitcherMenu ----------------------------
(***************************************************************************)
(* The menu of the application switcher with its button.  It lists the     *)
(* open notifications, from a certain number on in groups by category, and *)
(* the button blinks with the icon of a notification or of an application  *)
(* that wants attention.  Above full-screen applications the button moves  *)
(* to a window of its own for a while.  The menu follows the list of the   *)
(* notification manager by the signals it emits; that list is represented  *)
(* here by what the menu reads of it.                                      *)
(***************************************************************************)
EXTENDS Naturals, Sequences, FiniteSets, NullPointer, Lists

CONSTANTS
  MaxNotice,     \* bound: ids of notifications
  AppEntries,    \* applications
  ItemsLimit,    \* AS_ITEMS_LIMIT
  SwitcherSlots, \* SWITCHER_N_SLOTS
  MaxDetached    \* bound: timeouts that attach the button (state space only)

(* The rows of the manager are sorted by id, the newest first. *)
NoticeIds == 1 .. MaxNotice

Categories == {"system.note", "grouped", "other"}
Notices == [category : Categories, ack : BOOLEAN]   \* what the menu reads of a row

ASSUME MenuAssumption ==
  /\ MaxNotice \in Nat /\ None \notin NoticeIds \union AppEntries \union Notices
  /\ ItemsLimit \in Nat /\ SwitcherSlots \in Nat /\ MaxDetached \in Nat

VARIABLES
  open,     \* per id: category and acknowledgement of an open notification
  apps,     \* the list of applications, each with one window
  urgent,   \* windows with the urgency hint,
  ignored,  \* whose button was pressed while it blinked for them,
  asleep,   \* or whose application hibernates
  sm        \* the menu

entryVars == <<apps, urgent, ignored, asleep>>
menuVars == <<open, entryVars, sm>>

Opened(o) == {i \in NoticeIds : o[i] # None}

MenuTypeOK ==
  /\ open \in [NoticeIds -> Notices \union {None}]
  /\ apps \in Seq(AppEntries)
  /\ urgent \union ignored \union asleep \union sm.appBlinking \subseteq AppEntries
  /\ sm.single \subseteq NoticeIds         \* items for one notification
  /\ sm.group \subseteq NoticeIds          \* what the item of the group stands for
  /\ sm.blinking \subseteq sm.single
  /\ {sm.clear, sm.isOpen, sm.blinks, sm.animation} \subseteq BOOLEAN
  /\ {sm.inactive, sm.fullscreen, sm.attached} \subseteq BOOLEAN
  /\ sm.blinkingId \in NoticeIds \union {None}
  /\ sm.lastUrgent \in AppEntries \union {None}
  /\ sm.timeouts \in 0 .. MaxDetached

MenuInit ==
  /\ open = [i \in NoticeIds |-> None]
  /\ apps = <<>> /\ urgent = {} /\ ignored = {} /\ asleep = {}
  /\ sm = [single |-> {}, group |-> {}, blinking |-> {}, clear |-> FALSE, appBlinking |-> {},
           isOpen |-> FALSE,
           blinks |-> FALSE,        \* the button shows the animation, not its icon
           animation |-> FALSE,     \* animation_icon is set
           inactive |-> FALSE,      \* system_inactivity
           fullscreen |-> FALSE, attached |-> TRUE, timeouts |-> 0,
           blinkingId |-> None, lastUrgent |-> None]

HasItems(m) == m.single \union m.group # {} \/ m.clear

(* hd_switcher_menu_replace_blinking_icon *)
StartBlinking(m) ==
  [m EXCEPT !.animation = TRUE, !.blinks = @ \/ (~m.isOpen /\ ~m.inactive)]

(* hd_switcher_menu_reset_main_icon *)
ResetIcon(m, destroy) ==
  IF m.blinks THEN [m EXCEPT !.blinks = FALSE, !.animation = @ /\ ~destroy] ELSE m

(* hd_switcher_menu_dettach_button *)
Detach(m) ==
  IF m.attached THEN [m EXCEPT !.attached = FALSE, !.timeouts = @ + 1] ELSE m

(* hd_switcher_menu_attach_button *)
Attach(m) == [m EXCEPT !.attached = TRUE]

(* hd_switcher_menu_check_content; closing an open menu has effects of its  *)
(* own, but none on a menu without items.                                    *)
CheckContent(m, list) ==
  IF list = <<>> /\ ~HasItems(m) THEN [m EXCEPT !.isOpen = FALSE]
  ELSE LET m1 == IF HasItems(m) /\ m.blinks /\ m.fullscreen THEN Detach(m) ELSE m
           m2 == IF ~m.fullscreen THEN Attach(m1) ELSE m1
       IN IF Len(list) <= SwitcherSlots /\ m.lastUrgent # None
          THEN [ResetIcon(m2, TRUE) EXCEPT !.lastUrgent = None] ELSE m2

Unacknowledged(o) == {i \in Opened(o) : ~o[i].ack}

Newest(ids) == CHOOSE i \in ids : \A j \in ids : j <= i

(* hd_switcher_menu_create_notifications_menu: with many notifications, those *)
(* of a category that has a group and more than one share an item.  The     *)
(* button blinks for the first row that nobody has acknowledged.             *)
CreateMenu(m, o, list) ==
  LET many == Cardinality(Opened(o)) >= ItemsLimit
      grouped == {i \in Opened(o) : o[i].category = "grouped"}
      group == IF many /\ Cardinality(grouped) > 1 THEN grouped ELSE {}
      single == Opened(o) \ group
      new == {i \in single : ~o[i].ack}
      m1 == [m EXCEPT !.clear = many, !.single = single, !.group = group,
                      !.blinking = IF m.inactive THEN {} ELSE new]
      m2 == IF new = {} THEN m1
            ELSE [StartBlinking(m1) EXCEPT !.blinkingId = Newest(new)]
  IN CheckContent(m2, list)

(* Mutant: the item of a group stays. *)
RemoveItemStays(m, o, i, list) ==
  CheckContent([m EXCEPT !.clear = @ /\ Cardinality(Opened(o)) > ItemsLimit,
                         !.single = @ \ {i}, !.blinking = @ \ {i}], list)

(* hd_switcher_menu_notification_deleted_cb, before the row goes: the item  *)
(* that stands for the notification is removed, also when it stands for      *)
(* others as well.                                                           *)
RemoveItem(m, o, i, list) ==
  LET m1 == IF i \in m.single \union m.group /\ m.blinkingId = i
            THEN [ResetIcon(m, TRUE) EXCEPT !.blinkingId = None] ELSE m
      m2 == [m1 EXCEPT !.single = @ \ {i}, !.blinking = @ \ {i},
                       !.group = IF i \in m.group THEN {} ELSE @,
                       !.clear = @ /\ Cardinality(Opened(o)) > ItemsLimit]
  IN CheckContent(m2, list)

(* hildon_desktop_notification_manager_close_notification *)
CloseRow(s, i) ==
  [menu |-> RemoveItem(s.menu, s.open, i, apps), open |-> [s.open EXCEPT ![i] = None]]

(* The rows with these ids are closed, from the newest or the oldest on. *)
CloseIds(m, o, ids, newestFirst) ==
  LET closed[n \in 0 .. MaxNotice] ==
        IF n = 0 THEN [menu |-> m, open |-> o]
        ELSE LET i == IF newestFirst THEN MaxNotice + 1 - n ELSE n
             IN IF i \in ids THEN CloseRow(closed[n - 1], i) ELSE closed[n - 1]
  IN closed[MaxNotice]

(* hd_switcher_menu_update_close: what blinked in the menu has been seen. *)
Popdown(m) ==
  [menu |-> [m EXCEPT !.isOpen = FALSE, !.blinking = IF m.isOpen THEN {} ELSE @],
   open |-> [i \in NoticeIds |-> IF m.isOpen /\ i \in m.blinking /\ open[i] # None
                                 THEN [open[i] EXCEPT !.ack = TRUE] ELSE open[i]]]

---------------------------------------------------------------------------
(* Signals of the notification manager *)

(* row-changed, for a new notification or one that was changed; the menu is *)
(* not created again for system notes.                                       *)
Notified(i, category) ==
  /\ open[i] # None => category = open[i].category
  /\ open' = [open EXCEPT ![i] = [category |-> category, ack |-> FALSE]]
  /\ sm' = IF category = "system.note" THEN sm
           ELSE CreateMenu([sm EXCEPT !.lastUrgent = None], open', apps)
  /\ UNCHANGED entryVars

(* notification-closed, by a client or a timeout *)
NotificationGone(i) ==
  /\ open[i] # None
  /\ sm' = RemoveItem(sm, open, i, apps)
  /\ open' = [open EXCEPT ![i] = None]
  /\ UNCHANGED entryVars

---------------------------------------------------------------------------
(* The user *)

(* Items call the manager first; the popup window closes behind that. *)
ActivateItem(ids, newestFirst) ==
  /\ sm.isOpen
  /\ LET after == CloseIds(sm, open, ids, newestFirst)
     IN /\ sm' = [after.menu EXCEPT !.isOpen = FALSE, !.blinking = {}]
        /\ open' = [i \in NoticeIds |-> IF after.open[i] # None /\ i \in after.menu.blinking
                                        THEN [after.open[i] EXCEPT !.ack = TRUE] ELSE after.open[i]]
  /\ UNCHANGED entryVars

(* hd_switcher_menu_item_activate; a group lists its rows from the oldest on. *)
ActivateSingle(i) == i \in sm.single /\ ActivateItem({i}, TRUE)
ActivateGroup == sm.group # {} /\ ActivateItem(sm.group, FALSE)

(* hd_switcher_menu_clear_item_activated, confirmed where it asks *)
ClearAll ==
  /\ sm.isOpen /\ sm.clear
  /\ LET down == Popdown(sm)
         after == CloseIds(down.menu, down.open, Opened(open), TRUE)
     IN sm' = [after.menu EXCEPT !.clear = FALSE] /\ open' = after.open
  /\ UNCHANGED entryVars

(* hd_switcher_menu_toggled_cb *)
OpenMenu ==
  /\ ~sm.isOpen /\ (apps # <<>> \/ HasItems(sm))
  /\ LET m == CheckContent(ResetIcon([sm EXCEPT !.isOpen = TRUE], TRUE), apps)
     IN sm' = Attach(m)
  /\ UNCHANGED <<open, entryVars>>

CloseMenu ==
  /\ sm.isOpen
  /\ LET down == Popdown(sm) IN sm' = down.menu /\ open' = down.open
  /\ UNCHANGED entryVars

---------------------------------------------------------------------------
(* The window manager library, the display and timeouts *)

(* hd_switcher_menu_refresh_application_items *)
Calling(m) == IF m.inactive THEN {} ELSE {a \in Entries(apps) : a \in urgent \ ignored}

(* entry_info_added: all items of applications are created again. *)
AppStarted(a, hint) ==
  /\ a \notin Entries(apps)
  /\ apps' = <<a>> \o apps
  /\ urgent' = IF hint THEN urgent \union {a} ELSE urgent
  /\ sm' = CheckContent([sm EXCEPT !.appBlinking = urgent'], apps')
  /\ UNCHANGED <<open, ignored, asleep>>

(* entry_info_removed *)
AppEnded(a) ==
  /\ a \in Entries(apps)
  /\ apps' = TakenOut(apps, a)
  /\ urgent' = urgent \ {a} /\ ignored' = ignored \ {a} /\ asleep' = asleep \ {a}
  /\ LET m == [sm EXCEPT !.appBlinking = @ \ {a}]
     IN sm' = CheckContent(IF m.lastUrgent = a
                           THEN [ResetIcon(m, TRUE) EXCEPT !.lastUrgent = None] ELSE m, apps')
  /\ UNCHANGED open

(* What hd_switcher_menu_changed_info_cb does for a window with the hint or  *)
(* without it that is, as the menu finds it, ignored or not.                 *)
InfoChanged(m, a, hint, ignores) ==
  LET calls == hint /\ ~ignores
      hidden == At(apps, a) > SwitcherSlots \/ m.fullscreen
      m1 == IF ~hint /\ m.lastUrgent = a THEN [ResetIcon(m, TRUE) EXCEPT !.lastUrgent = None] ELSE m
      m2 == IF calls /\ hidden THEN [StartBlinking(m1) EXCEPT !.lastUrgent = a] ELSE m1
      m3 == [m2 EXCEPT !.appBlinking = IF ~calls THEN @ \ {a}
                                       ELSE IF m.inactive THEN @ ELSE @ \union {a}]
  IN IF ~hint /\ ignores THEN m ELSE IF m3.fullscreen /\ m3.blinks THEN Detach(m3) ELSE m3

(* entry_info_changed: the name, the icon or the hint of a window changed, or *)
(* it is back from hibernation.  The buttons of the switcher have the same   *)
(* signal, and whoever is told first clears the ignore flag.                 *)
WindowChanged(a, hint, wakes, buttonsFirst) ==
  /\ a \in Entries(apps)
  /\ wakes => a \in asleep
  /\ urgent' = IF hint THEN urgent \union {a} ELSE urgent \ {a}
  /\ ignored' = IF hint THEN ignored ELSE ignored \ {a}
  /\ asleep' = IF wakes THEN asleep \ {a} ELSE asleep
  /\ sm' = IF a \in asleep' THEN sm
           ELSE InfoChanged(sm, a, hint, a \in ignored /\ (hint \/ ~buttonsFirst))
  /\ UNCHANGED <<open, apps>>

(* Without a window: applications have changed, memory is low or not. *)
SomeChanged ==
  /\ sm' = [sm EXCEPT !.appBlinking = Calling(sm)]
  /\ UNCHANGED <<open, entryVars>>

(* hn_app_button_pop_menu and hd_wm_memory_bgkill_func; the menu is not told. *)
Ignore(a) ==
  /\ a \in urgent
  /\ ignored' = ignored \union {a}
  /\ UNCHANGED <<open, apps, urgent, asleep, sm>>

Hibernate(a) ==
  /\ a \in Entries(apps)
  /\ asleep' = asleep \union {a}
  /\ UNCHANGED <<open, apps, urgent, ignored, sm>>

(* hd_switcher_menu_fullscreen_cb *)
Fullscreen(on) ==
  /\ on # sm.fullscreen
  /\ LET m == [sm EXCEPT !.fullscreen = on]
         m1 == IF ~HasItems(m) THEN m ELSE IF on /\ m.blinks THEN Detach(m) ELSE Attach(m)
         slot == IF sm.lastUrgent \in Entries(apps) THEN At(apps, sm.lastUrgent) - 1 ELSE Len(apps)
         m2 == IF slot <= SwitcherSlots /\ m.blinkingId = None THEN ResetIcon(Attach(m1), TRUE)
               ELSE Attach(m1)
     IN sm' = IF on THEN m1 ELSE m2
  /\ UNCHANGED <<open, entryVars>>

(* hd_switcher_menu_display_state_cb *)
DisplayState(off) ==
  /\ off # sm.inactive
  /\ LET m == [sm EXCEPT !.inactive = off, !.appBlinking = Calling([sm EXCEPT !.inactive = off]),
                         !.blinking = IF off THEN {} ELSE {i \in sm.single : ~open[i].ack}]
     IN sm' = IF ~off /\ m.animation THEN StartBlinking(m) ELSE ResetIcon(m, FALSE)
  /\ UNCHANGED <<open, entryVars>>

(* hd_switcher_menu_auto_attach *)
AutoAttach ==
  /\ sm.timeouts > 0
  /\ sm' = [Attach(sm) EXCEPT !.timeouts = @ - 1]
  /\ UNCHANGED <<open, entryVars>>

MenuStep ==
  \/ \E i \in NoticeIds : \/ \E category \in Categories : Notified(i, category)
                          \/ NotificationGone(i) \/ ActivateSingle(i)
  \/ ActivateGroup \/ ClearAll \/ OpenMenu \/ CloseMenu
  \/ \E a \in AppEntries : AppEnded(a) \/ Ignore(a) \/ Hibernate(a)
  \/ \E a \in AppEntries, hint \in BOOLEAN : AppStarted(a, hint)
  \/ \E a \in AppEntries, hint, wakes, buttonsFirst \in BOOLEAN :
       WindowChanged(a, hint, wakes, buttonsFirst)
  \/ SomeChanged
  \/ \E on \in BOOLEAN : Fullscreen(on) \/ DisplayState(on)
  \/ AutoAttach

(* The bound on the number of timeouts under way. *)
MenuNext == MenuStep /\ sm'.timeouts <= MaxDetached

MenuSpec == MenuInit /\ [][MenuNext]_menuVars

---------------------------------------------------------------------------
(* An item never stands for a notification that has gone, and none for one  *)
(* that another item stands for.                                            *)
ItemsOpen == /\ sm.single \union sm.group \subseteq Opened(open)
             /\ sm.single \intersect sm.group = {}

(* What can be in no group is in the menu as long as it is open.  Members of *)
(* a group are not: when one is closed the item of the group goes.           *)
UngroupedListed == {i \in Opened(open) : open[i].category = "other"} \subseteq sm.single

AllListed == {i \in Opened(open) : open[i].category # "system.note"} \subseteq sm.single \union sm.group

(* Items blink until the menu was open, and only while the display is on.   *)
(* System notes are not followed: their items stay as they were.             *)
ItemsBlink ==
  LET followed == {i \in sm.single : open[i].category # "system.note"}
  IN sm.blinking \intersect followed =
       IF sm.inactive THEN {} ELSE {i \in followed : ~open[i].ack}

(* reset_main_icon releases animation_icon: it is there whenever the button *)
(* shows the animation, and a menu that is open or a display that is off    *)
(* shows none.                                                               *)
BlinkingHasPixbuf ==
  /\ sm.blinks => sm.animation
  /\ sm.isOpen \/ sm.inactive => ~sm.blinks

(* The item of an application that wants attention blinks while the display *)
(* is on, also when it asked for it while the display was off or while it    *)
(* slept.                                                                    *)
CallsBlink == ~sm.inactive => (urgent \ ignored) \ asleep \subseteq sm.appBlinking

(* last_urgent_info, a plain pointer, is never one to a window that is gone. *)
UrgentHere == sm.lastUrgent # None => sm.lastUrgent \in Entries(apps)

(* A button in a window of its own comes back to the panel: it is there only *)
(* above full-screen applications, with a timeout that ends it.              *)
DetachedReturns == ~sm.attached => sm.fullscreen /\ sm.timeouts > 0

(* The lists of the switcher menu and of its buttons tell of the same items, and *)
(* a detached menu comes back. *)
MenuInv ==
  /\ MenuTypeOK
  /\ ItemsOpen
  /\ UngroupedListed
  /\ ItemsBlink
  /\ CallsBlink
  /\ UrgentHere
  /\ BlinkingHasPixbuf
  /\ DetachedReturns

=============================================================================
