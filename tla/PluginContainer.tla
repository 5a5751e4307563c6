---------------------------- MODULE PluginContainer ----------------------------
(* One container of HDDesktop: its items, the configuration files that name   *)
(* them, the desktop files of the plugins, and the monitors of all three.     *)
(* The home area ("home") is not ordered, loads new plugins by itself and     *)
(* saves when an item goes; a "panel" is ordered; a "navigator" is a panel    *)
(* under the policy of the task navigator.                                    *)
EXTENDS Integers, Sequences, FiniteSets, NullPointer, Lists

CONSTANTS
  ByName,         \* the plugins, in the order the dialog lists them
  Broken,         \* those whose library cannot be loaded
  Temporary,      \* those whose desktop file goes with them
  ConfLists,          \* what others write to a configuration file
  AppsMenu, Contact, Browser, AppSwitcher, MenuSwitcher,   \* known to the policy
  Fallback,       \* the item shown when the default plugin of a position fails
  MaxMonitored    \* others change no files while so many events wait

Plugin == Entries(ByName)

Names == Plugin \union {Fallback}

(* The groups of a key file have different names. *)
ASSUME ContainerAssumption ==
  /\ ByName \in Seq(Plugin) /\ Once(ByName)
  /\ Broken \union Temporary \subseteq Plugin
  /\ \A list \in ConfLists : list \in Seq(Plugin) /\ Once(list)
  /\ None \notin Seq(Names)

VARIABLE shell

MonitorEvent(type, plugin) == [type |-> type, plugin |-> plugin]
UserConf == MonitorEvent("user", None)
SystemConf == MonitorEvent("system", None)

Emptied(kind) ==
  [kind |-> kind, items |-> <<>>, conf |-> None, system |-> None,
   installed |-> Plugin, events |-> <<>>, ignore |-> FALSE, dialog |-> None,
   \* of what has happened, for the properties:
   failed |-> FALSE, missed |-> {}, last |-> <<>>]

HasFile(s, id) == id \in s.installed
-----------------------------------------------------------------------------
(* The policy of the task navigator. *)
Gaps(list) == Among(list, Entries(list) \ {AppSwitcher, MenuSwitcher})

FilterPluginList(list) ==
  LET gaps == Gaps(list)
      three == SubSeq(gaps, 1, IF Len(gaps) < 3 THEN Len(gaps) ELSE 3)
      hasMenu(l) == AppsMenu \in Entries(l)
      taken == IF Len(three) = 3 /\ ~hasMenu(SubSeq(three, 1, 2))
                 THEN <<three[1], three[2], Browser>> ELSE three
      withMenu == IF Len(taken) < 3 /\ ~hasMenu(taken) THEN <<AppsMenu>> \o taken ELSE taken
      filled == IF Len(withMenu) < 3 THEN withMenu \o <<Contact, Browser>> ELSE withMenu
  IN filled \o <<AppSwitcher, MenuSwitcher>>

Defaults == <<AppsMenu, Contact, Browser, AppSwitcher, MenuSwitcher>>

Filtered(kind, list) == IF kind = "navigator" THEN FilterPluginList(list) ELSE list
-----------------------------------------------------------------------------
(* Items loaded into the container. *)
Loads(s, id) == HasFile(s, id) /\ id \notin Broken

HandleFailure(s, id, position) ==
  LET missed == [s EXCEPT !.missed = @ \union {id}]
  IN IF s.kind # "navigator" \/ position > Len(Defaults) THEN missed
     ELSE [missed EXCEPT !.items =
             Append(@, IF Loads(s, Defaults[position]) THEN Defaults[position] ELSE Fallback)]

LoadPlugin(s, id, position) ==
  IF Loads(s, id) THEN [s EXCEPT !.items = Append(@, id)] ELSE HandleFailure(s, id, position)

LoadAll(s, list) ==
  LET filtered == Filtered(s.kind, list)
      loaded[n \in 0 .. Len(filtered)] ==
        IF n = 0 THEN [s EXCEPT !.items = <<>>, !.missed = {}, !.last = list]
        ELSE LoadPlugin(loaded[n - 1], filtered[n], n)
  IN loaded[Len(filtered)]

(* A group of the key file for each item: one that is repeated counts once. *)
Groups(list) ==
  Picked(list, {n \in DOMAIN list : \A m \in DOMAIN list : m < n => list[m] # list[n]})

ListToConf(s, list, ok) ==
  IF ok THEN [s EXCEPT !.conf = Groups(list), !.events = Append(@, UserConf)]
        ELSE [s EXCEPT !.failed = TRUE]

ContainerSave(s, ok) == ListToConf([s EXCEPT !.ignore = TRUE], s.items, ok)

SavesOnRemove(s) == s.kind = "home" /\ s.dialog = None

(* An item that is not listed any more. *)
DestroyItem(s, id, ok) ==
  LET gone == IF s.kind = "home" THEN [s EXCEPT !.items = TakenOut(@, id)] ELSE s
      saved == IF SavesOnRemove(s) THEN ContainerSave(gone, ok) ELSE gone
  IN IF id \in Temporary /\ HasFile(s, id)
       THEN [saved EXCEPT !.installed = @ \ {id}, !.events = Append(@, MonitorEvent("deleted", id))]
       ELSE saved

(* One item of the list: left from what was loaded, or loaded. *)
SyncItem(t, id, position) ==
  IF id \notin Entries(t.left) THEN [t EXCEPT !.shell = LoadPlugin(@, id, position)]
  ELSE IF HasFile(t.shell, id)
    THEN [left |-> TakenOut(t.left, id),
          shell |-> IF t.shell.kind = "home" THEN t.shell
                    ELSE [t.shell EXCEPT !.items = Append(@, id)]]
    ELSE [t EXCEPT !.shell = HandleFailure(@, id, position)]

DestroyAll(t, ok) ==
  LET destroyed[n \in 0 .. Len(t.left)] ==
        IF n = 0 THEN t.shell ELSE DestroyItem(destroyed[n - 1], t.left[n], ok)
  IN destroyed[Len(t.left)]

Sync(s, list, ok) ==
  LET filtered == Filtered(s.kind, list)
      start == [s EXCEPT !.items = IF s.kind = "home" THEN @ ELSE <<>>,
                         !.missed = {}, !.last = list]
      added[n \in 0 .. Len(filtered)] ==
        IF n = 0 THEN [left |-> s.items, shell |-> start]
        ELSE SyncItem(added[n - 1], filtered[n], n)
  IN DestroyAll(added[Len(filtered)], ok)
-----------------------------------------------------------------------------
(* The configuration files. *)
ConfList(s) == IF s.conf # None THEN s.conf ELSE IF s.system # None THEN s.system ELSE <<>>

(* A user without a file gets a copy of the system's. *)
ConfFilePath(s, ok) ==
  IF s.conf = None /\ s.system # None /\ ok
    THEN [s EXCEPT !.conf = s.system, !.events = Append(@, UserConf)] ELSE s

(* Mutant: once something is saved, the monitor stays deaf. *)
ConfIgnored(s, ok) ==
  IF s.ignore THEN s ELSE Sync(ConfFilePath(s, ok), ConfList(s), ok)

(* The news of what the container itself has saved is passed over. *)
ConfChanged(s, ok) ==
  IF s.ignore THEN [s EXCEPT !.ignore = FALSE]
  ELSE Sync(ConfFilePath(s, ok), ConfList(s), ok)

SystemConfChanged(s, ok) == IF s.conf # None THEN s ELSE ConfChanged(s, ok)

(* What is in the container is written, not what was in the file. *)
PluginDirChanged(s, event, ok) ==
  LET new == IF s.kind = "home" /\ event.type = "created" THEN <<event.plugin>> ELSE <<>>
      present == Among(s.items, s.installed)
  IN IF new # <<>> \/ present # s.items THEN ListToConf(s, new \o present, ok) ELSE s

HandleMonitor ==
  /\ shell.events # <<>>
  /\ \E ok \in BOOLEAN :
       LET event == Head(shell.events)
           s == [shell EXCEPT !.events = Tail(@)]
       IN shell' = CASE event = UserConf -> ConfChanged(s, ok)
                     [] event = SystemConf -> SystemConfChanged(s, ok)
                     [] OTHER -> PluginDirChanged(s, event, ok)
-----------------------------------------------------------------------------
(* What others do to the files, and the user to the container. *)
Quiet == Len(shell.events) < MaxMonitored

Elsewhere(s, event) == shell' = [s EXCEPT !.events = Append(@, event)]

WriteUserConf == Quiet /\ \E list \in ConfLists \union {None} :
  shell.conf # list /\ Elsewhere([shell EXCEPT !.conf = list], UserConf)

WriteSystemConf == Quiet /\ \E list \in ConfLists \union {None} :
  shell.system # list /\ Elsewhere([shell EXCEPT !.system = list], SystemConf)

Install == Quiet /\ \E p \in Plugin \ shell.installed :
  Elsewhere([shell EXCEPT !.installed = @ \union {p}], MonitorEvent("created", p))

Uninstall == Quiet /\ \E p \in shell.installed :
  Elsewhere([shell EXCEPT !.installed = @ \ {p}], MonitorEvent("deleted", p))

CloseApplet == Quiet /\ \E id \in Entries(shell.items), ok \in BOOLEAN :
  /\ SavesOnRemove(shell)
  /\ shell' = ContainerSave([shell EXCEPT !.items = TakenOut(@, id)], ok)

OpenDialog == shell.dialog = None /\ shell' = [shell EXCEPT !.dialog = shell.installed]

(* The main loop runs on while the dialog is open. *)
SelectPlugins == Quiet /\ shell.dialog # None /\ \E chosen \in SUBSET shell.dialog, ok \in BOOLEAN :
     LET synced == Sync(shell, Among(ByName, chosen), ok)
     IN shell' = [ContainerSave(synced, ok) EXCEPT !.dialog = None]

CancelDialog == shell.dialog # None /\ shell' = [shell EXCEPT !.dialog = None]

StartShell(s, ok) ==
  [LoadAll(ConfFilePath(s, ok), ConfList(s)) EXCEPT
     !.events = <<>>, !.ignore = FALSE, !.dialog = None, !.failed = FALSE]

RestartShell == \E ok \in BOOLEAN : shell' = StartShell(shell, ok)

ContainerInit == \E kind \in {"home", "panel", "navigator"}, list \in ConfLists :
  shell = StartShell([Emptied(kind) EXCEPT !.system = list], TRUE)

ContainerNext ==
  \/ HandleMonitor
  \/ WriteUserConf \/ WriteSystemConf \/ Install \/ Uninstall
  \/ CloseApplet \/ OpenDialog \/ SelectPlugins \/ CancelDialog
  \/ RestartShell

ContainerSpec == ContainerInit /\ [][ContainerNext]_shell
-----------------------------------------------------------------------------
ContainerTypeOK ==
  /\ shell.kind \in {"home", "panel", "navigator"}
  /\ Entries(shell.items) \subseteq Names
  /\ shell.installed \subseteq Plugin

(* Without a policy no plugin is in a container twice. *)
NoPluginTwice == shell.kind # "navigator" => Once(shell.items)

(* When no monitor has news, and no write has failed, the container holds    *)
(* what its file names and could be loaded, in that order if it is ordered;  *)
(* one with a policy was made from what the file names, or wrote the file.   *)
ContainerInStep ==
  shell.events = <<>> /\ ~shell.failed =>
    LET named == Among(ConfList(shell), Entries(ConfList(shell)) \ shell.missed)
    IN CASE shell.kind = "home" -> Entries(shell.items) = Entries(named)
         [] shell.kind = "panel" -> shell.items = named
         [] OTHER -> ConfList(shell) \in {shell.last, Groups(shell.items)}

(* The containers, their files and the monitors, whatever changes first.     *)
ContainerInv ==
  /\ ContainerTypeOK
  /\ NoPluginTwice
  /\ ContainerInStep
=============================================================================
