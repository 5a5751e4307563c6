------------------------- MODULE NotificationManager -------------------------
(***************************************************************************)
(* The notification manager of hildon-desktop.  Clients open, change and   *)
(* close notifications over D-Bus; the rows of a list store are those that *)
(* are open.  Notifications with the hint "persistent" are also kept in a  *)
(* database with tables for notifications, hints and actions, from which   *)
(* the list is filled when the desktop starts; others can have a timeout,  *)
(* whose GLib source is never removed.                                     *)
(*                                                                         *)
(* A D-Bus call and a timeout are one dispatch of the main loop each.      *)
(***************************************************************************)
EXTENDS Naturals, Sequences, NullPointer

CONSTANTS
  MaxId,        \* G_MAXUINT, the largest id
  Bodies,       \* texts
  HintChanges,  \* do clients change the persistent hint of a notification
  MaxSame,      \* bound: rows with the same id
  MaxTimers     \* bound: timeouts under way for the same id

Ids == 0 .. MaxId

(* timed, a history field: this notification asked for a timeout. *)
Row == [body : Bodies, persistent : BOOLEAN, timed : BOOLEAN]

ASSUME ManagerAssumption ==
  /\ MaxId \in Nat \ {0}
  /\ None \notin Bodies
  /\ HintChanges \in BOOLEAN
  /\ MaxSame \in Nat /\ MaxTimers \in Nat

VARIABLES
  rows,        \* per id: the rows of the list store that have it, in order
  current,     \* current_id
  stored,      \* per id: the text in the table of notifications
  details,     \* ids that have entries in the tables of hints and actions
  timeouts,    \* per id: how many timeouts are under way
  given,       \* history: ids given, or loaded, since the desktop started
  clashed      \* history: a row or a timeout had the id of a new notification since

managerVars == <<rows, current, stored, details, timeouts, given, clashed>>

ManagerTypeOK ==
  /\ rows \in [Ids -> Seq(Row)]
  /\ current \in 0 .. MaxId - 1
  /\ stored \in [Ids -> Bodies \union {None}]
  /\ details \subseteq Ids
  /\ timeouts \in [Ids -> Nat]
  /\ given \subseteq Ids /\ clashed \in BOOLEAN

ManagerInit ==
  /\ rows = [i \in Ids |-> <<>>]
  /\ current = 0
  /\ stored = [i \in Ids |-> None]
  /\ details = {} /\ timeouts = [i \in Ids |-> 0]
  /\ given = {} /\ clashed = FALSE

(* hildon_desktop_notification_manager_find_by_id: the first row of rows[i]. *)
Listed(i) == rows[i] # <<>>

(* The ids the search for a new one tries before i: ++current_id wraps. *)
Tried(i) ==
  IF i > current THEN current + 1 .. i - 1 ELSE (current + 1 .. MaxId) \union (0 .. i - 1)

(* Mutant: as when built without the database. *)
IsNextIdBlind(i) == i = current + 1

(* hildon_desktop_notification_manager_next_id: the first id from current_id *)
(* on that is not in the database.                                           *)
IsNextId(i) == stored[i] = None /\ \A j \in Tried(i) : stored[j] # None

---------------------------------------------------------------------------
(* A transaction that inserts fails as a whole when there are hints or      *)
(* actions for the id already: (id, nid) is their primary key.              *)
DbInsert(i, body) ==
  IF i \in details THEN UNCHANGED <<stored, details>>
  ELSE stored' = [stored EXCEPT ![i] = body] /\ details' = details \union {i}

(* Mutant: only the list is updated. *)
DbUpdateNothing(i, body) == UNCHANGED <<stored, details>>

(* The update of a notification that is not in the table still inserts hints. *)
DbUpdate(i, body) ==
  /\ stored' = IF stored[i] = None THEN stored ELSE [stored EXCEPT ![i] = body]
  /\ details' = details \union {i}

DbDelete(S) ==
  /\ stored' = [i \in Ids |-> IF i \in S THEN None ELSE stored[i]]
  /\ details' = details \ S

StartTimer(i, persistent, timed) ==
  IF ~persistent /\ timed
  THEN timeouts[i] < MaxTimers /\ timeouts' = [timeouts EXCEPT ![i] = @ + 1]
  ELSE UNCHANGED timeouts

(* hildon_desktop_notification_manager_notify for an id that is not listed. *)
(* Only the database is asked whether the new id is in use.                 *)
NotifyNew(i, body, persistent, timed) ==
  /\ \E passed \in Ids : ~Listed(passed)
  /\ IsNextId(i)
  /\ Len(rows[i]) < MaxSame
  /\ current' = IF i = MaxId THEN 0 ELSE i
  /\ rows' = [rows EXCEPT ![i] =
                Append(@, [body |-> body, persistent |-> persistent, timed |-> timed])]
  /\ IF persistent THEN DbInsert(i, body) ELSE UNCHANGED <<stored, details>>
  /\ StartTimer(i, persistent, timed)
  /\ given' = given \union {i}
  /\ clashed' = (clashed \/ Listed(i) \/ timeouts[i] > 0)

(* The row keeps its hints, whatever the new ones. *)
Changed(row, body, timed) == [row EXCEPT !.body = body, !.timed = @ \/ timed]

(* The same for one that is listed. *)
NotifyChange(i, body, persistent, timed) ==
  /\ Listed(i)
  /\ HintChanges \/ \E k \in DOMAIN rows[i] : persistent = rows[i][k].persistent
  /\ rows' = [rows EXCEPT ![i][1] = Changed(@, body, timed)]
  /\ IF persistent THEN DbUpdate(i, body) ELSE UNCHANGED <<stored, details>>
  /\ StartTimer(i, persistent, timed)
  /\ UNCHANGED <<current, given, clashed>>

(* The first row of an id goes; if it persists, it leaves the database first. *)
Remove(i) ==
  /\ rows' = [rows EXCEPT ![i] = Tail(@)]
  /\ DbDelete(IF Head(rows[i]).persistent THEN {i} ELSE {})
  /\ UNCHANGED <<current, given, clashed>>

CloseNotification(i) == Listed(i) /\ Remove(i) /\ UNCHANGED timeouts

(* hildon_desktop_notification_manager_timeout closes what has the id now. *)
Timeout(i) ==
  /\ timeouts[i] > 0
  /\ timeouts' = [timeouts EXCEPT ![i] = @ - 1]
  /\ IF Listed(i) THEN Remove(i) ELSE UNCHANGED <<rows, current, stored, details, given, clashed>>

CloseAll ==
  /\ \E i \in Ids : Listed(i)
  /\ rows' = [i \in Ids |-> <<>>]
  /\ DbDelete({i \in Ids : \E k \in DOMAIN rows[i] : rows[i][k].persistent})
  /\ UNCHANGED <<current, timeouts, given, clashed>>

(* The desktop ends or crashes and starts again, and loads the table. *)
ManagerRestart ==
  /\ rows' = [i \in Ids |-> IF stored[i] = None THEN <<>>
                ELSE <<[body |-> stored[i], persistent |-> TRUE, timed |-> FALSE]>>]
  /\ current' = 0
  /\ timeouts' = [i \in Ids |-> 0]
  /\ given' = {i \in Ids : stored[i] # None}
  /\ clashed' = FALSE
  /\ UNCHANGED <<stored, details>>

ManagerNext ==
  \/ \E i \in Ids, body \in Bodies, persistent, timed \in BOOLEAN :
       NotifyNew(i, body, persistent, timed) \/ NotifyChange(i, body, persistent, timed)
  \/ \E i \in Ids : CloseNotification(i) \/ Timeout(i)
  \/ CloseAll
  \/ ManagerRestart

ManagerSpec == ManagerInit /\ [][ManagerNext]_managerVars

---------------------------------------------------------------------------
(* Every id but 0, which means none, has been given or loaded since the start. *)
AllGiven == 1 .. MaxId \subseteq given

(* A new notification has the id of one that is open, or of a timeout that  *)
(* is under way, only when the ids have been used up, although they start   *)
(* again at 1 with the desktop while old notifications are loaded.          *)
NewIdsFree == \A i \in Ids : IsNextId(i) /\ (Listed(i) \/ timeouts[i] > 0) => AllGiven

(* What would be there after a restart is exactly the open persistent       *)
(* notifications, one of each id, and the tables fit together, so that no   *)
(* later insert fails: even when ids have come round.                       *)
KeptStored ==
  /\ details = {i \in Ids : stored[i] # None}
  /\ \A i \in Ids : \A k \in DOMAIN rows[i] :
       rows[i][k].persistent => k = Len(rows[i]) /\ stored[i] # None
  /\ \A i \in details : Listed(i) /\ rows[i][Len(rows[i])].persistent

(* Each has the text shown last, until an id is given to two. *)
TextsMatch ==
  ~clashed => \A i \in Ids : Listed(i) =>
    /\ Len(rows[i]) = 1
    /\ rows[i][1].persistent => stored[i] = rows[i][1].body

(* Sources are never removed, but until an id is given to two, one that is  *)
(* left over closes nothing: an open notification with a timeout under way  *)
(* has asked for it itself.                                                 *)
TimersOwn == ~clashed => \A i \in Ids : timeouts[i] > 0 /\ Listed(i) => rows[i][1].timed

(* What clients see: the texts of the rows, and the ids of those that persist. *)
OpenTexts == [i \in Ids |-> IF Listed(i) THEN rows[i][1].body ELSE None]
OpenKept == {i \in Ids : \E k \in DOMAIN rows[i] : rows[i][k].persistent}

(* It implements what clients are promised. *)
Promised == INSTANCE OpenNotifications
  WITH shown <- OpenTexts, kept <- OpenKept, used <- given, lost <- clashed

KeepsPromise == Promised!OpenSpec

(* Database, rows and timers of the notification manager tell of the same *)
(* notifications. *)
ManagerInv ==
  /\ ManagerTypeOK
  /\ NewIdsFree
  /\ KeptStored
  /\ TextsMatch
  /\ TimersOwn

=============================================================================
