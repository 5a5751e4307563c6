----------------------------- MODULE SystemNotes -----------------------------
(***************************************************************************)
(* The dialogs hildon-desktop shows for system notifications.  A dialog    *)
(* that comes while others are in the queue waits behind them; when a      *)
(* dialog is destroyed the head of the queue goes and the next one that    *)
(* is still a widget is shown.  The head is the dialog on the screen only  *)
(* as long as nobody closes one that waits.  Infoprints are banners of     *)
(* their own.                                                              *)
(***************************************************************************)
EXTENDS Naturals, Sequences, NullPointer

CONSTANT Notes  \* notification ids in the order of their arrival, numbers

ASSUME NotesAssumption ==
  /\ Notes \subseteq Nat
  /\ None \notin {"dialog", "banner", "closed"}

VARIABLES
  notes,    \* per id: None before it comes, "dialog", "banner" or "closed"
  visible,  \* dialogs on the screen
  queue,    \* dialog_queue; destroyed dialogs can still be in it
  skipped   \* history: a dialog was closed while it waited

notesVars == <<notes, visible, queue, skipped>>

NotesTypeOK ==
  /\ notes \in [Notes -> {"dialog", "banner", "closed", None}]
  /\ visible \subseteq {n \in Notes : notes[n] = "dialog"}
  /\ queue \in Seq(Notes) /\ skipped \in BOOLEAN

NotesInit == notes = [n \in Notes |-> None] /\ visible = {} /\ queue = <<>> /\ skipped = FALSE

Waiting == {n \in Notes : notes[n] = "dialog" /\ n \notin visible}

IsNext(n) == notes[n] = None /\ \A o \in Notes : notes[o] = None => n <= o

(* Mutant: the queue does not keep dialogs back. *)
ReceivedAtOnce(n) ==
  /\ IsNext(n)
  /\ UNCHANGED skipped
  /\ \/ notes' = [notes EXCEPT ![n] = "banner"] /\ UNCHANGED <<visible, queue>>
     \/ /\ notes' = [notes EXCEPT ![n] = "dialog"]
        /\ visible' = visible \union {n}
        /\ queue' = Append(queue, n)

(* Mutant: dialogs come first in the queue. *)
ReceivedInFront(n) ==
  /\ IsNext(n)
  /\ UNCHANGED skipped
  /\ \/ notes' = [notes EXCEPT ![n] = "banner"] /\ UNCHANGED <<visible, queue>>
     \/ /\ notes' = [notes EXCEPT ![n] = "dialog"]
        /\ visible' = IF queue = <<>> THEN visible \union {n} ELSE visible
        /\ queue' = IF queue = <<>> THEN <<n>> ELSE <<Head(queue), n>> \o Tail(queue)

(* hd_desktop_system_notification_received *)
Received(n) ==
  /\ IsNext(n)
  /\ UNCHANGED skipped
  /\ \/ notes' = [notes EXCEPT ![n] = "banner"] /\ UNCHANGED <<visible, queue>>
     \/ /\ notes' = [notes EXCEPT ![n] = "dialog"]
        /\ visible' = IF queue = <<>> THEN visible \union {n} ELSE visible
        /\ queue' = Append(queue, n)

(* Mutant: the queue is left alone. *)
DestroyKeepsQueue(n) ==
  /\ notes' = [notes EXCEPT ![n] = "closed"]
  /\ visible' = visible \ {n}
  /\ skipped' = (skipped \/ n \notin visible)
  /\ UNCHANGED queue

(* Mutant: the next in the queue is shown, widget or not. *)
DestroyShowsAny(n) ==
  /\ notes' = [notes EXCEPT ![n] = "closed"]
  /\ skipped' = (skipped \/ n \notin visible)
  /\ queue' = IF queue = <<>> THEN <<>> ELSE Tail(queue)
  /\ visible' = (visible \union {queue[k] : k \in DOMAIN queue \intersect {2}}) \ {n}

(* The destroy handler of dialog n: the head is popped, then heads that are  *)
(* no widgets any more.  Dialog n still is one; memory of a dialog that is   *)
(* gone may look like one.                                                   *)
DestroyDialog(n) ==
  /\ notes' = [notes EXCEPT ![n] = "closed"]
  /\ skipped' = (skipped \/ n \notin visible)
  /\ \E k \in IF queue = <<>> THEN {0} ELSE 1 .. Len(queue) :
       LET rest == SubSeq(queue, k + 1, Len(queue))
           shown == IF rest = <<>> THEN {} ELSE {Head(rest)}
       IN /\ \A j \in 2 .. k : notes[queue[j]] = "closed"
          /\ queue' = rest
          /\ visible' = (visible \union {m \in shown : notes[m] = "dialog"}) \ {n}

(* hd_desktop_system_notification_dialog_response: the user answers what he *)
(* sees; the notification is closed, and that destroys the dialog.           *)
Response(n) == n \in visible /\ DestroyDialog(n)

(* The notification is closed by a client or times out. *)
Closed(n) ==
  \/ /\ notes[n] = "banner"
     /\ notes' = [notes EXCEPT ![n] = "closed"]
     /\ UNCHANGED <<visible, queue, skipped>>
  \/ notes[n] = "dialog" /\ DestroyDialog(n)

NotesNext == \E n \in Notes : Received(n) \/ Response(n) \/ Closed(n)

NotesSpec == NotesInit /\ [][NotesNext]_notesVars

---------------------------------------------------------------------------
(* A dialog never waits for nothing: while one waits, another one is on the *)
(* screen, and it still is in the queue.                                     *)
NoDialogStuck ==
  \A n \in Waiting : visible # {} /\ \E k \in DOMAIN queue : queue[k] = n

(* Dialogs come to the screen in the order of their notifications. *)
DialogsInTurn == \A n \in Waiting, m \in visible : m < n

(* As long as no dialog is closed while it waits, one is shown at a time.   *)
OneDialog == skipped \/ \A n, m \in visible : n = m

(* System notes are shown one at a time and in turn, and none is left behind. *)
NotesInv ==
  /\ NotesTypeOK
  /\ NoDialogStuck
  /\ DialogsInTurn
  /\ OneDialog

=============================================================================
