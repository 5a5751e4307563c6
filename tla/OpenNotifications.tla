-------------------------- MODULE OpenNotifications --------------------------
(***************************************************************************)
(* What the notification manager promises its clients: a notification is   *)
(* open under its id, with the text it was last given, until somebody      *)
(* closes it; when the desktop starts again, those that are persistent are *)
(* still there.  Only when every id has been used since the start can the  *)
(* promise be lost, until the desktop starts again.                        *)
(***************************************************************************)
EXTENDS Naturals, NullPointer

CONSTANTS Ids, Bodies

VARIABLES
  shown,  \* the text of each open notification
  kept,   \* the ids of open notifications that are persistent
  used,   \* the ids that were open since the desktop started
  lost    \* nothing is promised until the desktop starts again

openVars == <<shown, kept, used, lost>>

OpenInit == shown = [i \in Ids |-> None] /\ kept = {} /\ used = {} /\ lost = FALSE

Open(i, body, persistent) ==
  /\ shown[i] = None
  /\ shown' = [shown EXCEPT ![i] = body]
  /\ kept' = IF persistent THEN kept \union {i} ELSE kept
  /\ used' = used \union {i}

Change(i, body) ==
  /\ shown[i] # None
  /\ shown' = [shown EXCEPT ![i] = body]
  /\ UNCHANGED <<kept, used>>

CloseSome(S) ==
  /\ shown' = [i \in Ids |-> IF i \in S THEN None ELSE shown[i]]
  /\ kept' = kept \ S
  /\ UNCHANGED used

DesktopRestarts ==
  /\ shown' = [i \in Ids |-> IF i \in kept THEN shown[i] ELSE None]
  /\ used' = kept
  /\ UNCHANGED kept

Keep ==
  /\ ~lost /\ ~lost'
  /\ \/ \E S \in SUBSET {i \in Ids : shown[i] # None} : CloseSome(S)
     \/ \E i \in Ids, body \in Bodies :
          (\E persistent \in BOOLEAN : Open(i, body, persistent)) \/ Change(i, body)
     \/ DesktopRestarts

(* No id but 0 is left; from then on anything may happen. *)
Lose == (lost \/ Ids \ {0} \subseteq used) /\ lost'

(* Those that are persistent then are there again. *)
Recover == lost /\ ~lost' /\ used' = kept' /\ kept' = {i \in Ids : shown'[i] # None}

OpenNext == Keep \/ Lose \/ Recover

OpenSpec == OpenInit /\ [][OpenNext]_openVars
=============================================================================
