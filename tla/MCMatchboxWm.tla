---------------------------- MODULE MCMatchboxWm ----------------------------
(* Windows and their properties for checking MatchboxWm with TLC.  The windows *)
(* of a behaviour are those of one of the Casts: with a panel they change their *)
(* state (full screen, above), without one what they are transient for.        *)
EXTENDS MatchboxWm, TLC

CONSTANTS Casts, a1, a2, d1, d2, d3, d4, t, p

VARIABLE cast

MCType == [c \in Clients |-> CASE c \in {a1, a2} -> "app" [] c \in {d1, d2, d3, d4} -> "dialog"
                               [] c = t -> "desktop" [] c = p -> "panel"]

(* The windows of an app are its group; d3 and d4 are in none. *)
MCAppGroup == [c \in Clients |-> IF c \in {a2, t} THEN c ELSE a1]
MCGroups == [c \in Clients |-> IF c \in {d3, d4} THEN None ELSE a1]

(* d1 belongs to a1, d2 to d1, and other dialogs to nothing *)
MCChain == [c \in Clients |-> IF c = d1 THEN {a1} ELSE IF c = d2 THEN {d1} ELSE {None}]
(* d1 belongs to a1, directly or as the leader of its group *)
MCLeader == [c \in Clients |-> IF c = d1 THEN {a1, Unmanaged} ELSE {None}]

MCInit == WmInit /\ cast \in Casts

MCNext ==
  /\ WmNext /\ UNCHANGED cast
  /\ Managed(wm') \subseteq cast
  /\ IF p \in cast
       THEN d1 \in Managed(wm) => wm'.trans[d1] \in {wm.trans[d1], None}
       ELSE wm'.full = {} /\ wm'.above = {}

MCSpec == MCInit /\ [][MCNext]_<<wm, cast>>
=============================================================================
