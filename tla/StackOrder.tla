----------------------------- MODULE StackOrder -----------------------------
(***************************************************************************)
(* The stacking order of the window manager as a sequence of clients from  *)
(* bottom to top, and what the operations of stack.c do to it.  The        *)
(* pointer structure that implements it is in MatchboxStack.               *)
(***************************************************************************)
EXTENDS Naturals, Sequences, NullPointer

CONSTANT
  Clients   \* managed windows

ASSUME StackAssumption == None \notin Clients

Pointer == Clients \union {None}

Members(o) == {o[k] : k \in 1 .. Len(o)}
Distinct(o) == \A j, k \in 1 .. Len(o) : o[j] = o[k] => j = k

(* The place of a client from the bottom; below all of them for None. *)
Place(o, b) == IF b = None THEN 0 ELSE CHOOSE k \in 1 .. Len(o) : o[k] = b

InsertAt(o, p, c) == SubSeq(o, 1, p) \o <<c>> \o SubSeq(o, p + 1, Len(o))

DeleteAt(o, p) == SubSeq(o, 1, p - 1) \o SubSeq(o, p + 1, Len(o))

PutAbove(o, c, b) == InsertAt(o, Place(o, b), c)
Without(o, c) == DeleteAt(o, Place(o, c))

(* stack_move_above_client *)
MoveAbove(o, c, b) == IF c = b THEN o ELSE PutAbove(Without(o, c), c, b)
=============================================================================
