--------------------------- MODULE MatchboxStack ---------------------------
(***************************************************************************)
(* The window stack of the Matchbox window manager (stack.c): the clients  *)
(* form a doubly linked list between stack_bottom and stack_top.  Every    *)
(* operation updates the pointers by cases, for the ends of the list, an   *)
(* empty list and a single element, and the event handlers walk the list   *)
(* in both directions.                                                     *)
(*                                                                         *)
(* The history variable order is the stacking order the operations mean;   *)
(* the pointers have to describe it at all times.                          *)
(***************************************************************************)
EXTENDS StackOrder

VARIABLES
  links,  \* the above and below pointers of all clients, and those of Wm
  order   \* history variable: the clients from bottom to top

stackVars == <<links, order>>

Links == [above : [Clients -> Pointer], below : [Clients -> Pointer],
          top : Pointer, bottom : Pointer, items : Nat]

(* The pointer assignments "p->above = q", skipped when p is null.         *)
Set(f, p, q) == IF p = None THEN f ELSE [f EXCEPT ![p] = q]

(* stack_add_above_client *)
AddAbove(s, c, b) ==
  [above  |-> IF b = None
              THEN (IF s.bottom = None THEN s.above ELSE [s.above EXCEPT ![c] = s.bottom])
              ELSE [s.above EXCEPT ![c] = s.above[b], ![b] = c],
   below  |-> IF b = None
              THEN Set(s.below, s.bottom, c)
              ELSE Set([s.below EXCEPT ![c] = b], s.above[b], c),
   bottom |-> IF b = None THEN c ELSE s.bottom,
   top    |-> IF b = s.top THEN c ELSE s.top,
   items  |-> s.items + 1]

(* Mutant: stack_remove forgets that the client may be on top. *)
UnlinkKeepsTop(s, c) ==
  IF s.top = s.bottom
  THEN [above  |-> [s.above EXCEPT ![c] = None],
        below  |-> [s.below EXCEPT ![c] = None],
        bottom |-> None,
        top    |-> None,
        items  |-> s.items - 1]
  ELSE [above  |-> [Set(s.above, s.below[c], s.above[c]) EXCEPT ![c] = None],
        below  |-> [Set(s.below, s.above[c], s.below[c]) EXCEPT ![c] = None],
        bottom |-> IF c = s.bottom THEN s.above[c] ELSE s.bottom,
        top    |-> s.top,
        items  |-> s.items - 1]

(* stack_remove *)
Unlink(s, c) ==
  IF s.top = s.bottom
  THEN [above  |-> [s.above EXCEPT ![c] = None],
        below  |-> [s.below EXCEPT ![c] = None],
        bottom |-> None,
        top    |-> None,
        items  |-> s.items - 1]
  ELSE [above  |-> [Set(s.above, s.below[c], s.above[c]) EXCEPT ![c] = None],
        below  |-> [Set(s.below, s.above[c], s.below[c]) EXCEPT ![c] = None],
        bottom |-> IF c = s.bottom THEN s.above[c] ELSE s.bottom,
        top    |-> IF c = s.top THEN s.below[c] ELSE s.top,
        items  |-> s.items - 1]

(* stack_move_above_client *)
Relink(s, c, b) == IF c = b THEN s ELSE AddAbove(Unlink(s, c), c, b)

StackInit ==
  /\ links = [above |-> [c \in Clients |-> None], below |-> [c \in Clients |-> None],
              top |-> None, bottom |-> None, items |-> 0]
  /\ order = <<>>

-----------------------------------------------------------------------------
(* base_client_new: stack_prepend_bottom *)
PrependBottom(c) ==
  /\ c \notin Members(order)
  /\ links' = AddAbove(links, c, None)
  /\ order' = PutAbove(order, c, None)

(* Override-redirect windows: stack_append_top *)
AppendTop(c) ==
  /\ c \notin Members(order)
  /\ links' = AddAbove(links, c, links.top)
  /\ order' = PutAbove(order, c, IF order = <<>> THEN None ELSE order[Len(order)])

(* base_client_destroy: stack_remove *)
Remove(c) ==
  /\ c \in Members(order)
  /\ links' = Unlink(links, c)
  /\ order' = Without(order, c)

(* stack_move_above_client, with the null pointer for the bottom *)
Move(c, b) ==
  /\ c \in Members(order)
  /\ b \in Members(order) \union {None}
  /\ links' = Relink(links, c, b)
  /\ order' = MoveAbove(order, c, b)

(* stack_move_top *)
MoveTop(c) ==
  /\ c \in Members(order)
  /\ links' = Relink(links, c, links.top)
  /\ order' = MoveAbove(order, c, order[Len(order)])

StackNext ==
  \E c \in Clients :
    \/ PrependBottom(c)
    \/ AppendTop(c)
    \/ Remove(c)
    \/ \E b \in Clients \union {None} : Move(c, b)
    \/ MoveTop(c)

StackSpec == StackInit /\ [][StackNext]_stackVars
-----------------------------------------------------------------------------
StackTypeOK ==
  /\ links \in Links
  /\ order \in Seq(Clients)

(* The pointers describe the order: walking the list upward or downward    *)
(* meets each managed client once, in that order, and ends at null; a      *)
(* client out of the stack points nowhere.                                 *)
Agree(s, o) ==
  /\ Distinct(o)
  /\ s.items = Len(o)
  /\ s.bottom = IF Len(o) = 0 THEN None ELSE o[1]
  /\ s.top = IF Len(o) = 0 THEN None ELSE o[Len(o)]
  /\ \A k \in 1 .. Len(o) :
       /\ s.above[o[k]] = IF k = Len(o) THEN None ELSE o[k + 1]
       /\ s.below[o[k]] = IF k = 1 THEN None ELSE o[k - 1]
  /\ \A c \in Clients : c \notin Members(o) => s.above[c] = None /\ s.below[c] = None

LinksMatchOrder == Agree(links, order)

StackInv == StackTypeOK /\ LinksMatchOrder
=============================================================================
