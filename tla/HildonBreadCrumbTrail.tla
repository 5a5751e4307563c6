------------------------ MODULE HildonBreadCrumbTrail ------------------------
(***************************************************************************)
(* The bread crumb trail of libhildon1: a path of crumbs, the tip first,   *)
(* of which as many are shown as fit, and a button that leads to the one   *)
(* before the tip.  The layout is made later, when GTK allocates the size. *)
(***************************************************************************)
EXTENDS Naturals, Sequences, FiniteSets, NullPointer

CONSTANTS
  Crumbs,     \* crumbs of an application
  Natural,    \* the natural width of each one; above 1, which is what is kept
              \* when there is less room
  MaxWidth    \* widths of the trail, its button left out

ASSUME TrailAssumption ==
  Natural \in [Crumbs -> Nat \ {0, 1}] /\ MaxWidth \in Nat /\ None \notin Crumbs

VARIABLE trail

trailVars == <<trail>>

Elements(s) == {s[k] : k \in DOMAIN s}

TrailTypeOK ==
  /\ trail.items \in Seq(Crumbs)
  /\ \A j, k \in DOMAIN trail.items : j # k => trail.items[j] # trail.items[k]
  /\ trail.hidden \subseteq Elements(trail.items)  \* not child_visible
  /\ trail.width \in 0 .. MaxWidth
  /\ trail.focus \in Elements(trail.items) \union {None}
  /\ {trail.back, trail.queued, trail.crashed} \subseteq BOOLEAN

TrailInit ==
  trail = [items |-> <<>>, hidden |-> {}, width |-> MaxWidth, focus |-> None,
           back |-> FALSE,     \* sensitivity of the back button
           queued |-> FALSE,   \* is a layout to be made
           crashed |-> FALSE]  \* has the head of an empty list been read

(* hildon_bread_crumb_trail_remove, of one crumb after the other from the tip. *)
RemoveTips(x, n) ==
  LET gone == Elements(SubSeq(x.items, 1, n))
  IN [x EXCEPT !.items = SubSeq(@, n + 1, Len(@)), !.hidden = @ \ gone,
               !.back = Len(x.items) > n + 1, !.focus = IF @ \in gone THEN None ELSE @,
               !.queued = TRUE]

(* hildon_bread_crumb_trail_push, hildon_bread_crumb_trail_add *)
PushCrumb(x, c) ==
  [x EXCEPT !.items = <<c>> \o @, !.back = Len(x.items) > 0, !.queued = TRUE]

PlaceOf(s, c) == CHOOSE k \in DOMAIN s : s[k] = c

(* Mutant: the button that was pressed goes too. *)
ReturnBefore(x, c) ==
  RemoveTips(x, IF c \in Elements(x.items) THEN PlaceOf(x.items, c) ELSE Len(x.items))

(* The loop of crumb_activated_cb, from the tip until the crumb; all are     *)
(* removed if the application has removed it.                                *)
ReturnTo(x, c) ==
  LET n == IF c \in Elements(x.items) THEN PlaceOf(x.items, c) - 1 ELSE Len(x.items)
      y == RemoveTips(x, n)
  IN IF n = 0 THEN x
     ELSE IF x.focus \in Elements(SubSeq(x.items, 1, n)) /\ y.items # <<>>
     THEN [y EXCEPT !.focus = Head(y.items)] ELSE y

---------------------------------------------------------------------------
NaturalOf(s) == Cardinality(UNION {{k} \X (1 .. Natural[s[k]]) : k \in DOMAIN s})

(* Mutant: what does not fit keeps its place. *)
HiddenByWidth(x) ==
  {x.items[k] : k \in {j \in DOMAIN x.items : NaturalOf(SubSeq(x.items, 1, j)) > x.width}}

(* hildon_bread_crumb_trail_size_allocate: the crumbs that fit, and one more *)
(* if there is room for a part of it.  If not even the tip fits nothing is   *)
(* hidden or shown.                                                          *)
HiddenCrumbs(x) ==
  LET fit == CHOOSE k \in 0 .. Len(x.items) :
               /\ NaturalOf(SubSeq(x.items, 1, k)) <= x.width
               /\ k < Len(x.items) => NaturalOf(SubSeq(x.items, 1, k + 1)) > x.width
      part == IF fit < Len(x.items) /\ x.width > NaturalOf(SubSeq(x.items, 1, fit)) + 1
              THEN fit + 1 ELSE fit
  IN IF part = 0 THEN x.hidden
     ELSE Elements(x.items) \ Elements(SubSeq(x.items, 1, part))

SizeAllocate ==
  /\ trail.queued
  /\ trail' = [trail EXCEPT !.hidden = HiddenCrumbs(trail), !.queued = FALSE]

Resize(w) == w # trail.width /\ trail' = [trail EXCEPT !.width = w, !.queued = TRUE]

Push(c) == c \notin Elements(trail.items) /\ trail' = PushCrumb(trail, c)

(* hildon_bread_crumb_trail_pop, hildon_bread_crumb_trail_clear *)
Pop == trail.items # <<>> /\ trail' = RemoveTips(trail, 1)

Clear == trail.items # <<>> /\ trail' = RemoveTips(trail, Len(trail.items))

FocusCrumb(c) ==
  /\ c \in Elements(trail.items) \ trail.hidden
  /\ trail' = [trail EXCEPT !.focus = c]

(* crumb_activated_cb.  The application, asked first, takes n crumbs from the  *)
(* tip and says that it has not handled the click; what it does when it has    *)
(* is a step of its own.  If it has taken all of them the program crashes.     *)
TakenFirst(n) == IF n = 0 THEN trail ELSE RemoveTips(trail, n)

ActivateCrumb(c, n) ==
  trail' = IF n = Len(trail.items) THEN [TakenFirst(n) EXCEPT !.crashed = TRUE]
           ELSE ReturnTo(TakenFirst(n), c)

ClickCrumb(c, n) == c \in Elements(trail.items) \ trail.hidden /\ ActivateCrumb(c, n)

(* hildon_bread_crumb_trail_move_parent, by the back button or a key *)
MoveParent(n) == Len(trail.items) > 1 /\ ActivateCrumb(trail.items[2], n)

TrailNext ==
  /\ ~trail.crashed
  /\ \/ SizeAllocate \/ Pop \/ Clear
     \/ \E w \in 0 .. MaxWidth : Resize(w)
     \/ \E c \in Crumbs : Push(c) \/ FocusCrumb(c)
     \/ \E n \in 0 .. Len(trail.items) :
          MoveParent(n) \/ \E c \in Crumbs : ClickCrumb(c, n)

TrailSpec == TrailInit /\ [][TrailNext]_trailVars

---------------------------------------------------------------------------
(* The back button can be used exactly if there is a crumb to go back to.    *)
BackHasTarget == trail.back <=> Len(trail.items) > 1

(* After a layout what is shown is the end of the path, without gaps, and as   *)
(* much of it as there is room for: all but one crumb are shown in their      *)
(* natural width, that one has more than a pixel, and for the next one a      *)
(* pixel would be left at most.  Not if there is no room for any of the tip.  *)
EndOfPathShown ==
  ~trail.queued /\ trail.width > 1 =>
    \E k \in 0 .. Len(trail.items) :
      /\ Elements(trail.items) \ trail.hidden = Elements(SubSeq(trail.items, 1, k))
      /\ k > 0 => NaturalOf(SubSeq(trail.items, 1, k - 1)) + 1 < trail.width
      /\ k < Len(trail.items) => trail.width <= NaturalOf(SubSeq(trail.items, 1, k)) + 1

(* Whichever crumb is clicked, or led to by the back button, the path that    *)
(* leads to it stays, whatever the application removes above it; if it has    *)
(* removed that crumb too the whole path goes, and the program crashes if     *)
(* none is left for the loop to begin with.                                   *)
PathKept ==
  [][\A k \in DOMAIN trail.items, n \in 0 .. Len(trail.items) :
       ClickCrumb(trail.items[k], n) \/ (k = 2 /\ MoveParent(n)) =>
         /\ trail'.items = IF n < k THEN SubSeq(trail.items, k, Len(trail.items)) ELSE <<>>
         /\ trail'.crashed <=> n = Len(trail.items)]_trailVars

(* The back button leads to a crumb, and the end of the path is shown. *)
TrailInv ==
  /\ TrailTypeOK
  /\ BackHasTarget
  /\ EndOfPathShown

=============================================================================
