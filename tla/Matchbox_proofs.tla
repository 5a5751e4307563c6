-------------------------- MODULE Matchbox_proofs --------------------------
(***************************************************************************)
(* Proofs about the Matchbox window manager, for any clients: the pointer  *)
(* updates of stack.c implement the operations on the stacking order; no   *)
(* pointer to a client that went away stays behind in stack_top_app,       *)
(* client_desktop or trans; the client in the foreground is mapped and on  *)
(* top; the desktop comes back; and dialogs that belong to no window stay  *)
(* above the others.                                                       *)
(***************************************************************************)
EXTENDS MatchboxStack, MatchboxWm, Lists_proofs, FiniteSetTheorems, TLAPS

(* A client in the stack has a place, and only one. *)
LEMMA PlaceFact ==
  ASSUME NEW o \in Seq(Clients), Distinct(o), NEW b \in Members(o)
  PROVE  /\ Place(o, b) \in 1 .. Len(o)
         /\ o[Place(o, b)] = b
         /\ b \in Clients
         /\ b # None
<1>1. PICK k \in 1 .. Len(o) : o[k] = b
  BY DEF Members
<1>2. b \in Clients /\ b # None
  BY <1>1, StackAssumption
<1>3. Place(o, b) = CHOOSE j \in 1 .. Len(o) : o[j] = b
  BY <1>2 DEF Place
<1> QED
  BY <1>1, <1>2, <1>3

(* What putting in and taking out an element give. *)
LEMMA InsertForm ==
  ASSUME NEW o \in Seq(Clients), NEW p \in 0 .. Len(o), NEW c \in Clients
  PROVE  InsertAt(o, p, c) =
           [k \in 1 .. Len(o) + 1 |-> IF k <= p THEN o[k] ELSE IF k = p + 1 THEN c ELSE o[k - 1]]
<1> DEFINE q == SubSeq(o, 1, p)
           r == SubSeq(o, p + 1, Len(o))
           t == q \o <<c>> \o r
<1>1. Len(o) \in Nat /\ \A k \in 1 .. Len(o) : o[k] \in Clients
  OBVIOUS
<1>2. q \in Seq(Clients) /\ Len(q) = p /\ \A k \in 1 .. p : q[k] = o[k]
  BY <1>1
<1>3. r \in Seq(Clients) /\ Len(r) = Len(o) - p /\ \A k \in 1 .. Len(o) - p : r[k] = o[p + k]
  BY <1>1
<1> HIDE DEF q, r
<1> DEFINE u == q \o <<c>>
<1>4. /\ u \in Seq(Clients) /\ Len(u) = p + 1
      /\ \A k \in 1 .. p + 1 : u[k] = IF k <= p THEN o[k] ELSE c
  <2>1. <<c>> \in Seq(Clients) /\ Len(<<c>>) = 1 /\ <<c>>[1] = c
    OBVIOUS
  <2>2. /\ u \in Seq(Clients) /\ Len(u) = Len(q) + Len(<<c>>)
        /\ \A k \in 1 .. Len(q) + Len(<<c>>) :
             u[k] = IF k <= Len(q) THEN q[k] ELSE <<c>>[k - Len(q)]
    BY <1>2, <2>1, ConcatProperties
  <2> HIDE DEF u
  <2> QED
    BY <1>1, <1>2, <2>1, <2>2
<1> HIDE DEF u
<1>5. /\ u \o r \in Seq(Clients) /\ Len(u \o r) = Len(u) + Len(r)
      /\ \A k \in 1 .. Len(u) + Len(r) : (u \o r)[k] = IF k <= Len(u) THEN u[k] ELSE r[k - Len(u)]
  BY <1>3, <1>4, ConcatProperties
<1>6. t = u \o r
  BY DEF u
<1> HIDE DEF t
<1>7. t \in Seq(Clients) /\ Len(t) = Len(o) + 1
  <2>1. (p + 1) + (Len(o) - p) = Len(o) + 1
    BY <1>1
  <2> QED
    BY <1>3, <1>4, <1>5, <1>6, <2>1
<1>8. \A k \in 1 .. Len(o) + 1 :
        t[k] = IF k <= p THEN o[k] ELSE IF k = p + 1 THEN c ELSE o[k - 1]
  <2> TAKE k \in 1 .. Len(o) + 1
  <2>1. t[k] = IF k <= p + 1 THEN u[k] ELSE r[k - (p + 1)]
    BY <1>1, <1>3, <1>4, <1>5, <1>6
  <2>2. CASE k <= p + 1
    BY <1>4, <2>1, <2>2
  <2>3. CASE k > p + 1
    <3>1. k - (p + 1) \in 1 .. Len(o) - p /\ p + (k - (p + 1)) = k - 1
      BY <1>1, <2>3
    <3>2. r[k - (p + 1)] = o[k - 1]
      BY <1>3, <3>1
    <3> QED
      BY <1>1, <2>1, <2>3, <3>2
  <2> QED
    BY <1>1, <2>2, <2>3
<1>9. t = [k \in 1 .. Len(o) + 1 |-> t[k]]
  BY <1>7
<1> QED
  BY <1>1, <1>8, <1>9 DEF InsertAt, t, q, r

LEMMA DeleteForm ==
  ASSUME NEW o \in Seq(Clients), NEW p \in 1 .. Len(o)
  PROVE  DeleteAt(o, p) = [k \in 1 .. Len(o) - 1 |-> IF k < p THEN o[k] ELSE o[k + 1]]
<1> DEFINE q == SubSeq(o, 1, p - 1)
           r == SubSeq(o, p + 1, Len(o))
           t == q \o r
<1>1. Len(o) \in Nat /\ \A k \in 1 .. Len(o) : o[k] \in Clients
  OBVIOUS
<1>2. q \in Seq(Clients) /\ Len(q) = p - 1 /\ \A k \in 1 .. p - 1 : q[k] = o[k]
  BY <1>1
<1>3. r \in Seq(Clients) /\ Len(r) = Len(o) - p /\ \A k \in 1 .. Len(o) - p : r[k] = o[p + k]
  BY <1>1
<1> HIDE DEF q, r
<1>4. /\ t \in Seq(Clients) /\ Len(t) = Len(q) + Len(r)
      /\ \A k \in 1 .. Len(q) + Len(r) : t[k] = IF k <= Len(q) THEN q[k] ELSE r[k - Len(q)]
  BY <1>2, <1>3, ConcatProperties
<1> HIDE DEF t
<1>5. (p - 1) + (Len(o) - p) = Len(o) - 1
  BY <1>1
<1>6. \A k \in 1 .. Len(o) - 1 : t[k] = IF k < p THEN o[k] ELSE o[k + 1]
  <2> TAKE k \in 1 .. Len(o) - 1
  <2>1. t[k] = IF k <= p - 1 THEN q[k] ELSE r[k - (p - 1)]
    BY <1>5, <1>1, <1>2, <1>3, <1>4
  <2>2. CASE k < p
    BY <1>1, <1>2, <2>1, <2>2
  <2>3. CASE k >= p
    <3>1. k - (p - 1) \in 1 .. Len(o) - p /\ p + (k - (p - 1)) = k + 1
      BY <1>1, <2>3
    <3>2. r[k - (p - 1)] = o[k + 1]
      BY <1>3, <3>1
    <3> QED
      BY <1>1, <2>1, <2>3, <3>2
  <2> QED
    BY <1>1, <2>2, <2>3
<1>7. t = [k \in 1 .. Len(o) - 1 |-> t[k]]
  BY <1>5, <1>1, <1>2, <1>3, <1>4
<1> QED
  BY <1>1, <1>6, <1>7 DEF DeleteAt, t, q, r

(* Putting in a new client keeps the others in their order. *)
LEMMA InsertFact ==
  ASSUME NEW o \in Seq(Clients), Distinct(o),
         NEW p \in 0 .. Len(o),
         NEW c \in Clients, c \notin Members(o)
  PROVE  /\ InsertAt(o, p, c) \in Seq(Clients)
         /\ Len(InsertAt(o, p, c)) = Len(o) + 1
         /\ Distinct(InsertAt(o, p, c))
         /\ Members(InsertAt(o, p, c)) = Members(o) \union {c}
<1> DEFINE q == InsertAt(o, p, c)
<1>1. /\ q = [k \in 1 .. Len(o) + 1 |->
                IF k <= p THEN o[k] ELSE IF k = p + 1 THEN c ELSE o[k - 1]]
      /\ Len(o) \in Nat
  BY InsertForm
<1>2. q \in Seq(Clients) /\ Len(q) = Len(o) + 1
  BY <1>1
<1>3. \A k \in 1 .. Len(o) + 1 :
        q[k] = IF k <= p THEN o[k] ELSE IF k = p + 1 THEN c ELSE o[k - 1]
  BY <1>1
<1> HIDE DEF q
<1>4. \A k \in 1 .. Len(o) : o[k] # c
  BY DEF Members
<1>5. Distinct(q)
  <2> SUFFICES ASSUME NEW j \in 1 .. Len(o) + 1, NEW k \in 1 .. Len(o) + 1,
                      q[j] = q[k], j < k
               PROVE  FALSE
    BY <1>1, <1>2 DEF Distinct
  <2>1. CASE k <= p
    BY <1>1, <1>3, <2>1 DEF Distinct
  <2>2. CASE k = p + 1
    BY <1>1, <1>3, <1>4, <2>2 DEF Distinct
  <2>3. CASE k > p + 1 /\ j <= p
    BY <1>1, <1>3, <2>3 DEF Distinct
  <2>4. CASE k > p + 1 /\ j = p + 1
    BY <1>1, <1>3, <1>4, <2>4 DEF Distinct
  <2>5. CASE k > p + 1 /\ j > p + 1
    BY <1>1, <1>3, <2>5 DEF Distinct
  <2> QED
    BY <1>1, <2>1, <2>2, <2>3, <2>4, <2>5
<1>6. Members(q) \subseteq Members(o) \union {c}
  <2> SUFFICES ASSUME NEW k \in 1 .. Len(o) + 1, q[k] # c
               PROVE  q[k] \in Members(o)
    BY <1>2 DEF Members
  <2>1. CASE k <= p
    BY <1>1, <1>3, <2>1 DEF Members
  <2>2. CASE k > p + 1
    BY <1>1, <1>3, <2>2 DEF Members
  <2> QED
    BY <1>1, <1>3, <2>1, <2>2
<1>7. c \in Members(q)
  <2>1. p + 1 \in 1 .. Len(o) + 1 /\ q[p + 1] = c
    BY <1>1, <1>3
  <2> QED
    BY <1>2, <2>1 DEF Members
<1>8. Members(o) \subseteq Members(q)
  <2> SUFFICES ASSUME NEW k \in 1 .. Len(o)
               PROVE  \E j \in 1 .. Len(o) + 1 : q[j] = o[k]
    BY <1>2 DEF Members
  <2>1. CASE k <= p
    BY <1>1, <1>3, <2>1
  <2>2. CASE k > p
    <3>1. k + 1 \in 1 .. Len(o) + 1 /\ q[k + 1] = o[k]
      BY <1>1, <1>3, <2>2
    <3> QED
      BY <3>1
  <2> QED
    BY <1>1, <2>1, <2>2
<1> QED
  BY <1>2, <1>5, <1>6, <1>7, <1>8 DEF q

(* Taking out a client keeps the others in their order. *)
LEMMA DeleteFact ==
  ASSUME NEW o \in Seq(Clients), Distinct(o), NEW c \in Members(o)
  PROVE  /\ Without(o, c) \in Seq(Clients)
         /\ Len(Without(o, c)) = Len(o) - 1
         /\ Distinct(Without(o, c))
         /\ Members(Without(o, c)) = Members(o) \ {c}
<1> DEFINE p == Place(o, c)
           q == DeleteAt(o, p)
<1>1. p \in 1 .. Len(o) /\ o[p] = c /\ Len(o) \in Nat /\ Without(o, c) = q
  BY PlaceFact DEF Without
<1> HIDE DEF p
<1>2. q = [k \in 1 .. Len(o) - 1 |-> IF k < p THEN o[k] ELSE o[k + 1]]
  BY <1>1, DeleteForm
<1>3. q \in Seq(Clients) /\ Len(q) = Len(o) - 1
  <2>1. Len(o) - 1 \in Nat
    BY <1>1
  <2>2. \A k \in 1 .. Len(o) - 1 : (IF k < p THEN o[k] ELSE o[k + 1]) \in Clients
    BY <1>1
  <2> QED
    BY <1>2, <2>1, <2>2
<1>4. \A k \in 1 .. Len(o) - 1 : q[k] = IF k < p THEN o[k] ELSE o[k + 1]
  BY <1>2
<1> HIDE DEF q
<1>5. Distinct(q)
  BY <1>1, <1>3, <1>4 DEF Distinct
<1>6. Members(q) \subseteq Members(o) \ {c}
  <2> SUFFICES ASSUME NEW k \in 1 .. Len(o) - 1
               PROVE  q[k] \in Members(o) \ {c}
    BY <1>3 DEF Members
  <2>1. CASE k < p
    BY <1>1, <1>4, <2>1 DEF Members, Distinct
  <2>2. CASE k >= p
    BY <1>1, <1>4, <2>2 DEF Members, Distinct
  <2> QED
    BY <1>1, <2>1, <2>2
<1>7. Members(o) \ {c} \subseteq Members(q)
  <2> SUFFICES ASSUME NEW k \in 1 .. Len(o), o[k] # c
               PROVE  \E j \in 1 .. Len(o) - 1 : q[j] = o[k]
    BY <1>3 DEF Members
  <2>1. CASE k < p
    BY <1>1, <1>4, <2>1
  <2>2. CASE k > p
    <3>1. k - 1 \in 1 .. Len(o) - 1 /\ q[k - 1] = o[k]
      BY <1>1, <1>4, <2>2
    <3> QED
      BY <3>1
  <2> QED
    BY <1>1, <2>1, <2>2
<1> QED
  BY <1>1, <1>3, <1>5, <1>6, <1>7

-----------------------------------------------------------------------------
(* stack_add_above_client with a client outside the stack. *)
LEMMA AddAgrees ==
  ASSUME NEW s \in Links, NEW o \in Seq(Clients), Agree(s, o),
         NEW c \in Clients, c \notin Members(o),
         NEW b \in Members(o) \union {None}
  PROVE  /\ AddAbove(s, c, b) \in Links
         /\ PutAbove(o, c, b) \in Seq(Clients)
         /\ Agree(AddAbove(s, c, b), PutAbove(o, c, b))
<1> DEFINE p == Place(o, b)
           q == PutAbove(o, c, b)
           t == AddAbove(s, c, b)
           n == Len(o)
<1>0. n \in Nat /\ \A k \in 1 .. n : o[k] \in Clients /\ o[k] # None /\ o[k] # c
  BY StackAssumption DEF Members
<1>1. /\ p \in 0 .. n
      /\ b = None => p = 0
      /\ b # None => p \in 1 .. n /\ o[p] = b /\ b \in Clients /\ b # c
  BY <1>0, PlaceFact DEF Place, Agree
<1>2. /\ q \in Seq(Clients) /\ Len(q) = n + 1
      /\ Distinct(q) /\ Members(q) = Members(o) \union {c}
  BY <1>1, InsertFact DEF PutAbove, Agree
<1>3. \A k \in 1 .. n + 1 :
        q[k] = IF k <= p THEN o[k] ELSE IF k = p + 1 THEN c ELSE o[k - 1]
  BY <1>0, <1>1, InsertForm DEF PutAbove
<1>4. /\ Distinct(o) /\ s.items = n
      /\ s.bottom = IF n = 0 THEN None ELSE o[1]
      /\ s.top = IF n = 0 THEN None ELSE o[n]
      /\ \A k \in 1 .. n : /\ s.above[o[k]] = IF k = n THEN None ELSE o[k + 1]
                           /\ s.below[o[k]] = IF k = 1 THEN None ELSE o[k - 1]
      /\ \A d \in Clients : d \notin Members(o) => s.above[d] = None /\ s.below[d] = None
  BY DEF Agree
<1>5. /\ s.above \in [Clients -> Pointer] /\ s.below \in [Clients -> Pointer]
      /\ s.top \in Pointer /\ s.bottom \in Pointer /\ s.items \in Nat
  BY DEF Links
<1>6. c # None /\ None \notin Clients
  BY StackAssumption
(* The client above the new place, if there is one. *)
<1> DEFINE up == IF p = n THEN None ELSE o[p + 1]
<1>7. /\ b # None => s.above[b] = up
      /\ b = None => s.bottom = up
      /\ up \in Pointer /\ up # c
      /\ up # None => p < n /\ up = o[p + 1]
  <2>1. CASE p = n
    <3>1. up = None
      BY <2>1
    <3>2. b # None => s.above[b] = None
      BY <1>0, <1>1, <1>4, <2>1
    <3>3. b = None => s.bottom = None
      BY <1>0, <1>1, <1>4, <2>1
    <3> QED
      BY <1>6, <3>1, <3>2, <3>3 DEF Pointer
  <2>2. CASE p # n
    <3>1. p + 1 \in 1 .. n /\ p < n /\ up = o[p + 1]
      BY <1>0, <1>1, <2>2
    <3>2. up \in Clients /\ up # c
      BY <1>0, <3>1
    <3>3. b # None => s.above[b] = up
      BY <1>1, <1>4, <2>2, <3>1
    <3>4. b = None => s.bottom = up
      BY <1>0, <1>1, <1>4, <3>1
    <3> QED
      BY <3>1, <3>2, <3>3, <3>4 DEF Pointer
  <2> QED
    BY <2>1, <2>2
<1>8. /\ t.items = n + 1
      /\ t.bottom = IF b = None THEN c ELSE s.bottom
      /\ t.top = IF b = s.top THEN c ELSE s.top
  BY <1>4 DEF AddAbove
<1>9. /\ t.above[c] = up
      /\ t.below[c] = b
      /\ t.above \in [Clients -> Pointer] /\ t.below \in [Clients -> Pointer]
      /\ \A d \in Clients : d # c =>
           /\ t.above[d] = IF d = b THEN c ELSE s.above[d]
           /\ t.below[d] = IF d = up THEN c ELSE s.below[d]
  <2>1. CASE b = None
    <3>1. /\ t.above = IF up = None THEN s.above ELSE [s.above EXCEPT ![c] = up]
          /\ t.below = IF up = None THEN s.below ELSE [s.below EXCEPT ![up] = c]
      BY <1>7, <2>1 DEF AddAbove, Set
    <3>2. s.above[c] = None /\ s.below[c] = None
      BY <1>4
    <3> HIDE DEF t, up
    <3> QED
      BY <1>5, <1>6, <1>7, <2>1, <3>1, <3>2 DEF Pointer
  <2>2. CASE b # None
    <3>1. /\ t.above = [s.above EXCEPT ![c] = up, ![b] = c]
          /\ t.below = IF up = None THEN [s.below EXCEPT ![c] = b]
                       ELSE [s.below EXCEPT ![c] = b, ![up] = c]
      BY <1>7, <2>2 DEF AddAbove, Set
    <3> HIDE DEF t, up
    <3>2. /\ up # None => up \in Clients
          /\ b \in Clients /\ b # c /\ up # c
      BY <1>1, <1>7, <2>2 DEF Pointer
    <3>3. /\ t.above \in [Clients -> Pointer] /\ t.above[c] = up
          /\ \A d \in Clients : d # c => t.above[d] = IF d = b THEN c ELSE s.above[d]
      BY <1>5, <1>7, <3>1, <3>2 DEF Pointer
    <3>4. CASE up = None
      BY <1>5, <1>6, <3>1, <3>2, <3>3, <3>4 DEF Pointer
    <3>5. CASE up # None
      BY <1>5, <1>6, <3>1, <3>2, <3>3, <3>5 DEF Pointer
    <3> QED
      BY <3>4, <3>5
  <2> QED
    BY <2>1, <2>2
<1>10. t \in Links
  <2>1. t = [above |-> t.above, below |-> t.below, top |-> t.top,
             bottom |-> t.bottom, items |-> t.items]
    BY DEF AddAbove
  <2>2. t.top \in Pointer /\ t.bottom \in Pointer /\ t.items \in Nat
    BY <1>0, <1>5, <1>8 DEF Pointer
  <2> HIDE DEF t
  <2> QED
    BY <1>9, <2>1, <2>2 DEF Links
<1> HIDE DEF t, q, p, up
<1>11. ASSUME NEW k \in 1 .. n + 1
       PROVE  /\ t.above[q[k]] = IF k = n + 1 THEN None ELSE q[k + 1]
              /\ t.below[q[k]] = IF k = 1 THEN None ELSE q[k - 1]
  <2>1. CASE k < p
    <3>1. q[k] = o[k] /\ q[k + 1] = o[k + 1] /\ k + 1 \in 1 .. n
      BY <1>0, <1>1, <1>3, <2>1
    <3>2. k # 1 => q[k - 1] = o[k - 1]
      BY <1>0, <1>1, <1>3, <2>1
    <3>3. o[k] # b /\ o[k] # up
      <4>1. k \in 1 .. n /\ p \in 1 .. n /\ b = o[p] /\ k # p /\ k # p + 1
        BY <1>0, <1>1, <2>1
      <4>2. \A j \in 1 .. n : o[j] = o[k] => j = k
        BY <1>4, <4>1 DEF Distinct
      <4>3. up # None => p + 1 \in 1 .. n /\ up = o[p + 1]
        BY <1>0, <1>7, <4>1
      <4>4. o[k] # None
        BY <1>0, <4>1
      <4> QED
        BY <4>1, <4>2, <4>3, <4>4
    <3>4. k # n /\ k # n + 1
      BY <1>0, <1>1, <2>1
    <3>5. k \in 1 .. n
      BY <1>0, <1>1, <2>1
    <3>6. o[k] \in Clients /\ o[k] # c
      BY <1>0, <3>5
    <3>7. t.above[o[k]] = s.above[o[k]] /\ t.below[o[k]] = s.below[o[k]]
      BY <1>9, <3>3, <3>6
    <3>8. /\ s.above[o[k]] = o[k + 1]
          /\ s.below[o[k]] = IF k = 1 THEN None ELSE o[k - 1]
      BY <1>4, <3>4, <3>5
    <3> QED
      BY <3>1, <3>2, <3>4, <3>7, <3>8
  <2>2. CASE k = p
    <3>1. q[k] = b /\ q[k + 1] = c /\ b # None /\ k \in 1 .. n /\ o[k] = b
      BY <1>0, <1>1, <1>3, <2>2
    <3>2. k # 1 => q[k - 1] = o[k - 1]
      BY <1>0, <1>1, <1>3, <2>2
    <3>3. b # up
      <4>1. up # None => p + 1 \in 1 .. n /\ up = o[p + 1]
        BY <1>0, <1>1, <1>7
      <4>2. o[k] # None /\ \A j \in 1 .. n : o[j] = o[k] => j = k
        BY <1>0, <1>4, <3>1 DEF Distinct
      <4>3. p + 1 # k
        BY <1>1, <2>2
      <4> QED
        BY <3>1, <4>1, <4>2, <4>3
    <3>4. t.above[b] = c /\ t.below[b] = s.below[b]
      BY <1>1, <1>9, <3>1, <3>3
    <3>5. s.below[b] = IF k = 1 THEN None ELSE o[k - 1]
      BY <1>4, <3>1
    <3>6. k # n + 1
      BY <1>0, <3>1
    <3> QED
      BY <3>1, <3>2, <3>4, <3>5, <3>6
  <2>3. CASE k = p + 1
    <3>1. q[k] = c
      BY <1>0, <1>1, <1>3, <2>3
    <3>2. k # n + 1 => q[k + 1] = o[k] /\ up = o[k]
      BY <1>0, <1>1, <1>3, <2>3 DEF up
    <3>3. k = n + 1 => up = None
      BY <1>0, <1>1, <2>3 DEF up
    <3>4. IF k = 1 THEN b = None ELSE q[k - 1] = b
      BY <1>0, <1>1, <1>3, <2>3
    <3> QED
      BY <1>9, <3>1, <3>2, <3>3, <3>4
  <2>4. CASE k > p + 1
    <3>1. q[k] = o[k - 1] /\ k - 1 \in 1 .. n /\ k # 1
      BY <1>0, <1>1, <1>3, <2>4
    <3>2. ASSUME k # n + 1
          PROVE  q[k + 1] = o[k] /\ k \in 1 .. n
      <4>1. k + 1 \in 1 .. n + 1 /\ k \in 1 .. n /\ (k + 1) - 1 = k
        BY <1>0, <3>2
      <4>2. ~ (k + 1 <= p) /\ k + 1 # p + 1
        BY <1>0, <1>1, <2>4
      <4> QED
        BY <1>3, <4>1, <4>2
    <3>3. o[k - 1] \in Clients /\ o[k - 1] # c /\ o[k - 1] # b
      BY <1>0, <1>1, <1>4, <2>4, <3>1 DEF Distinct
    <3>4. /\ s.above[o[k - 1]] = IF k - 1 = n THEN None ELSE o[(k - 1) + 1]
          /\ s.below[o[k - 1]] = IF k - 1 = 1 THEN None ELSE o[(k - 1) - 1]
      BY <1>4, <3>1
    <3>5. t.above[o[k - 1]] = s.above[o[k - 1]]
      BY <1>9, <3>3
    <3>6. (k - 1) + 1 = k /\ (k - 1 = n <=> k = n + 1)
      BY <1>0
    <3>7. t.above[q[k]] = IF k = n + 1 THEN None ELSE q[k + 1]
      BY <3>1, <3>2, <3>4, <3>5, <3>6
    <3>8. CASE k = p + 2
      <4>1. o[k - 1] = up /\ q[k - 1] = c
        BY <1>0, <1>1, <1>3, <3>1, <3>8 DEF up
      <4>2. t.below[q[k]] = c
        BY <1>9, <3>1, <3>3, <4>1
      <4> QED
        BY <3>1, <3>7, <4>1, <4>2
    <3>9. CASE k > p + 2
      <4>1. q[k - 1] = o[k - 2] /\ k - 1 # 1 /\ (k - 1) - 1 = k - 2
        BY <1>0, <1>1, <1>3, <3>1, <3>9
      <4>2. o[k - 1] # up
        <5>1. up # None => p + 1 \in 1 .. n /\ up = o[p + 1]
          BY <1>0, <1>1, <1>7
        <5>2. o[k - 1] # None /\ \A j \in 1 .. n : o[j] = o[k - 1] => j = k - 1
          BY <1>0, <1>4, <3>1 DEF Distinct
        <5>3. p + 1 # k - 1
          BY <1>1, <3>9
        <5> QED
          BY <5>1, <5>2, <5>3
      <4>3. t.below[o[k - 1]] = s.below[o[k - 1]]
        BY <1>9, <3>3, <4>2
      <4> QED
        BY <3>1, <3>4, <3>7, <4>1, <4>3
    <3> QED
      BY <1>1, <2>4, <3>8, <3>9
  <2> QED
    BY <1>1, <2>1, <2>2, <2>3, <2>4
<1>12. ASSUME NEW d \in Clients, d \notin Members(q)
       PROVE  t.above[d] = None /\ t.below[d] = None
  <2>1. d \notin Members(o) /\ d # c
    BY <1>2, <1>12
  <2>2. d # b /\ d # up
    <3>1. b # None => b \in Members(o)
      OBVIOUS
    <3>2. up # None => up \in Members(o)
      BY <1>0, <1>1, <1>7 DEF Members
    <3> QED
      BY <1>6, <2>1, <3>1, <3>2
  <2> QED
    BY <1>4, <1>9, <2>1, <2>2
<1>13. /\ t.bottom = q[1]
       /\ t.top = q[n + 1]
  <2>1. t.bottom = q[1]
    BY <1>0, <1>1, <1>3, <1>4, <1>8
  <2>2. b = s.top <=> p = n
    BY <1>0, <1>1, <1>4 DEF Distinct
  <2>3. n + 1 \in 1 .. n + 1 /\ (n + 1) - 1 = n
    BY <1>0
  <2>4. CASE p = n
    <3>1. q[n + 1] = c
      BY <1>0, <1>3, <2>3, <2>4
    <3> QED
      BY <1>8, <2>1, <2>2, <2>4, <3>1
  <2>5. CASE p # n
    <3>1. ~ (n + 1 <= p) /\ n + 1 # p + 1 /\ n # 0
      BY <1>0, <1>1, <2>5
    <3>2. q[n + 1] = o[n]
      BY <1>3, <2>3, <3>1
    <3> QED
      BY <1>4, <1>8, <2>1, <2>2, <2>5, <3>1, <3>2
  <2> QED
    BY <2>4, <2>5
<1>14. Agree(t, q)
  BY <1>0, <1>2, <1>8, <1>11, <1>12, <1>13 DEF Agree
<1> QED
  BY <1>2, <1>10, <1>14 DEF q, t

(* stack_remove. *)
LEMMA UnlinkAgrees ==
  ASSUME NEW s \in Links, NEW o \in Seq(Clients), Agree(s, o),
         NEW c \in Members(o)
  PROVE  /\ Unlink(s, c) \in Links
         /\ Without(o, c) \in Seq(Clients)
         /\ Agree(Unlink(s, c), Without(o, c))
<1> DEFINE p == Place(o, c)
           q == Without(o, c)
           t == Unlink(s, c)
           n == Len(o)
<1>1. /\ Distinct(o) /\ s.items = n
      /\ s.bottom = IF n = 0 THEN None ELSE o[1]
      /\ s.top = IF n = 0 THEN None ELSE o[n]
      /\ \A k \in 1 .. n : /\ s.above[o[k]] = IF k = n THEN None ELSE o[k + 1]
                           /\ s.below[o[k]] = IF k = 1 THEN None ELSE o[k - 1]
      /\ \A d \in Clients : d \notin Members(o) => s.above[d] = None /\ s.below[d] = None
  BY DEF Agree
<1>2. /\ p \in 1 .. n /\ o[p] = c /\ c \in Clients /\ n \in Nat
      /\ None \notin Clients
      /\ \A k \in 1 .. n : o[k] \in Clients
  BY <1>1, PlaceFact, StackAssumption
<1>3. /\ q \in Seq(Clients) /\ Len(q) = n - 1
      /\ Distinct(q) /\ Members(q) = Members(o) \ {c}
  BY <1>1, DeleteFact
<1>4. \A k \in 1 .. n - 1 : q[k] = IF k < p THEN o[k] ELSE o[k + 1]
  BY <1>2, DeleteForm DEF Without
<1>5. /\ s.above \in [Clients -> Pointer] /\ s.below \in [Clients -> Pointer]
      /\ s.top \in Pointer /\ s.bottom \in Pointer /\ s.items \in Nat
  BY DEF Links
<1>6. s.top = s.bottom <=> n = 1
  <2>1. n # 0 /\ 1 \in 1 .. n /\ n \in 1 .. n
    BY <1>2
  <2>2. s.top = o[n] /\ s.bottom = o[1]
    BY <1>1, <2>1
  <2> HIDE DEF n
  <2>3. o[n] = o[1] => n = 1
    BY <1>1, <2>1 DEF n, Distinct
  <2> QED
    BY <2>2, <2>3
<1> DEFINE up == s.above[c]
           dn == s.below[c]
<1>7. /\ up = IF p = n THEN None ELSE o[p + 1]
      /\ dn = IF p = 1 THEN None ELSE o[p - 1]
      /\ up \in Pointer /\ dn \in Pointer
  BY <1>1, <1>2, <1>5
<1>8. up # c /\ dn # c
  <2>1. p # n => p + 1 \in 1 .. n /\ p + 1 # p
    BY <1>2
  <2>2. p # 1 => p - 1 \in 1 .. n /\ p - 1 # p
    BY <1>2
  <2> QED
    BY <1>1, <1>2, <1>7, <2>1, <2>2 DEF Distinct
<1>9. /\ t.items = n - 1 /\ t.items \in Nat
      /\ n # 1 => /\ t.bottom = IF c = s.bottom THEN up ELSE s.bottom
                  /\ t.top = IF c = s.top THEN dn ELSE s.top
      /\ n = 1 => t.bottom = None /\ t.top = None
  BY <1>1, <1>2, <1>6 DEF Unlink
<1>10. /\ t.above \in [Clients -> Pointer] /\ t.below \in [Clients -> Pointer]
       /\ t.above[c] = None /\ t.below[c] = None
       /\ n # 1 => \A d \in Clients : d # c =>
            /\ t.above[d] = IF d = dn THEN up ELSE s.above[d]
            /\ t.below[d] = IF d = up THEN dn ELSE s.below[d]
       /\ n = 1 => \A d \in Clients : d # c =>
            t.above[d] = s.above[d] /\ t.below[d] = s.below[d]
  <2>1. CASE n = 1
    <3>1. /\ t.above = [s.above EXCEPT ![c] = None]
          /\ t.below = [s.below EXCEPT ![c] = None]
      BY <1>6, <2>1 DEF Unlink
    <3> HIDE DEF t
    <3> QED
      BY <1>2, <1>5, <2>1, <3>1 DEF Pointer
  <2>2. CASE n # 1
    <3> DEFINE fa == IF dn = None THEN s.above ELSE [s.above EXCEPT ![dn] = up]
               fb == IF up = None THEN s.below ELSE [s.below EXCEPT ![up] = dn]
    <3>1. /\ t.above = [fa EXCEPT ![c] = None]
          /\ t.below = [fb EXCEPT ![c] = None]
      BY <1>6, <2>2 DEF Unlink, Set
    <3>2. /\ fa \in [Clients -> Pointer] /\ fb \in [Clients -> Pointer]
          /\ \A d \in Clients : /\ fa[d] = IF d = dn THEN up ELSE s.above[d]
                                /\ fb[d] = IF d = up THEN dn ELSE s.below[d]
      <4> HIDE DEF up, dn
      <4>1. \A d \in Clients : d # None
        BY <1>2
      <4>2. /\ fa \in [Clients -> Pointer]
            /\ \A d \in Clients : fa[d] = IF d = dn THEN up ELSE s.above[d]
        BY <1>5, <1>7, <4>1
      <4>3. /\ fb \in [Clients -> Pointer]
            /\ \A d \in Clients : fb[d] = IF d = up THEN dn ELSE s.below[d]
        BY <1>5, <1>7, <4>1
      <4> QED
        BY <4>2, <4>3
    <3> HIDE DEF t, fa, fb
    <3>3. t.above \in [Clients -> Pointer] /\ t.below \in [Clients -> Pointer]
      BY <3>1, <3>2 DEF Pointer
    <3> QED
      BY <1>2, <2>2, <3>1, <3>2, <3>3
  <2> QED
    BY <2>1, <2>2
<1>11. t \in Links
  <2>1. t = [above |-> t.above, below |-> t.below, top |-> t.top,
             bottom |-> t.bottom, items |-> t.items]
    BY DEF Unlink
  <2>2. t.top \in Pointer /\ t.bottom \in Pointer
    BY <1>5, <1>7, <1>9 DEF Pointer
  <2> HIDE DEF t
  <2> QED
    BY <1>9, <1>10, <2>1, <2>2 DEF Links
<1> HIDE DEF t, q, p, up, dn
<1>12. ASSUME NEW k \in 1 .. n - 1
       PROVE  /\ t.above[q[k]] = IF k = n - 1 THEN None ELSE q[k + 1]
              /\ t.below[q[k]] = IF k = 1 THEN None ELSE q[k - 1]
  <2>0. n # 1 /\ k \in 1 .. n /\ k + 1 \in 1 .. n
    BY <1>2
  <2>1. CASE k < p
    <3>1. q[k] = o[k] /\ o[k] \in Clients /\ o[k] # c
      BY <1>1, <1>2, <1>4, <2>0, <2>1 DEF Distinct
    <3>2. k # 1 => q[k - 1] = o[k - 1]
      BY <1>2, <1>4, <2>0, <2>1
    <3>3. o[k] # up
      <4>1. p # n => p + 1 \in 1 .. n /\ p + 1 # k
        BY <1>2, <2>1
      <4> QED
        BY <1>1, <1>2, <1>7, <2>0, <4>1 DEF Distinct
    <3>4. t.below[q[k]] = IF k = 1 THEN None ELSE q[k - 1]
      BY <1>1, <1>10, <2>0, <3>1, <3>2, <3>3
    <3>5. CASE k = p - 1
      <4>1. p # 1 /\ o[k] = dn
        BY <1>2, <1>7, <2>0, <3>5
      <4>2. t.above[q[k]] = up
        BY <1>10, <2>0, <3>1, <4>1
      <4>3. k = n - 1 <=> p = n
        BY <1>2, <3>5
      <4>4. k # n - 1 => q[k + 1] = o[p + 1]
        <5> SUFFICES ASSUME k # n - 1
                     PROVE  q[k + 1] = o[p + 1]
          OBVIOUS
        <5>1. k + 1 = p /\ k + 1 \in 1 .. n - 1
          BY <1>2, <3>5
        <5> QED
          BY <1>2, <1>4, <5>1
      <4> QED
        BY <1>7, <3>4, <4>2, <4>3, <4>4
    <3>6. CASE k # p - 1
      <4>1. k + 1 < p /\ k + 1 \in 1 .. n - 1 /\ k # n - 1 /\ k # n
        BY <1>2, <2>1, <3>6
      <4>2. o[k] # dn
        <5>1. p # 1 => p - 1 \in 1 .. n
          BY <1>2
        <5> QED
          BY <1>1, <1>2, <1>7, <2>0, <3>6, <5>1 DEF Distinct
      <4>3. t.above[q[k]] = s.above[o[k]]
        BY <1>10, <2>0, <3>1, <4>2
      <4>4. s.above[o[k]] = o[k + 1] /\ q[k + 1] = o[k + 1]
        BY <1>1, <1>4, <2>0, <4>1
      <4> QED
        BY <3>4, <4>1, <4>3, <4>4
    <3> QED
      BY <3>5, <3>6
  <2>2. CASE k >= p
    <3>0. ~ (k < p) /\ k + 1 # p /\ k + 1 # 1
      BY <1>2, <2>0, <2>2
    <3>1. q[k] = o[k + 1] /\ o[k + 1] \in Clients /\ o[k + 1] # c
      BY <1>1, <1>2, <1>4, <2>0, <3>0 DEF Distinct
    <3>2. o[k + 1] # dn
      <4>1. p # 1 => p - 1 \in 1 .. n /\ p - 1 # k + 1
        BY <1>2, <2>0, <2>2
      <4> QED
        BY <1>1, <1>2, <1>7, <2>0, <4>1 DEF Distinct
    <3>3. t.above[q[k]] = IF k + 1 = n THEN None ELSE o[(k + 1) + 1]
      BY <1>1, <1>10, <2>0, <3>1, <3>2
    <3>4. k # n - 1 => q[k + 1] = o[(k + 1) + 1]
      <4> SUFFICES ASSUME k # n - 1
                   PROVE  q[k + 1] = o[(k + 1) + 1]
        OBVIOUS
      <4>1. k + 1 \in 1 .. n - 1 /\ ~ (k + 1 < p)
        BY <1>2, <2>0, <2>2
      <4> QED
        BY <1>4, <4>1
    <3>5. k + 1 = n <=> k = n - 1
      BY <1>2, <2>0
    <3>6. CASE k = p
      <4>1. o[k + 1] = up
        BY <1>2, <1>7, <2>0, <3>6
      <4>2. t.below[q[k]] = dn
        BY <1>10, <2>0, <3>1, <4>1
      <4>3. k # 1 => q[k - 1] = o[k - 1]
        BY <1>2, <1>4, <2>0, <3>6
      <4> QED
        BY <1>7, <3>3, <3>4, <3>5, <3>6, <4>2, <4>3
    <3>7. CASE k # p
      <4>1. k > p /\ k # 1 /\ k - 1 \in 1 .. n - 1 /\ ~ (k - 1 < p) /\ (k - 1) + 1 = k
        BY <1>2, <2>0, <2>2, <3>7
      <4>2. o[k + 1] # up
        <5>1. p # n => p + 1 \in 1 .. n /\ p + 1 # k + 1
          BY <1>2, <2>0, <3>7
        <5> QED
          BY <1>1, <1>2, <1>7, <2>0, <5>1 DEF Distinct
      <4>3. t.below[q[k]] = s.below[o[k + 1]]
        BY <1>10, <2>0, <3>1, <4>2
      <4>4. s.below[o[k + 1]] = o[k]
        <5>1. (k + 1) - 1 = k
          BY <2>0
        <5> QED
          BY <1>1, <2>0, <3>0, <5>1
      <4>5. q[k - 1] = o[k]
        BY <1>4, <4>1
      <4> QED
        BY <3>3, <3>4, <3>5, <4>1, <4>3, <4>4, <4>5
    <3> QED
      BY <3>6, <3>7
  <2> QED
    BY <1>2, <2>1, <2>2
<1>13. ASSUME NEW d \in Clients, d \notin Members(q)
       PROVE  t.above[d] = None /\ t.below[d] = None
  <2>1. CASE d = c
    BY <1>10, <2>1
  <2>2. CASE d # c
    <3>1. d \notin Members(o)
      BY <1>3, <1>13, <2>2
    <3>2. d # up /\ d # dn
      <4>1. p # n => up \in Members(o)
        <5>1. p # n => p + 1 \in 1 .. n
          BY <1>2
        <5> QED
          BY <1>7, <5>1 DEF Members
      <4>2. p # 1 => dn \in Members(o)
        <5>1. p # 1 => p - 1 \in 1 .. n
          BY <1>2
        <5> QED
          BY <1>7, <5>1 DEF Members
      <4> QED
        BY <1>2, <1>7, <3>1, <4>1, <4>2
    <3> QED
      BY <1>1, <1>10, <2>2, <3>1, <3>2
  <2> QED
    BY <2>1, <2>2
<1>14. /\ t.bottom = IF n - 1 = 0 THEN None ELSE q[1]
       /\ t.top = IF n - 1 = 0 THEN None ELSE q[n - 1]
  <2>1. CASE n = 1
    BY <1>9, <2>1
  <2>2. CASE n # 1
    <3>0. n - 1 # 0 /\ 1 \in 1 .. n - 1 /\ n - 1 \in 1 .. n - 1 /\ n \in 1 .. n /\ 1 \in 1 .. n
      <4>1. n \in Nat /\ n >= 1
        BY <1>2
      <4> HIDE DEF n
      <4> QED
        BY <2>2, <4>1
    <3>1. s.bottom = o[1] /\ s.top = o[n]
      BY <1>1, <1>2
    <3>2. c = s.bottom <=> p = 1
      BY <1>1, <1>2, <3>0, <3>1 DEF Distinct
    <3>3. c = s.top <=> p = n
      BY <1>1, <1>2, <3>0, <3>1 DEF Distinct
    <3>4. t.bottom = q[1]
      <4>1. CASE p = 1
        <5>1. q[1] = o[1 + 1] /\ p # n
          BY <1>4, <2>2, <3>0, <4>1
        <5> QED
          BY <1>7, <1>9, <2>2, <3>2, <4>1, <5>1
      <4>2. CASE p # 1
        <5>1. q[1] = o[1]
          BY <1>2, <1>4, <3>0, <4>2
        <5> QED
          BY <1>9, <2>2, <3>1, <3>2, <4>2, <5>1
      <4> QED
        BY <4>1, <4>2
    <3>5. t.top = q[n - 1]
      <4>1. CASE p = n
        <5>1. q[n - 1] = o[n - 1] /\ p # 1
          BY <1>2, <1>4, <2>2, <3>0, <4>1
        <5> QED
          BY <1>7, <1>9, <2>2, <3>3, <4>1, <5>1
      <4>2. CASE p # n
        <5>1. q[n - 1] = o[(n - 1) + 1] /\ (n - 1) + 1 = n
          BY <1>2, <1>4, <3>0, <4>2
        <5> QED
          BY <1>9, <2>2, <3>1, <3>3, <4>2, <5>1
      <4> QED
        BY <4>1, <4>2
    <3> QED
      BY <3>0, <3>4, <3>5
  <2> QED
    BY <2>1, <2>2
<1>15. Agree(t, q)
  <2> HIDE DEF n
  <2> QED
    BY <1>3, <1>9, <1>12, <1>13, <1>14 DEF Agree
<1> QED
  BY <1>3, <1>11, <1>15 DEF q, t

(* stack_move_above_client: taking out and putting back above a client     *)
(* that is in the stack; the client itself stays where it is.              *)
LEMMA RelinkAgrees ==
  ASSUME NEW s \in Links, NEW o \in Seq(Clients), Agree(s, o),
         NEW c \in Members(o), NEW b \in Members(o) \union {None}
  PROVE  /\ Relink(s, c, b) \in Links
         /\ MoveAbove(o, c, b) \in Seq(Clients)
         /\ Agree(Relink(s, c, b), MoveAbove(o, c, b))
<1>1. CASE c = b
  BY <1>1 DEF Relink, MoveAbove
<1>2. CASE c # b
  <2>1. c \in Clients /\ Distinct(o)
    BY PlaceFact DEF Agree
  <2>2. /\ Unlink(s, c) \in Links
        /\ Without(o, c) \in Seq(Clients)
        /\ Agree(Unlink(s, c), Without(o, c))
    BY UnlinkAgrees
  <2>3. Members(Without(o, c)) = Members(o) \ {c}
    BY <2>1, DeleteFact
  <2>4. c \notin Members(Without(o, c)) /\ b \in Members(Without(o, c)) \union {None}
    BY <1>2, <2>3
  <2>5. /\ AddAbove(Unlink(s, c), c, b) \in Links
        /\ PutAbove(Without(o, c), c, b) \in Seq(Clients)
        /\ Agree(AddAbove(Unlink(s, c), c, b), PutAbove(Without(o, c), c, b))
    BY <2>1, <2>2, <2>4, AddAgrees
  <2> QED
    BY <1>2, <2>5 DEF Relink, MoveAbove
<1> QED
  BY <1>1, <1>2

(* The client on top, as the pointers and as the order have it. *)
LEMMA TopFact ==
  ASSUME StackInv
  PROVE  /\ order = <<>> => links.top = None
         /\ order # <<>> => links.top = order[Len(order)] /\ links.top \in Members(order)
<1>1. order \in Seq(Clients) /\ links.top = IF Len(order) = 0 THEN None ELSE order[Len(order)]
  BY DEF StackInv, StackTypeOK, LinksMatchOrder, Agree
<1>2. order # <<>> => Len(order) # 0 /\ Len(order) \in 1 .. Len(order)
  BY <1>1
<1>3. order = <<>> => links.top = None
  BY <1>1
<1>4. ASSUME order # <<>>
      PROVE  links.top = order[Len(order)] /\ links.top \in Members(order)
  BY <1>1, <1>2, <1>4 DEF Members
<1> QED
  BY <1>3, <1>4

-----------------------------------------------------------------------------
LEMMA StackInitInv == StackInit => StackInv
<1> SUFFICES ASSUME StackInit PROVE StackInv
  OBVIOUS
<1>1. order = <<>> /\ order \in Seq(Clients) /\ Len(order) = 0
  BY DEF StackInit
<1>2. links \in Links
  BY DEF StackInit, Links, Pointer
<1>3. Agree(links, order)
  BY <1>1 DEF StackInit, Agree, Distinct
<1> QED
  BY <1>1, <1>2, <1>3 DEF StackInv, StackTypeOK, LinksMatchOrder

LEMMA StackNextInv == StackInv /\ [StackNext]_stackVars => StackInv'
<1> SUFFICES ASSUME StackInv, [StackNext]_stackVars PROVE StackInv'
  OBVIOUS
<1>0. links \in Links /\ order \in Seq(Clients) /\ Agree(links, order)
  BY DEF StackInv, StackTypeOK, LinksMatchOrder
<1>1. ASSUME NEW c \in Clients, PrependBottom(c)
      PROVE  StackInv'
  BY <1>0, <1>1, AddAgrees DEF PrependBottom, StackInv, StackTypeOK, LinksMatchOrder
<1>2. ASSUME NEW c \in Clients, AppendTop(c)
      PROVE  StackInv'
  <2> DEFINE b == IF order = <<>> THEN None ELSE order[Len(order)]
  <2>1. b = links.top /\ b \in Members(order) \union {None}
    BY TopFact
  <2>2. c \notin Members(order) /\ links' = AddAbove(links, c, b) /\ order' = PutAbove(order, c, b)
    BY <1>2, <2>1 DEF AppendTop
  <2> HIDE DEF b
  <2>3. links' \in Links /\ order' \in Seq(Clients) /\ Agree(links', order')
    BY <1>0, <2>1, <2>2, AddAgrees
  <2> QED
    BY <2>3 DEF StackInv, StackTypeOK, LinksMatchOrder
<1>3. ASSUME NEW c \in Clients, Remove(c)
      PROVE  StackInv'
  BY <1>0, <1>3, UnlinkAgrees DEF Remove, StackInv, StackTypeOK, LinksMatchOrder
<1>4. ASSUME NEW c \in Clients, NEW b \in Clients \union {None}, Move(c, b)
      PROVE  StackInv'
  BY <1>0, <1>4, RelinkAgrees DEF Move, StackInv, StackTypeOK, LinksMatchOrder
<1>5. ASSUME NEW c \in Clients, MoveTop(c)
      PROVE  StackInv'
  <2>1. c \in Members(order) /\ order # <<>>
    BY <1>5 DEF MoveTop, Members
  <2>2. links.top = order[Len(order)] /\ links.top \in Members(order)
    BY <2>1, TopFact
  <2>3. links' \in Links /\ order' \in Seq(Clients) /\ Agree(links', order')
    BY <1>0, <1>5, <2>1, <2>2, RelinkAgrees DEF MoveTop
  <2> QED
    BY <2>3 DEF StackInv, StackTypeOK, LinksMatchOrder
<1>6. CASE UNCHANGED stackVars
  BY <1>0, <1>6 DEF stackVars, StackInv, StackTypeOK, LinksMatchOrder
<1> QED
  BY <1>1, <1>2, <1>3, <1>4, <1>5, <1>6 DEF StackNext

(* The stack operations of the window manager never break the list: the    *)
(* pointers describe the stacking order, for any number of clients.        *)
THEOREM StackInvariant == StackSpec => []StackInv
<1> QED
  BY StackInitInv, StackNextInv, PTL DEF StackSpec

-----------------------------------------------------------------------------
(* The stacking order.                                                     *)

IsStack(o) == o \in Seq(Clients) /\ Distinct(o)

(* The clients outside S keep their order from o to q. *)
InOrder(o, q, S) ==
  \A c, d \in Members(o) \ S : Place(o, c) <= Place(o, d) => Place(q, c) <= Place(q, d)

Rearranged(o, q, S) == IsStack(q) /\ Members(q) = Members(o) /\ InOrder(o, q, S)

(* A client is at the place where it is found. *)
LEMMA IndexFact ==
  ASSUME NEW o, IsStack(o), NEW k \in 1 .. Len(o)
  PROVE  Place(o, o[k]) = k /\ o[k] \in Members(o)
<1>1. o[k] \in Members(o)
  BY DEF Members
<1>2. Place(o, o[k]) \in 1 .. Len(o) /\ o[Place(o, o[k])] = o[k]
  BY <1>1, PlaceFact DEF IsStack
<1> QED
  BY <1>1, <1>2 DEF IsStack, Distinct

LEMMA StackMembers ==
  ASSUME NEW o, IsStack(o)
  PROVE  /\ Len(o) \in Nat /\ Members(o) \subseteq Clients /\ None \notin Members(o)
         /\ \A c \in Members(o) : Place(o, c) \in 1 .. Len(o) /\ o[Place(o, c)] = c
<1>1. \A c \in Members(o) : Place(o, c) \in 1 .. Len(o) /\ o[Place(o, c)] = c /\ c \in Clients
  BY PlaceFact DEF IsStack
<1> QED
  BY <1>1, StackAssumption DEF IsStack

(* When each place of o has a later place in q the later it is. *)
LEMMA InOrderFact ==
  ASSUME NEW o, IsStack(o), NEW q, IsStack(q), NEW S,
         NEW at,
         \A k \in 1 .. Len(o) : o[k] \notin S => at[k] \in 1 .. Len(q) /\ q[at[k]] = o[k],
         \A j, k \in 1 .. Len(o) : o[j] \notin S /\ o[k] \notin S /\ j <= k => at[j] <= at[k]
  PROVE  InOrder(o, q, S)
<1> SUFFICES ASSUME NEW c \in Members(o) \ S, NEW d \in Members(o) \ S,
                    Place(o, c) <= Place(o, d)
             PROVE  Place(q, c) <= Place(q, d)
  BY DEF InOrder
<1> DEFINE j == Place(o, c)
           k == Place(o, d)
<1>1. j \in 1 .. Len(o) /\ k \in 1 .. Len(o) /\ o[j] = c /\ o[k] = d /\ j <= k
  BY StackMembers
<1> HIDE DEF j, k
<1>2. at[j] \in 1 .. Len(q) /\ q[at[j]] = c /\ at[k] \in 1 .. Len(q) /\ q[at[k]] = d
  BY <1>1
<1>3. Place(q, c) = at[j] /\ Place(q, d) = at[k]
  BY <1>2, IndexFact
<1> QED
  BY <1>1, <1>3

LEMMA RearrangedTrans ==
  ASSUME NEW o, NEW S, NEW T, NEW q, Rearranged(o, q, S), NEW r, Rearranged(q, r, T), S \subseteq T
  PROVE  Rearranged(o, r, T)
BY DEF Rearranged, InOrder

LEMMA RearrangedMore ==
  ASSUME NEW o, NEW S, NEW T, NEW q, Rearranged(o, q, S), S \subseteq T
  PROVE  Rearranged(o, q, T)
BY DEF Rearranged, InOrder

LEMMA RearrangedSame ==
  ASSUME NEW o, IsStack(o), NEW S
  PROVE  Rearranged(o, o, S)
BY DEF Rearranged, InOrder

(* Taking a client out, and putting one in, leaves the others in order. *)
LEMMA WithoutInOrder ==
  ASSUME NEW o, IsStack(o), NEW c \in Members(o)
  PROVE  /\ IsStack(Without(o, c)) /\ Members(Without(o, c)) = Members(o) \ {c}
         /\ InOrder(o, Without(o, c), {c})
<1> DEFINE p == Place(o, c)
           q == Without(o, c)
           at == [k \in 1 .. Len(o) |-> IF k < p THEN k ELSE k - 1]
<1>1. IsStack(q) /\ Members(q) = Members(o) \ {c} /\ Len(q) = Len(o) - 1
  BY DeleteFact DEF IsStack
<1>2. p \in 1 .. Len(o) /\ o[p] = c /\ Len(o) \in Nat
  BY StackMembers
<1>3. q = [k \in 1 .. Len(o) - 1 |-> IF k < p THEN o[k] ELSE o[k + 1]]
  BY <1>2, DeleteForm DEF Without, IsStack
<1> HIDE DEF p, q
<1>4. ASSUME NEW k \in 1 .. Len(o), o[k] # c PROVE at[k] \in 1 .. Len(q) /\ q[at[k]] = o[k]
  BY <1>1, <1>2, <1>3, <1>4
<1>5. \A j, k \in 1 .. Len(o) : o[j] # c /\ o[k] # c /\ j <= k => at[j] <= at[k]
  BY <1>2
<1> HIDE DEF at
<1>6. InOrder(o, q, {c})
  BY <1>1, <1>4, <1>5, InOrderFact
<1> QED
  BY <1>1, <1>6 DEF q

LEMMA PutInOrder ==
  ASSUME NEW o, IsStack(o), NEW c \in Clients \ Members(o), NEW b \in Members(o) \union {None}
  PROVE  /\ IsStack(PutAbove(o, c, b)) /\ Members(PutAbove(o, c, b)) = Members(o) \union {c}
         /\ Len(PutAbove(o, c, b)) = Len(o) + 1
         /\ Place(PutAbove(o, c, b), c) = Place(o, b) + 1
         /\ InOrder(o, PutAbove(o, c, b), {})
<1> DEFINE p == Place(o, b)
           q == PutAbove(o, c, b)
           at == [k \in 1 .. Len(o) |-> IF k <= p THEN k ELSE k + 1]
<1>1. p \in 0 .. Len(o) /\ Len(o) \in Nat
  BY StackMembers DEF Place
<1>2. q = InsertAt(o, p, c)
  BY DEF PutAbove
<1>3. q = [k \in 1 .. Len(o) + 1 |-> IF k <= p THEN o[k] ELSE IF k = p + 1 THEN c ELSE o[k - 1]]
  BY <1>1, <1>2, InsertForm DEF IsStack
<1> HIDE DEF p, q
<1>4. /\ q \in Seq(Clients) /\ Distinct(q) /\ Len(q) = Len(o) + 1
      /\ Members(q) = Members(o) \union {c}
  BY <1>1, <1>2, InsertFact DEF IsStack
<1>5. IsStack(q)
  BY <1>4 DEF IsStack
<1>6. ASSUME NEW k \in 1 .. Len(o) PROVE at[k] \in 1 .. Len(q) /\ q[at[k]] = o[k]
  BY <1>1, <1>3, <1>4
<1>7. \A j, k \in 1 .. Len(o) : j <= k => at[j] <= at[k]
  BY <1>1
<1>8. p + 1 \in 1 .. Len(q) /\ q[p + 1] = c
  BY <1>1, <1>3, <1>4
<1> HIDE DEF at
<1>9. InOrder(o, q, {})
  BY <1>5, <1>6, <1>7, InOrderFact
<1>10. Place(q, c) = p + 1
  BY <1>5, <1>8, IndexFact
<1> QED
  BY <1>4, <1>5, <1>9, <1>10 DEF p, q

LEMMA MoveInOrder ==
  ASSUME NEW o, IsStack(o), NEW c \in Members(o), NEW b \in Members(o) \union {None}
  PROVE  Rearranged(o, MoveAbove(o, c, b), {c})
<1>1. CASE c = b
  BY <1>1, RearrangedSame DEF MoveAbove
<1>2. CASE c # b
  <2> DEFINE q == Without(o, c)
             r == PutAbove(q, c, b)
  <2>1. MoveAbove(o, c, b) = r
    BY <1>2 DEF MoveAbove
  <2>2. IsStack(q) /\ Members(q) = Members(o) \ {c} /\ InOrder(o, q, {c}) /\ c \in Clients
    BY WithoutInOrder, StackMembers
  <2> HIDE DEF q
  <2>3. c \in Clients \ Members(q) /\ b \in Members(q) \union {None}
    BY <1>2, <2>2
  <2>4. IsStack(r) /\ Members(r) = Members(q) \union {c} /\ InOrder(q, r, {})
    BY <2>2, <2>3, PutInOrder
  <2> HIDE DEF r
  <2>5. Members(r) = Members(o)
    BY <2>2, <2>4
  <2>6. InOrder(o, r, {c})
    BY <2>2, <2>4 DEF InOrder
  <2> QED
    BY <2>1, <2>4, <2>5, <2>6 DEF Rearranged
<1> QED
  BY <1>1, <1>2

(* stack_move_top *)
LEMMA RaisedFact ==
  ASSUME NEW o, IsStack(o), NEW c \in Members(o)
  PROVE  /\ o[Len(o)] \in Members(o)
         /\ LET q == MoveAbove(o, c, o[Len(o)])
            IN \A d \in Members(o) : Place(q, d) <= Place(q, c)
<1> DEFINE b == o[Len(o)]
           q == MoveAbove(o, c, b)
<1>1. Len(o) \in Nat /\ Len(o) \in 1 .. Len(o)
  BY StackMembers
<1>2. b \in Members(o) /\ Place(o, b) = Len(o)
  BY <1>1, IndexFact
<1> HIDE DEF b
<1>3. Rearranged(o, q, {c})
  BY <1>2, MoveInOrder
<1>4. Place(q, c) = Len(q)
  <2>1. CASE c = b
    BY <1>2, <2>1 DEF MoveAbove
  <2>2. CASE c # b
    <3> DEFINE w == Without(o, c)
    <3>1. q = PutAbove(w, c, b)
      BY <2>2 DEF MoveAbove
    <3>2. /\ IsStack(w) /\ Members(w) = Members(o) \ {c} /\ InOrder(o, w, {c}) /\ c \in Clients
          /\ b \in Members(w)
      BY <1>2, <2>2, WithoutInOrder, StackMembers
    <3> HIDE DEF w
    <3>3. \A d \in Members(w) : Place(w, d) <= Place(w, b)
      BY <1>1, <1>2, <3>2, StackMembers DEF InOrder
    <3>4. Place(w, b) = Len(w)
      <4>1. Len(w) \in Nat /\ Place(w, b) \in 1 .. Len(w)
        BY <3>2, StackMembers
      <4>2. Len(w) \in 1 .. Len(w)
        BY <4>1
      <4>3. Place(w, w[Len(w)]) = Len(w) /\ w[Len(w)] \in Members(w)
        BY <3>2, <4>2, IndexFact
      <4> QED
        BY <3>3, <4>1, <4>3
    <3>5. Len(q) = Len(w) + 1 /\ Place(q, c) = Place(w, b) + 1
      BY <3>1, <3>2, PutInOrder
    <3> QED
      BY <3>4, <3>5
  <2> QED
    BY <2>1, <2>2
<1>5. \A d \in Members(o) : Place(q, d) \in 1 .. Len(q)
  BY <1>3, StackMembers DEF Rearranged
<1> QED
  BY <1>2, <1>4, <1>5, StackMembers DEF b

-----------------------------------------------------------------------------
(* The loops that move several clients.                                    *)

LEMMA AmongStack ==
  ASSUME NEW o, IsStack(o), NEW A
  PROVE  /\ IsStack(Among(o, A)) /\ Members(Among(o, A)) = Members(o) \intersect A
         /\ InOrder(Among(o, A), o, {}) /\ InOrder(o, Among(o, A), Clients \ A)
<1> DEFINE y == Among(o, A)
<1>1. /\ o \in Seq(Clients) /\ Once(o) /\ Len(o) \in Nat /\ DOMAIN o = 1 .. Len(o)
      /\ Entries(o) = Members(o)
  BY DEF IsStack, Distinct, Once, Entries, Members
<1>2. y \in Seq(Clients) /\ Once(y) /\ Entries(y) = Entries(o) \intersect A
  BY <1>1, AmongFact
<1>3. OrderedTo(o, Len(o), y)
  BY <1>1, AmongOrderFact
<1> HIDE DEF y
<1>4. Len(y) \in Nat /\ DOMAIN y = 1 .. Len(y)
  BY <1>2
<1>5. IsStack(y) /\ Members(y) = Members(o) \intersect A
  <2>1. Entries(y) = Members(y)
    BY <1>4 DEF Entries, Members
  <2>2. Distinct(y)
    BY <1>2, <1>4 DEF Distinct, Once
  <2> QED
    BY <1>1, <1>2, <2>1, <2>2 DEF IsStack
<1>6. ASSUME NEW c \in Members(y), NEW d \in Members(y)
      PROVE  Place(y, c) <= Place(y, d) <=> Place(o, c) <= Place(o, d)
  <2>0. c \in Members(o) /\ d \in Members(o)
    BY <1>5
  <2>1. /\ Place(y, c) \in 1 .. Len(y) /\ y[Place(y, c)] = c
        /\ Place(y, d) \in 1 .. Len(y) /\ y[Place(y, d)] = d
        /\ Place(o, c) \in 1 .. Len(o) /\ o[Place(o, c)] = c
        /\ Place(o, d) \in 1 .. Len(o) /\ o[Place(o, d)] = d
    BY <1>5, <2>0, StackMembers
  <2>2. ASSUME NEW a \in 1 .. Len(y), NEW b \in 1 .. Len(y), a < b
        PROVE  Place(o, y[a]) < Place(o, y[b])
    <3>1. \E j, k \in 1 .. Len(o) : j < k /\ y[a] = o[j] /\ y[b] = o[k]
      <4>1. a \in DOMAIN y /\ b \in DOMAIN y
        BY <1>4
      <4> QED
        BY ZenonT(30), <1>3, <2>2, <4>1 DEF OrderedTo
    <3>2. PICK j, k \in 1 .. Len(o) : j < k /\ y[a] = o[j] /\ y[b] = o[k]
      BY <3>1
    <3>3. Place(o, o[j]) = j /\ Place(o, o[k]) = k
      BY IndexFact
    <3> QED
      BY <3>2, <3>3
  <2>3. Place(y, c) < Place(y, d) => Place(o, c) < Place(o, d)
    BY <2>1, <2>2
  <2>4. Place(y, d) < Place(y, c) => Place(o, d) < Place(o, c)
    BY <2>1, <2>2
  <2>5. Place(y, c) = Place(y, d) => c = d
    BY <2>1
  <2>6. Place(y, c) \in Int /\ Place(y, d) \in Int /\ Place(o, c) \in Int /\ Place(o, d) \in Int
    BY <1>1, <1>4, <2>1
  <2> QED
    BY <2>3, <2>4, <2>5, <2>6
<1>7. InOrder(y, o, {}) /\ InOrder(o, y, Clients \ A)
  <2>1. Members(o) \ (Clients \ A) = Members(y) /\ Members(y) \ {} = Members(y)
    BY <1>5, StackMembers
  <2> QED
    BY <1>6, <2>1 DEF InOrder
<1> QED
  BY <1>5, <1>7 DEF y

LEMMA ReversedFact ==
  ASSUME NEW q, IsStack(q)
  PROVE  IsStack(Reversed(q)) /\ Members(Reversed(q)) = Members(q) /\ Len(Reversed(q)) = Len(q)
<1> DEFINE r == Reversed(q)
           l == Len(q)
<1>1. l \in Nat /\ r = [n \in 1 .. l |-> q[l + 1 - n]] /\ \A n \in 1 .. l : q[n] \in Clients
  BY DEF IsStack, Reversed
<1> HIDE DEF r
<1>2. \A n \in 1 .. l : l + 1 - n \in 1 .. l /\ l + 1 - (l + 1 - n) = n
  BY <1>1
<1>3. r \in Seq(Clients) /\ Len(r) = l /\ \A n \in 1 .. l : r[n] = q[l + 1 - n]
  BY <1>1, <1>2
<1>4. Distinct(r)
  <2> SUFFICES ASSUME NEW j \in 1 .. l, NEW k \in 1 .. l, r[j] = r[k]
               PROVE  j = k
    BY <1>3 DEF Distinct
  <2>1. q[l + 1 - j] = q[l + 1 - k] /\ l + 1 - j \in 1 .. l /\ l + 1 - k \in 1 .. l
    BY <1>2, <1>3
  <2>2. l + 1 - j = l + 1 - k
    BY <2>1 DEF IsStack, Distinct
  <2> QED
    BY <1>1, <2>2
<1>5. Members(r) = Members(q)
  <2>1. ASSUME NEW n \in 1 .. l PROVE r[n] \in Members(q) /\ q[n] \in Members(r)
    <3>1. l + 1 - n \in 1 .. l /\ r[n] = q[l + 1 - n] /\ r[l + 1 - n] = q[n]
      BY <1>2, <1>3
    <3> QED
      BY <1>3, <3>1 DEF Members
  <2> QED
    BY <1>3, <2>1 DEF Members
<1> QED
  BY <1>3, <1>4, <1>5 DEF IsStack, r

LEMMA InsertAllFact ==
  ASSUME NEW o, IsStack(o), NEW q, IsStack(q), Members(o) \intersect Members(q) = {},
         NEW k \in 0 .. Len(o)
  PROVE  /\ IsStack(Insert(o, q, k)) /\ Members(Insert(o, q, k)) = Members(o) \union Members(q)
         /\ InOrder(o, Insert(o, q, k), {})
<1> DEFINE l == Len(o)
           m == Len(q)
           r == Insert(o, q, k)
           at == [n \in 1 .. l |-> IF n <= k THEN n ELSE n + m]
<1>1. l \in Nat /\ m \in Nat
  BY DEF IsStack
<1>2. r = [n \in 1 .. l + m |->
             IF n <= k THEN o[n] ELSE IF n <= k + m THEN q[n - k] ELSE o[n - m]]
  BY DEF Insert
<1>3. /\ \A n \in 1 .. l : o[n] \in Members(o) /\ o[n] \in Clients
      /\ \A n \in 1 .. m : q[n] \in Members(q) /\ q[n] \in Clients
  BY StackMembers DEF Members
<1>0. k \in Nat /\ k <= l
  BY <1>1
<1>4. \A n \in 1 .. l + m :
        /\ n <= k => n \in 1 .. l
        /\ ~ (n <= k) /\ n <= k + m => n - k \in 1 .. m
        /\ ~ (n <= k) /\ ~ (n <= k + m) => n - m \in 1 .. l /\ n - m > k
  BY <1>0, <1>1
<1> HIDE DEF r
<1>5. r \in Seq(Clients) /\ Len(r) = l + m
  BY <1>1, <1>2, <1>3, <1>4
<1>6. \A n \in 1 .. l + m :
        /\ n <= k => r[n] = o[n]
        /\ ~ (n <= k) /\ n <= k + m => r[n] = q[n - k]
        /\ ~ (n <= k) /\ ~ (n <= k + m) => r[n] = o[n - m]
  BY <1>2
<1>7. Distinct(r)
  <2> SUFFICES ASSUME NEW i \in 1 .. l + m, NEW j \in 1 .. l + m, r[i] = r[j], i < j
               PROVE  FALSE
    BY <1>1, <1>5 DEF Distinct
  <2> USE <1>1, <1>0
  <2>1. CASE j <= k
    BY <1>4, <1>6, <2>1 DEF IsStack, Distinct
  <2>2. CASE ~ (j <= k) /\ j <= k + m
    <3>1. r[j] = q[j - k] /\ j - k \in 1 .. m
      BY <1>4, <1>6, <2>2
    <3>2. CASE i <= k
      BY <1>3, <1>4, <1>6, <3>1, <3>2
    <3>3. CASE ~ (i <= k)
      <4>1. r[i] = q[i - k] /\ i - k \in 1 .. m
        BY <1>4, <1>6, <2>2, <3>3
      <4>2. i - k = j - k
        BY <3>1, <4>1 DEF IsStack, Distinct
      <4> QED
        BY <4>2
    <3> QED
      BY <3>2, <3>3
  <2>3. CASE ~ (j <= k) /\ ~ (j <= k + m)
    <3>1. r[j] = o[j - m] /\ j - m \in 1 .. l /\ j - m > k
      BY <1>4, <1>6, <2>3
    <3>2. CASE i <= k
      <4>1. r[i] = o[i] /\ i \in 1 .. l
        BY <1>4, <1>6, <3>2
      <4>2. i = j - m
        BY <3>1, <4>1 DEF IsStack, Distinct
      <4> QED
        BY <3>1, <3>2, <4>2
    <3>3. CASE ~ (i <= k) /\ i <= k + m
      BY <1>3, <1>4, <1>6, <3>1, <3>3
    <3>4. CASE ~ (i <= k) /\ ~ (i <= k + m)
      <4>1. r[i] = o[i - m] /\ i - m \in 1 .. l
        BY <1>4, <1>6, <3>4
      <4>2. i - m = j - m
        BY <3>1, <4>1 DEF IsStack, Distinct
      <4> QED
        BY <4>2
    <3> QED
      BY <3>2, <3>3, <3>4
  <2> QED
    BY <2>1, <2>2, <2>3
<1>8. IsStack(r)
  BY <1>5, <1>7 DEF IsStack
<1>9. ASSUME NEW n \in 1 .. l
      PROVE at[n] \in 1 .. l + m /\ r[at[n]] = o[n]
  <2>1. CASE n <= k
    BY <1>0, <1>1, <1>6, <2>1
  <2>2. CASE ~ (n <= k)
    <3>1. at[n] = n + m /\ n + m \in 1 .. l + m /\ ~ (n + m <= k) /\ ~ (n + m <= k + m) /\ n + m - m = n
      BY <1>0, <1>1, <2>2
    <3> QED
      BY <1>6, <3>1
  <2> QED
    BY <2>1, <2>2
<1>10. \A i, j \in 1 .. l : i <= j => at[i] <= at[j]
  BY <1>0, <1>1
<1> HIDE DEF at
<1>11. InOrder(o, r, {})
  BY <1>5, <1>8, <1>9, <1>10, InOrderFact
<1>12. Members(r) \subseteq Members(o) \union Members(q)
  <2> SUFFICES ASSUME NEW n \in 1 .. l + m PROVE r[n] \in Members(o) \union Members(q)
    BY <1>5 DEF Members
  <2> QED
    BY <1>3, <1>4, <1>6
<1>13. Members(o) \subseteq Members(r)
  BY <1>5, <1>9 DEF Members
<1>14. Members(q) \subseteq Members(r)
  <2> SUFFICES ASSUME NEW n \in 1 .. m PROVE \E i \in 1 .. l + m : r[i] = q[n]
    BY <1>5 DEF Members
  <2>1. n + k \in 1 .. l + m /\ ~ (n + k <= k) /\ n + k <= k + m /\ n + k - k = n
    BY <1>0, <1>1
  <2> QED
    BY <1>6, <2>1
<1> QED
  BY <1>8, <1>11, <1>12, <1>13, <1>14 DEF r

LEMMA GatherFact ==
  ASSUME NEW o, IsStack(o), NEW S, NEW k \in 0 .. Len(Others(o, S))
  PROVE  /\ Rearranged(o, Insert(Others(o, S), Among(o, S), k), S)
         /\ Rearranged(o, Insert(Others(o, S), Reversed(Among(o, S)), k), S)
<1> DEFINE rest == Others(o, S)
           a == Among(o, S)
<1>1. /\ IsStack(rest) /\ Members(rest) = Members(o) \ S
      /\ InOrder(o, rest, Clients \ (Members(o) \ S))
  <2>1. Members(o) \intersect (Members(o) \ S) = Members(o) \ S
    OBVIOUS
  <2> QED
    BY <2>1, AmongStack DEF Others
<1>2. IsStack(a) /\ Members(a) = Members(o) \intersect S
  BY AmongStack
<1>3. ASSUME NEW q, IsStack(q), Members(q) = Members(a)
      PROVE  Rearranged(o, Insert(rest, q, k), S)
  <2> HIDE DEF rest, a
  <2> DEFINE r == Insert(rest, q, k)
  <2>1. /\ IsStack(r) /\ Members(r) = Members(rest) \union Members(q)
        /\ InOrder(rest, r, {})
    <3>1. Members(rest) \intersect Members(q) = {}
      BY <1>1, <1>2, <1>3
    <3>2. k \in 0 .. Len(rest)
      BY DEF rest
    <3> QED
      BY <1>1, <1>3, <3>1, <3>2, InsertAllFact
  <2> HIDE DEF r
  <2>2. InOrder(o, r, S)
    <3>1. Members(o) \ (Clients \ (Members(o) \ S)) = Members(o) \ S
      BY StackMembers
    <3> QED
      BY <1>1, <2>1, <3>1 DEF InOrder
  <2>3. Members(r) = Members(o)
    BY <1>1, <1>2, <1>3, <2>1
  <2> QED
    BY <2>1, <2>2, <2>3 DEF Rearranged, r
<1>4. IsStack(Reversed(a)) /\ Members(Reversed(a)) = Members(a)
  BY <1>2, ReversedFact
<1> QED
  BY <1>2, <1>3, <1>4

(* The highest and the lowest client of a set *)
LEMMA HighestFact ==
  ASSUME NEW s, IsStack(s.order), NEW S \in SUBSET Members(s.order), S # {}
  PROVE  /\ Highest(s, S) \in S
         /\ \A d \in S : Place(s.order, d) <= Place(s.order, Highest(s, S))
<1> DEFINE o == s.order
           l == Len(o)
           B == {l - Place(o, c) : c \in S}
<1>1. l \in Nat /\ \A c \in S : Place(o, c) \in 1 .. l
  BY StackMembers
<1>2. B \in SUBSET Nat /\ B # {}
  BY <1>1
<1>3. PICK c \in S : \A n \in B : l - Place(o, c) <= n
  <2> HIDE DEF B
  <2>1. Smallest(B) \in B /\ \A n \in B : Smallest(B) <= n
    BY <1>2, SmallestFact
  <2> QED
    BY <2>1 DEF B
<1>4. \A d \in S : Place(o, d) <= Place(o, c)
  <2> SUFFICES ASSUME NEW d \in S PROVE Place(o, d) <= Place(o, c)
    OBVIOUS
  <2>1. l - Place(o, c) <= l - Place(o, d)
    BY <1>3
  <2> QED
    BY <1>1, <2>1
<1> QED
  BY <1>4 DEF Highest

LEMMA LowestFact ==
  ASSUME NEW s, IsStack(s.order), NEW S \in SUBSET Members(s.order), S # {}
  PROVE  Lowest(s, S) \in S
<1> DEFINE o == s.order
           B == {Place(o, c) : c \in S}
<1>1. Len(o) \in Nat /\ \A c \in S : Place(o, c) \in 1 .. Len(o)
  BY StackMembers
<1>2. B \in SUBSET Nat /\ B # {}
  BY <1>1
<1>3. PICK c \in S : \A n \in B : Place(o, c) <= n
  <2> HIDE DEF B
  <2>1. Smallest(B) \in B /\ \A n \in B : Smallest(B) <= n
    BY <1>2, SmallestFact
  <2> QED
    BY <2>1 DEF B
<1>4. \A d \in S : Place(o, c) <= Place(o, d)
  BY <1>3
<1> QED
  BY <1>4 DEF Lowest

-----------------------------------------------------------------------------
(* Following transiency.                                                   *)

ClientCount == Cardinality(Clients)

LEMMA CountFact == ClientCount \in Nat
BY WmAssumption, FS_CardinalityType DEF ClientCount

(* A path is defined by its steps, and stays among clients that lead to    *)
(* each other.                                                             *)
PathOK(f, c, T, p) ==
  /\ p \in [0 .. ClientCount -> T] /\ p[0] = c
  /\ \A n \in 1 .. ClientCount : p[n] = f[p[n - 1]]

LEMMA PathFact ==
  ASSUME NEW f, NEW T, NEW c \in T, \A d \in T : f[d] \in T
  PROVE  PathOK(f, c, T, Path(f, c))
<1> DEFINE L == ClientCount
           Next(x) == f[x]
           F(g) == [n \in 0 .. L |-> IF n = 0 THEN c ELSE Next(g[n - 1])]
           path == CHOOSE g : g = F(g)
<1>0. L \in Nat
  BY CountFact
<1>1. Path(f, c) = path
  BY DEF Path, ClientCount
<1> HIDE DEF L
<1>2. \A x \in T : Next(x) \in T
  OBVIOUS
<1> HIDE DEF Next
<1>3. PICK g \in [0 .. L -> T] : g[0] = c /\ \A n \in 1 .. L : g[n] = Next(g[n - 1])
  <2> DEFINE h == [n \in 1 .. L |-> [x \in T |-> Next(x)]]
  <2>1. h \in Steps(L, T)
    BY <1>2 DEF Steps
  <2>2. \A x \in T : \A n \in 1 .. L : h[n][x] = Next(x)
    OBVIOUS
  <2> HIDE DEF h
  <2>3. PICK g \in [0 .. L -> T] : g[0] = c /\ \A n \in 1 .. L : g[n] = h[n][g[n - 1]]
    <3>1. Recurs(L, T, c, h)
      BY <1>0, <2>1, RecursionFact
    <3> QED
      BY <3>1 DEF Recurs
  <2>4. ASSUME NEW n \in 1 .. L PROVE g[n] = Next(g[n - 1])
    <3>1. n - 1 \in 0 .. L
      BY <1>0
    <3>2. g[n - 1] \in T
      BY <2>3, <3>1
    <3>3. g[n] = h[n][g[n - 1]]
      BY <2>3
    <3> QED
      BY <2>2, <3>2, <3>3
  <2> HIDE DEF F, path
  <2> QED
    BY <2>3, <2>4
<1>4. g = F(g)
  <2>1. \A n \in 0 .. L : n # 0 => n \in 1 .. L
    BY <1>0
  <2>2. \A n \in 0 .. L : g[n] = IF n = 0 THEN c ELSE Next(g[n - 1])
    BY <1>3, <2>1
  <2>3. g = [n \in 0 .. L |-> g[n]]
    BY <1>3
  <2>4. F(g) = [n \in 0 .. L |-> g[n]]
    BY <2>2
  <2> QED
    BY <2>3, <2>4
<1> HIDE DEF F
<1>5. path = F(path)
  BY <1>4
<1> DEFINE p == path
<1>5a. p = F(p)
  BY <1>5
<1> HIDE DEF p
<1>6. /\ p[0] = c /\ \A n \in 1 .. L : p[n] = Next(p[n - 1])
      /\ p = [n \in 0 .. L |-> p[n]]
  <2> DEFINE r == F(p)
  <2>1. r = [n \in 0 .. L |-> IF n = 0 THEN c ELSE Next(p[n - 1])]
    BY DEF F
  <2>2. p = r
    BY <1>5a
  <2> HIDE DEF r
  <2>3. DOMAIN p = 0 .. L /\ \A n \in 0 .. L : p[n] = IF n = 0 THEN c ELSE Next(p[n - 1])
    BY <2>1, <2>2
  <2>4. 0 \in 0 .. L /\ \A n \in 1 .. L : n \in 0 .. L /\ n # 0
    BY <1>0
  <2>5. r = [n \in 0 .. L |-> r[n]]
    BY <2>1
  <2> QED
    BY <2>2, <2>3, <2>4, <2>5
<1>7. \A n \in 0 .. L : p[n] \in T
  <2> DEFINE D == {n \in 0 .. L : p[n] \in T}
  <2>1. 0 \in D
    BY <1>0, <1>6
  <2>2. ASSUME NEW n \in 0 .. L, n \in D, n < L PROVE n + 1 \in D
    <3>1. n + 1 \in 1 .. L /\ n + 1 \in 0 .. L /\ n + 1 - 1 = n
      BY <1>0, <2>2
    <3>2. p[n] \in T
      BY <2>2
    <3>3. p[n + 1] = Next(p[n])
      BY <1>6, <3>1
    <3> QED
      BY <1>2, <3>1, <3>2, <3>3
  <2> HIDE DEF D
  <2>3. 0 .. L \subseteq D
    BY <1>0, <2>1, <2>2, StepsFact
  <2> QED
    BY <2>3 DEF D
<1>8. p \in [0 .. L -> T]
  BY <1>6, <1>7
<1> QED
  BY <1>1, <1>6, <1>8 DEF PathOK, L, Next, p

LEMMA LastFact ==
  ASSUME NEW f, NEW T, NEW c \in T, \A d \in T : f[d] \in T
  PROVE  LastOf(f, c) \in T
<1>1. PathOK(f, c, T, Path(f, c))
  BY PathFact
<1>2. ClientCount \in 0 .. ClientCount
  BY CountFact
<1> QED
  BY <1>1, <1>2 DEF PathOK, LastOf, ClientCount

-----------------------------------------------------------------------------
(* Steps that change the stacking order only.                              *)

WmOK(s) == s \in WmState /\ Sound(s)

NonMains == {c \in Clients : ~IsMain(c)}

SameButOrder(s, t) ==
  /\ t.focus = s.focus /\ t.top = s.top /\ t.desktop = s.desktop /\ t.raised = s.raised
  /\ t.modals = s.modals /\ t.hung = s.hung /\ t.trans = s.trans /\ t.next = s.next
  /\ t.mapped = s.mapped /\ t.minimized = s.minimized /\ t.newForDesktop = s.newForDesktop
  /\ t.quiet = s.quiet /\ t.above = s.above /\ t.full = s.full /\ t.docked = s.docked

Moved(s, t, S) ==
  t \in WmState /\ SameButOrder(s, t) /\ Rearranged(s.order, t.order, S)

LEMMA WmFields ==
  ASSUME NEW s, WmOK(s)
  PROVE  /\ IsStack(s.order) /\ Managed(s) = Members(s.order) /\ Managed(s) \subseteq Clients
         /\ None \notin Managed(s)
         /\ s.focus \in Pointer /\ s.top \in Pointer /\ s.desktop \in Pointer
         /\ s.raised \in BOOLEAN /\ s.modals \in Int /\ s.hung \in BOOLEAN
         /\ s.trans \in [Clients -> Pointer] /\ s.next \in [Clients -> Pointer]
         /\ s.mapped \subseteq Managed(s) /\ s.minimized \subseteq Clients
         /\ s.newForDesktop \subseteq Clients /\ s.quiet \subseteq Clients
         /\ s.above \subseteq Clients /\ s.full \subseteq Clients /\ s.docked \subseteq Clients
         /\ s.top # None => s.top \in Managed(s) /\ Type[s.top] = "app"
         /\ s.desktop # None => s.desktop \in Managed(s) /\ Type[s.desktop] = "desktop"
         /\ \A c \in Clients : s.trans[c] \in Managed(s) \union {None}
<1>1. IsStack(s.order)
  BY DEF WmOK, WmState, Sound, IsStack
<1>2. Members(s.order) \subseteq Clients /\ None \notin Members(s.order)
  BY <1>1, StackMembers
<1> QED
  BY <1>1, <1>2 DEF WmOK, WmState, Sound, Managed

LEMMA MovedFact ==
  ASSUME NEW s, WmOK(s), NEW q, NEW S, Rearranged(s.order, q, S)
  PROVE  Moved(s, [s EXCEPT !.order = q], S)
<1> DEFINE t == [s EXCEPT !.order = q]
<1>1. q \in Seq(Clients)
  BY DEF Rearranged, IsStack
<1>2. s \in WmState
  BY DEF WmOK
<1>3. t \in WmState /\ t.order = q
  BY <1>1, <1>2 DEF WmState
<1>4. SameButOrder(s, t)
  BY <1>2 DEF WmState, SameButOrder
<1> QED
  BY <1>3, <1>4 DEF Moved

LEMMA MovedOK ==
  ASSUME NEW s, WmOK(s), NEW t, NEW S, Moved(s, t, S)
  PROVE  WmOK(t) /\ Managed(t) = Managed(s)
<1>1. Managed(t) = Managed(s) /\ Distinct(t.order)
  BY DEF Moved, Rearranged, IsStack, Managed
<1>2. Sound(t)
  BY <1>1 DEF WmOK, Sound, Moved, SameButOrder
<1> QED
  BY <1>1, <1>2 DEF WmOK, Moved

LEMMA MovedTrans ==
  ASSUME NEW s, NEW S, NEW t, Moved(s, t, S), NEW r, Moved(t, r, S)
  PROVE  Moved(s, r, S)
BY RearrangedTrans DEF Moved, SameButOrder

LEMMA MovedMore ==
  ASSUME NEW s, NEW S, NEW t, Moved(s, t, S), NEW T, S \subseteq T
  PROVE  Moved(s, t, T)
BY RearrangedMore DEF Moved

LEMMA MovedSame ==
  ASSUME NEW s, WmOK(s), NEW S
  PROVE  Moved(s, s, S)
BY WmFields, RearrangedSame DEF Moved, SameButOrder, WmOK

LEMMA RestackMoved ==
  ASSUME NEW s, WmOK(s), NEW c \in Managed(s), NEW b \in Managed(s) \union {None}
  PROVE  Moved(s, Restack(s, c, b), {c})
<1>1. Rearranged(s.order, MoveAbove(s.order, c, b), {c})
  BY WmFields, MoveInOrder
<1>2. Moved(s, [s EXCEPT !.order = MoveAbove(s.order, c, b)], {c})
  BY <1>1, MovedFact
<1> QED
  BY <1>2 DEF Restack

LEMMA RaiseMoved ==
  ASSUME NEW s, WmOK(s), NEW c \in Managed(s)
  PROVE  /\ Moved(s, Raise(s, c), {c})
         /\ \A d \in Managed(s) : Place(Raise(s, c).order, d) <= Place(Raise(s, c).order, c)
<1> DEFINE q == MoveAbove(s.order, c, s.order[Len(s.order)])
<1>1. IsStack(s.order) /\ Managed(s) = Members(s.order)
  BY WmFields
<1>2. /\ s.order[Len(s.order)] \in Members(s.order)
      /\ \A d \in Members(s.order) : Place(q, d) <= Place(q, c)
  BY <1>1, RaisedFact
<1>3. Raise(s, c) = Restack(s, c, TopOf(s)) /\ TopOf(s) \in Managed(s) \union {None}
  BY <1>1, <1>2 DEF Raise, TopOf
<1>4. Moved(s, Raise(s, c), {c})
  BY <1>3, RestackMoved
<1>5. Raise(s, c).order = q
  BY <1>3 DEF Restack, TopOf, WmOK, WmState
<1> QED
  BY <1>1, <1>2, <1>4, <1>5

LEMMA RegroupMoved ==
  ASSUME NEW s, WmOK(s), NEW S, NEW b \in (Managed(s) \ S) \union {None}
  PROVE  Moved(s, Regroup(s, S, b), S)
<1> DEFINE o == s.order
           k == Place(Others(o, S), b)
<1>1. IsStack(o) /\ Managed(s) = Members(o)
  BY WmFields
<1>2. IsStack(Others(o, S)) /\ Members(Others(o, S)) = Members(o) \ S
  <2>1. Members(o) \intersect (Members(o) \ S) = Members(o) \ S
    OBVIOUS
  <2> QED
    BY <1>1, <2>1, AmongStack DEF Others
<1>3. k \in 0 .. Len(Others(o, S))
  <2>1. Len(Others(o, S)) \in Nat
    BY <1>2, StackMembers
  <2>2. CASE b = None
    BY <2>1, <2>2 DEF Place
  <2>3. CASE b # None
    <3>1. k \in 1 .. Len(Others(o, S))
      BY <1>1, <1>2, <2>3, StackMembers
    <3> QED
      BY <2>1, <3>1
  <2> QED
    BY <2>2, <2>3
<1> HIDE DEF k
<1>4. Rearranged(o, Insert(Others(o, S), Among(o, S), k), S)
  BY <1>1, <1>3, GatherFact
<1>5. Moved(s, [s EXCEPT !.order = Insert(Others(o, S), Among(o, S), k)], S)
  BY <1>4, MovedFact
<1> QED
  BY <1>5 DEF Regroup, k

LEMMA SetToTopMoved ==
  ASSUME NEW s, WmOK(s), NEW S
  PROVE  Moved(s, SetToTop(s, S), S)
<1> DEFINE o == s.order
           k == Len(Others(o, S))
<1>1. IsStack(o)
  BY WmFields
<1>2. IsStack(Others(o, S))
  BY <1>1, AmongStack DEF Others
<1>3. k \in 0 .. Len(Others(o, S))
  <2>1. k \in Nat
    BY <1>2, StackMembers
  <2> QED
    BY <2>1
<1> HIDE DEF k
<1>4. Rearranged(o, Insert(Others(o, S), Among(o, S), k), S)
  BY <1>1, <1>3, GatherFact
<1>5. Moved(s, [s EXCEPT !.order = Insert(Others(o, S), Among(o, S), k)], S)
  BY <1>4, MovedFact
<1> QED
  BY <1>5 DEF SetToTop, k

LEMMA PanelsAboveMoved ==
  ASSUME NEW s, WmOK(s), NEW b \in Managed(s) \union {None}, b # None => Type[b] # "panel"
  PROVE  Moved(s, PanelsAbove(s, b), Mapped(s, {"panel"})) /\ Moved(s, PanelsAbove(s, b), NonMains)
<1> DEFINE o == s.order
           S == Mapped(s, {"panel"})
           k == Place(Others(o, S), b)
<1>0. S \subseteq NonMains /\ b \notin S
  BY WmFields DEF Mapped, NonMains, IsMain
<1>1. IsStack(o) /\ Managed(s) = Members(o) /\ None \notin Members(o)
  BY WmFields
<1>2. IsStack(Others(o, S)) /\ Members(Others(o, S)) = Members(o) \ S
  <2>1. Members(o) \intersect (Members(o) \ S) = Members(o) \ S
    OBVIOUS
  <2> QED
    BY <1>1, <2>1, AmongStack DEF Others
<1>3. k \in 0 .. Len(Others(o, S))
  <2>1. Len(Others(o, S)) \in Nat
    BY <1>2, StackMembers
  <2>2. CASE b = None
    BY <2>1, <2>2 DEF Place
  <2>3. CASE b # None
    <3>1. b \in Members(Others(o, S))
      BY <1>0, <1>1, <1>2, <2>3
    <3>2. k \in 1 .. Len(Others(o, S))
      BY <1>2, <3>1, StackMembers
    <3> QED
      BY <2>1, <3>2
  <2> QED
    BY <2>2, <2>3
<1>6. PanelsAbove(s, b) = [s EXCEPT !.order = Insert(Others(o, S), Reversed(Among(o, S)), k)]
  BY DEF PanelsAbove
<1> HIDE DEF k, S
<1>4. Rearranged(o, Insert(Others(o, S), Reversed(Among(o, S)), k), S)
  BY <1>1, <1>3, GatherFact
<1>5. Moved(s, [s EXCEPT !.order = Insert(Others(o, S), Reversed(Among(o, S)), k)], S)
  BY <1>4, MovedFact
<1>7. Moved(s, PanelsAbove(s, b), S) /\ Moved(s, PanelsAbove(s, b), NonMains)
  BY <1>0, <1>5, <1>6, MovedMore
<1> QED
  BY <1>7 DEF S

LEMMA TransientsToTopMoved ==
  ASSUME NEW s, WmOK(s), NEW c, NEW F \in SUBSET Clients
  PROVE  Moved(s, TransientsToTop(s, c, F), NonMains)
<1>1. Transients(s, c, F) \subseteq NonMains
  BY DEF Transients, NonMains, IsMain
<1>2. Moved(s, SetToTop(s, Transients(s, c, F)), NonMains)
  BY <1>1, SetToTopMoved, MovedMore
<1> QED
  BY <1>2, MovedSame DEF TransientsToTop

(* Two in a row *)
LEMMA TransientsTwice ==
  ASSUME NEW s, WmOK(s), NEW c, NEW F \in SUBSET Clients, NEW d, NEW G \in SUBSET Clients
  PROVE  Moved(s, TransientsToTop(TransientsToTop(s, c, F), d, G), NonMains)
<1>1. Moved(s, TransientsToTop(s, c, F), NonMains)
  BY TransientsToTopMoved
<1>2. WmOK(TransientsToTop(s, c, F))
  BY <1>1, MovedOK
<1>3. Moved(TransientsToTop(s, c, F), TransientsToTop(TransientsToTop(s, c, F), d, G), NonMains)
  BY <1>2, TransientsToTopMoved
<1> QED
  BY <1>1, <1>3, MovedTrans

LEMMA StackDialogsMoved ==
  ASSUME NEW s, WmOK(s), NEW t
  PROVE  Moved(s, StackDialogs(s, t), NonMains)
<1> DEFINE own == TransientsToTop(TransientsToTop(s, t, Clients), t, s.above)
           roots == TransientsToTop(TransientsToTop(own, None, Clients), None, s.above)
           all == TransientsToTop(roots, None, Urgent)
<1>1. s.above \in SUBSET Clients /\ Urgent \in SUBSET Clients
  BY WmFields, WmAssumption
<1>2. Moved(s, own, NonMains)
  BY <1>1, TransientsTwice
<1>3. StackDialogs(s, t) = IF t = None THEN s ELSE all
  BY DEF StackDialogs
<1> HIDE DEF own
<1>4. WmOK(own)
  BY <1>2, MovedOK
<1>5. Moved(own, roots, NonMains)
  BY <1>1, <1>4, TransientsTwice
<1> HIDE DEF roots
<1>6. WmOK(roots)
  BY <1>4, <1>5, MovedOK
<1>7. Moved(roots, all, NonMains)
  BY <1>1, <1>6, TransientsToTopMoved
<1> HIDE DEF all
<1>8. Moved(s, all, NonMains)
  BY <1>2, <1>5, <1>7, MovedTrans
<1> QED
  BY <1>3, <1>8, MovedSame

LEMMA BringUpMoved ==
  ASSUME NEW s, WmOK(s), NEW c \in Managed(s), IsMain(c)
  PROVE  Moved(s, BringUp(s, c), NonMains)
<1> DEFINE t == IF c \in s.full THEN s ELSE PanelsAbove(s, c)
<1>1. Type[c] # "panel"
  BY DEF IsMain
<1>2. Moved(s, t, NonMains)
  BY <1>1, MovedSame, PanelsAboveMoved
<1>3. BringUp(s, c) = StackDialogs(t, c)
  BY DEF BringUp
<1> HIDE DEF t
<1>4. WmOK(t)
  BY <1>2, MovedOK
<1>5. Moved(t, StackDialogs(t, c), NonMains)
  BY <1>4, StackDialogsMoved
<1> QED
  BY <1>2, <1>3, <1>5, MovedTrans

(* The end of a line of transient clients is in the stack, too. *)
LEMMA RootManaged ==
  ASSUME NEW s, WmOK(s), NEW c \in Managed(s)
  PROVE  Root(s, c) \in Managed(s)
<1> DEFINE f == Up(s, Clients)
           T == Managed(s)
<1>1. \A p \in T : f[p] = IF s.trans[p] # None THEN s.trans[p] ELSE p
  BY WmFields DEF Up, Pointer
<1>2. \A p \in T : f[p] \in T
  BY <1>1, WmFields
<1> HIDE DEF f, T
<1>3. LastOf(f, c) \in T
  BY <1>2, LastFact DEF T
<1> QED
  BY <1>3 DEF Root, f, T

LEMMA FamilyFact ==
  ASSUME NEW s, WmOK(s), NEW k, NEW F
  PROVE  Cardinality(Family(s, k, F)) \in Nat /\ Cardinality(Family(s, k, F)) <= ClientCount
<1>1. Family(s, k, F) \in SUBSET Clients
  BY WmFields DEF Family
<1> HIDE DEF Family
<1> QED
  BY <1>1, WmAssumption, FS_Subset, FS_CardinalityType DEF ClientCount

LEMMA HighestTransientManaged ==
  ASSUME NEW s, WmOK(s), NEW c \in Managed(s), NEW F
  PROVE  HighestTransient(s, c, F) \in Managed(s)
<1> DEFINE kids == Children(s, c, F)
           size(k) == Cardinality(Family(s, k, F))
           most == {k \in kids : \A j \in kids : size(j) <= size(k)}
           f == Down(s, F)
           T == Managed(s)
<1>0. \A p : Children(s, p, F) \subseteq T
  BY DEF Children
<1>1. HighestTransient(s, c, F) = IF kids = {} THEN c ELSE LastOf(f, Highest(s, most))
  BY DEF HighestTransient
<1>2. CASE kids = {}
  BY <1>1, <1>2
<1>3. CASE kids # {}
  <2>1. \A k \in kids : size(k) \in Nat /\ size(k) <= ClientCount
    BY FamilyFact
  <2> HIDE DEF size, kids
  <2>2. most # {}
    <3> DEFINE B == {ClientCount - size(k) : k \in kids}
    <3>1. B \in SUBSET Nat /\ B # {}
      BY <1>3, <2>1, CountFact
    <3>2. PICK k \in kids : \A n \in B : ClientCount - size(k) <= n
      <4> HIDE DEF B
      <4>1. Smallest(B) \in B /\ \A n \in B : Smallest(B) <= n
        BY <3>1, SmallestFact
      <4> QED
        BY <4>1 DEF B
    <3>3. ASSUME NEW j \in kids PROVE size(j) <= size(k)
      <4>1. ClientCount - size(k) <= ClientCount - size(j)
        BY <3>2
      <4> QED
        BY <2>1, <4>1, CountFact
    <3> QED
      BY <3>3
  <2>3. most \in SUBSET T
    BY <1>0 DEF kids
  <2> HIDE DEF most
  <2>4. Highest(s, most) \in T
    <3>1. IsStack(s.order) /\ T = Members(s.order)
      BY WmFields
    <3> HIDE DEF T
    <3> QED
      BY <2>2, <2>3, <3>1, HighestFact
  <2>5. ASSUME NEW p \in T PROVE f[p] \in T
    <3>1. f[p] = IF Children(s, p, F) = {} THEN p ELSE Highest(s, Children(s, p, F))
      BY WmFields DEF Down
    <3>2. Children(s, p, F) # {} => Highest(s, Children(s, p, F)) \in T
      <4>1. IsStack(s.order) /\ T = Members(s.order) /\ Children(s, p, F) \in SUBSET T
        BY <1>0, WmFields
      <4> HIDE DEF T
      <4> QED
        BY <4>1, HighestFact
    <3> QED
      BY <3>1, <3>2
  <2> HIDE DEF f, T
  <2>6. LastOf(f, Highest(s, most)) \in T
    BY <2>4, <2>5, LastFact
  <2> QED
    BY <1>1, <1>3, <2>6 DEF T
<1> QED
  BY <1>2, <1>3

LEMMA VisibleFact ==
  ASSUME NEW s, WmOK(s), Visible(s) # None
  PROVE  Visible(s) \in Managed(s) /\ IsMain(Visible(s))
BY WmFields DEF Visible, IsMain

LEMMA PlaceDialogMoved ==
  ASSUME NEW s, WmOK(s), NEW c \in Managed(s), IsDialog(c)
  PROVE  Moved(s, PlaceDialog(s, c), {c})
<1> DEFINE r == Root(s, c)
           v == Visible(s)
           b == HighestTransient(s, r, Clients \ {c})
           t == Restack(s, c, b)
<1>1. b \in Managed(s)
  BY RootManaged, HighestTransientManaged
<1>2. Moved(s, t, {c})
  <2> HIDE DEF b
  <2> QED
    BY <1>1, RestackMoved
<1>3. PlaceDialog(s, c) = IF /\ ~IsDialog(s.trans[c]) /\ IsMain(r) /\ Group[r] # None
                             /\ v \notin {None, r} /\ Group[v] = Group[r]
                          THEN Restack(t, c, v) ELSE t
  BY DEF PlaceDialog
<1> HIDE DEF t
<1>4. WmOK(t) /\ Managed(t) = Managed(s)
  BY <1>2, MovedOK
<1>5. CASE v # None
  <2>1. v \in Managed(t) /\ c \in Managed(t)
    BY <1>4, <1>5, VisibleFact
  <2> HIDE DEF v
  <2>2. Moved(t, Restack(t, c, v), {c})
    BY <1>4, <2>1, RestackMoved
  <2>3. Moved(s, Restack(t, c, v), {c})
    BY <1>2, <2>2, MovedTrans
  <2> QED
    BY <1>2, <1>3, <2>3
<1>6. CASE v = None
  BY <1>2, <1>3, <1>6
<1> QED
  BY <1>5, <1>6

LEMMA RaiseFlaggedMoved ==
  ASSUME NEW s, WmOK(s)
  PROVE  Moved(s, RaiseFlagged(s), NonMains)
<1> DEFINE own == IF Visible(s) = None THEN s ELSE TransientsToTop(s, Visible(s), s.above)
           all == TransientsToTop(TransientsToTop(own, None, s.above), None, Urgent)
<1>1. s.above \in SUBSET Clients /\ Urgent \in SUBSET Clients
  BY WmFields, WmAssumption
<1>2. Moved(s, own, NonMains)
  BY <1>1, TransientsToTopMoved, MovedSame
<1>3. RaiseFlagged(s) = all
  BY DEF RaiseFlagged
<1> HIDE DEF own
<1>4. WmOK(own)
  BY <1>2, MovedOK
<1>5. Moved(own, all, NonMains)
  BY <1>1, <1>4, TransientsTwice
<1> QED
  BY <1>2, <1>3, <1>5, MovedTrans

LEMMA DialogMovesMoved ==
  ASSUME NEW s, WmOK(s), NEW c \in Managed(s), IsDialog(c)
  PROVE  Moved(s, DialogMoves(s, c), NonMains)
<1> DEFINE placed == IF s.trans[c] = None THEN Raise(s, c) ELSE PlaceDialog(s, c)
           S == Transients(placed, c, Clients)
           t == Regroup(placed, S, c)
<1>0. {c} \subseteq NonMains
  BY WmFields DEF IsDialog, NonMains, IsMain
<1>1. Moved(s, placed, NonMains)
  <2>1. Moved(s, placed, {c})
    BY RaiseMoved, PlaceDialogMoved
  <2> QED
    BY <1>0, <2>1, MovedMore
<1>2. DialogMoves(s, c) = RaiseFlagged(t)
  BY DEF DialogMoves
<1> HIDE DEF placed
<1>3. WmOK(placed) /\ Managed(placed) = Managed(s)
  BY <1>1, MovedOK
<1>4. S \subseteq NonMains /\ c \notin S
  BY DEF Transients, NonMains, IsMain
<1>5. c \in (Managed(placed) \ S) \union {None}
  BY <1>3, <1>4
<1> HIDE DEF S
<1>6. Moved(placed, t, NonMains)
  BY <1>3, <1>4, <1>5, RegroupMoved, MovedMore
<1> HIDE DEF t
<1>7. WmOK(t)
  BY <1>3, <1>6, MovedOK
<1>8. Moved(t, RaiseFlagged(t), NonMains)
  BY <1>7, RaiseFlaggedMoved
<1> QED
  BY <1>1, <1>2, <1>6, <1>8, MovedTrans

-----------------------------------------------------------------------------
(* What a handler keeps: the clients, what they are transient for and the  *)
(* desktop; then what is shown of the main clients, too; then their order. *)

Kept(s, t) ==
  WmOK(t) /\ Managed(t) = Managed(s) /\ t.trans = s.trans /\ t.desktop = s.desktop

SameMains(s, t) ==
  /\ t.top = s.top /\ t.raised = s.raised
  /\ t.newForDesktop = s.newForDesktop /\ t.quiet = s.quiet
  /\ \A c \in Clients : IsMain(c) => (c \in t.mapped <=> c \in s.mapped)

Steady(s, t) == Kept(s, t) /\ SameMains(s, t) /\ InOrder(s.order, t.order, NonMains)

OnTop(s, c) ==
  \A m \in Mapped(s, {"app", "desktop"}) : Place(s.order, m) <= Place(s.order, c)

(* The visible client may come to the top. *)
Settled(s, t) ==
  /\ Kept(s, t) /\ SameMains(s, t)
  /\ Visible(s) # None /\ OnTop(s, Visible(s)) => OnTop(t, Visible(t))

LEMMA KeptTrans ==
  ASSUME NEW s, NEW t, Kept(s, t), NEW r, Kept(t, r)
  PROVE  Kept(s, r)
BY DEF Kept

LEMMA SteadyTrans ==
  ASSUME NEW s, NEW t, Steady(s, t), NEW r, Steady(t, r)
  PROVE  Steady(s, r)
<1>1. Kept(s, r)
  BY KeptTrans DEF Steady
<1>2. SameMains(s, r)
  BY DEF Steady, SameMains
<1>3. InOrder(s.order, r.order, NonMains)
  BY DEF Steady, InOrder, Kept, Managed
<1> QED
  BY <1>1, <1>2, <1>3 DEF Steady

LEMMA KeptSame ==
  ASSUME NEW s, WmOK(s)
  PROVE  Kept(s, s) /\ Steady(s, s) /\ Settled(s, s)
BY DEF Kept, Steady, SameMains, InOrder, Settled

LEMMA SteadySettled ==
  ASSUME NEW s, WmOK(s), NEW t, Steady(s, t)
  PROVE  Settled(s, t)
<1>1. Kept(s, t) /\ SameMains(s, t)
  BY DEF Steady
<1>2. Visible(t) = Visible(s)
  BY <1>1 DEF Visible, Kept, SameMains
<1>3. ASSUME Visible(s) # None, OnTop(s, Visible(s)), NEW m \in Mapped(t, {"app", "desktop"})
      PROVE  Place(t.order, m) <= Place(t.order, Visible(s))
  <2> DEFINE v == Visible(s)
  <2>1. v \in Managed(s) /\ IsMain(v)
    BY <1>3, VisibleFact
  <2>2. m \in Managed(t) /\ m \in t.mapped /\ IsMain(m)
    BY DEF Mapped, IsMain
  <2>3. m \in Managed(s) /\ m \in Clients /\ v \in Clients
    BY <1>1, <2>1, <2>2, WmFields DEF Kept
  <2>4. m \in s.mapped
    BY <1>1, <2>2, <2>3 DEF SameMains
  <2>5. m \in Mapped(s, {"app", "desktop"})
    BY <2>2, <2>3, <2>4 DEF Mapped, IsMain
  <2>6. Place(s.order, m) <= Place(s.order, v)
    BY <1>3, <2>5 DEF OnTop
  <2>7. m \in Members(s.order) \ NonMains /\ v \in Members(s.order) \ NonMains
    BY <2>1, <2>2, <2>3 DEF NonMains, Managed
  <2> HIDE DEF v
  <2> QED
    BY <2>6, <2>7 DEF Steady, InOrder, v
<1> QED
  BY <1>1, <1>2, <1>3 DEF Settled, OnTop

LEMMA SettledTrans ==
  ASSUME NEW s, NEW t, Settled(s, t), NEW r, Settled(t, r)
  PROVE  Settled(s, r)
<1>1. Kept(s, r)
  BY KeptTrans DEF Settled
<1>2. SameMains(s, r) /\ SameMains(s, t)
  BY DEF Settled, SameMains
<1>3. Visible(t) = Visible(s)
  BY <1>2 DEF Visible, Settled, Kept, SameMains
<1> QED
  BY <1>1, <1>2, <1>3 DEF Settled

LEMMA MovedSteady ==
  ASSUME NEW s, WmOK(s), NEW t, Moved(s, t, NonMains)
  PROVE  Steady(s, t)
<1>1. WmOK(t) /\ Managed(t) = Managed(s)
  BY MovedOK
<1> QED
  BY <1>1 DEF Steady, Kept, SameMains, Moved, SameButOrder, Rearranged

LEMMA MovedKept ==
  ASSUME NEW s, WmOK(s), NEW S, NEW t, Moved(s, t, S)
  PROVE  Kept(s, t)
<1>1. WmOK(t) /\ Managed(t) = Managed(s)
  BY MovedOK
<1> QED
  BY <1>1 DEF Kept, Moved, SameButOrder

-----------------------------------------------------------------------------
(* Steps that leave the stack alone.                                       *)

LEMMA EditSteady ==
  ASSUME NEW s, WmOK(s), NEW t \in WmState,
         t.order = s.order, t.top = s.top, t.desktop = s.desktop, t.raised = s.raised,
         t.trans = s.trans, t.newForDesktop = s.newForDesktop, t.quiet = s.quiet,
         t.mapped \subseteq Managed(s),
         \A c \in Clients : IsMain(c) => (c \in t.mapped <=> c \in s.mapped)
  PROVE  Steady(s, t)
<1>1. Managed(t) = Managed(s)
  BY DEF Managed
<1>2. WmOK(t)
  BY <1>1 DEF WmOK, Sound
<1>3. InOrder(s.order, t.order, NonMains)
  BY DEF InOrder
<1> QED
  BY <1>1, <1>2, <1>3 DEF Steady, Kept, SameMains

LEMMA SetFocusSteady ==
  ASSUME NEW s, WmOK(s), NEW c \in Pointer
  PROVE  Steady(s, SetFocus(s, c))
<1>1. CASE c = None \/ c \in NoInput \/ c = s.focus
  <2>1. SetFocus(s, c) = s
    BY <1>1 DEF SetFocus
  <2> QED
    BY <2>1, KeptSame
<1>2. CASE ~ (c = None \/ c \in NoInput \/ c = s.focus)
  <2>1. PICK b \in BOOLEAN :
          SetFocus(s, c) = [s EXCEPT !.focus = c, !.next[c] = IF b THEN s.focus ELSE @]
    <3> DEFINE old == s.focus
               b == old # None /\ (\/ Root(s, old) = Root(s, c)
                                   \/ IsDialog(old) /\ IsDialog(c) /\ s.trans[c] = None)
    <3>1. SetFocus(s, c) = [s EXCEPT !.focus = c, !.next[c] = IF b THEN s.focus ELSE @]
      BY <1>2 DEF SetFocus
    <3>2. b \in BOOLEAN
      OBVIOUS
    <3> HIDE DEF b
    <3> QED
      BY <3>1, <3>2
  <2>2. c \in Clients
    BY <1>2 DEF Pointer
  <2> DEFINE t == [s EXCEPT !.focus = c, !.next[c] = IF b THEN s.focus ELSE @]
  <2>3. s \in WmState /\ s.focus \in Pointer /\ s.next \in [Clients -> Pointer]
    BY WmFields DEF WmOK
  <2>4. t \in WmState
    BY <2>2, <2>3 DEF WmState
  <2>5. /\ t.order = s.order /\ t.top = s.top /\ t.desktop = s.desktop /\ t.raised = s.raised
        /\ t.trans = s.trans /\ t.newForDesktop = s.newForDesktop /\ t.quiet = s.quiet
        /\ t.mapped = s.mapped
    BY <2>3 DEF WmState
  <2> HIDE DEF t
  <2>6. Steady(s, t)
    BY <2>4, <2>5, EditSteady, WmFields
  <2> QED
    BY <2>1, <2>6 DEF t
<1> QED
  BY <1>1, <1>2

LEMMA MainHideSteady ==
  ASSUME NEW s, WmOK(s), NEW c \in Clients
  PROVE  Steady(s, MainHide(s, c))
<1>0. s \in WmState /\ s.focus \in Pointer /\ s.next \in [Clients -> Pointer] /\ None \in Pointer
  BY WmFields DEF WmOK, Pointer
<1> DEFINE t1 == [s EXCEPT !.next[c] = s.focus]
           t2 == [s EXCEPT !.next[c] = None, !.focus = IF @ = c THEN None ELSE @]
<1>1. Steady(s, t1)
  <2>1. t1 \in WmState
    BY <1>0 DEF WmState
  <2>2. /\ t1.order = s.order /\ t1.top = s.top /\ t1.desktop = s.desktop /\ t1.raised = s.raised
        /\ t1.trans = s.trans /\ t1.newForDesktop = s.newForDesktop /\ t1.quiet = s.quiet
        /\ t1.mapped = s.mapped
    BY <1>0 DEF WmState
  <2> HIDE DEF t1
  <2> QED
    BY <2>1, <2>2, EditSteady, WmFields
<1>2. Steady(s, t2)
  <2>1. t2 \in WmState
    BY <1>0 DEF WmState
  <2>2. /\ t2.order = s.order /\ t2.top = s.top /\ t2.desktop = s.desktop /\ t2.raised = s.raised
        /\ t2.trans = s.trans /\ t2.newForDesktop = s.newForDesktop /\ t2.quiet = s.quiet
        /\ t2.mapped = s.mapped
    BY <1>0 DEF WmState
  <2> HIDE DEF t2
  <2> QED
    BY <2>1, <2>2, EditSteady, WmFields
<1>3. MainHide(s, c) = IF /\ s.focus \notin {c, None}
                          /\ IsDialog(s.focus)
                          /\ s.trans[s.focus] # None
                       THEN t1 ELSE t2
  BY DEF MainHide
<1> HIDE DEF t1, t2
<1> QED
  BY <1>1, <1>2, <1>3

-----------------------------------------------------------------------------
(* The loops over the transient clients.                                   *)

DialogTrans(s) == \A c \in Clients : s.trans[c] # None => IsDialog(c)
VisibleMapped(s) == Visible(s) # None => Visible(s) \in s.mapped

(* What a loop that calls a method does to the state: if only dialogs are  *)
(* transient the visible main client stays the visible one.                *)
ResultOK(method, s, t) ==
  /\ Kept(s, t)
  /\ method = "show" => t.top = s.top
  /\ DialogTrans(s) /\ method = "show" => Steady(s, t)
  /\ DialogTrans(s) /\ VisibleMapped(s) => Settled(s, t)

Outcomes == {f \in [Calls -> WmState] : \A x \in Calls : ResultOK(x.method, x.s, f[x])}

LEMMA SteadyResult ==
  ASSUME NEW s, WmOK(s), NEW t, Steady(s, t), NEW method
  PROVE  ResultOK(method, s, t)
BY SteadySettled DEF ResultOK, Steady, SameMains

LEMMA SteadyKeeps ==
  ASSUME NEW s, NEW t, Settled(s, t) \/ Steady(s, t)
  PROVE  (DialogTrans(s) => DialogTrans(t)) /\ (VisibleMapped(s) /\ WmOK(s) => VisibleMapped(t))
<1>1. Kept(s, t) /\ SameMains(s, t)
  BY DEF Settled, Steady
<1>2. DialogTrans(s) => DialogTrans(t)
  BY <1>1 DEF Kept, DialogTrans
<1>3. Visible(t) = Visible(s)
  BY <1>1 DEF Visible, Kept, SameMains
<1>4. VisibleMapped(s) /\ WmOK(s) => VisibleMapped(t)
  <2> SUFFICES ASSUME Visible(s) \in s.mapped, WmOK(s), Visible(s) # None PROVE Visible(s) \in t.mapped
    BY <1>3 DEF VisibleMapped
  <2>1. Visible(s) \in Clients /\ IsMain(Visible(s))
    BY VisibleFact, WmFields
  <2> QED
    BY <1>1, <2>1 DEF SameMains
<1> QED
  BY <1>2, <1>4

LEMMA ResultTrans ==
  ASSUME NEW method, NEW s, WmOK(s), NEW t, ResultOK(method, s, t), NEW r, ResultOK(method, t, r)
  PROVE  ResultOK(method, s, r)
<1>1. Kept(s, r)
  BY KeptTrans DEF ResultOK
<1>2. method = "show" => r.top = s.top
  BY DEF ResultOK
<1>3. DialogTrans(s) => DialogTrans(t)
  BY DEF ResultOK, Kept, DialogTrans
<1>4. DialogTrans(s) /\ method = "show" => Steady(s, r)
  BY <1>3, SteadyTrans DEF ResultOK
<1>5. DialogTrans(s) /\ VisibleMapped(s) => Settled(s, r)
  <2> SUFFICES ASSUME DialogTrans(s), VisibleMapped(s) PROVE Settled(s, r)
    OBVIOUS
  <2>1. Settled(s, t)
    BY DEF ResultOK
  <2>2. VisibleMapped(t)
    BY <2>1, SteadyKeeps
  <2>3. Settled(t, r)
    BY <1>3, <2>2 DEF ResultOK
  <2> QED
    BY <2>1, <2>3, SettledTrans
<1> QED
  BY <1>1, <1>2, <1>4, <1>5 DEF ResultOK

(* The loop leaves the state alone, or is one of the calls. *)
LEMMA EachTransientCall ==
  ASSUME NEW call, NEW s, WmOK(s), NEW c \in Clients, NEW method \in {"show", "iconize"}
  PROVE  \/ EachTransient(call, s, c, method) = s
         \/ \E x \in Calls : x.method = method /\ x.s = s /\ EachTransient(call, s, c, method) = call[x]
<1>1. CASE Children(s, c, Clients) = {}
  BY <1>1 DEF EachTransient
<1>2. CASE Children(s, c, Clients) # {}
  <2> DEFINE x == [method |-> method, s |-> s, c |-> c, p |-> s.order[1]]
  <2>1. EachTransient(call, s, c, method) = call[x]
    BY <1>2 DEF EachTransient
  <2>2. s.order[1] \in Managed(s) /\ s.order[1] \in Pointer
    <3>1. Managed(s) # {}
      BY <1>2 DEF Children
    <3>2. IsStack(s.order) /\ Managed(s) = Members(s.order) /\ Len(s.order) \in Nat
      BY WmFields, StackMembers
    <3>3. 1 \in 1 .. Len(s.order)
      BY <3>1, <3>2 DEF Members
    <3>4. s.order[1] \in Managed(s)
      BY <3>2, <3>3, IndexFact
    <3> QED
      BY <3>4, WmFields DEF Pointer
  <2>3. x \in Calls
    BY <2>2 DEF Calls, WmOK
  <2>4. x.method = method /\ x.s = s
    OBVIOUS
  <2> HIDE DEF x
  <2> QED
    BY <2>1, <2>3, <2>4
<1> QED
  BY <1>1, <1>2

LEMMA EachTransientFact ==
  ASSUME NEW call \in Outcomes, NEW s, WmOK(s), NEW c \in Clients,
         NEW method \in {"show", "iconize"}
  PROVE  ResultOK(method, s, EachTransient(call, s, c, method))
<1> DEFINE t == EachTransient(call, s, c, method)
<1>1. t = s \/ \E x \in Calls : x.method = method /\ x.s = s /\ t = call[x]
  BY EachTransientCall
<1> HIDE DEF t
<1>2. CASE t = s
  BY <1>2, KeptSame, SteadyResult DEF t
<1>3. CASE t # s
  <2>1. PICK x \in Calls : x.method = method /\ x.s = s /\ t = call[x]
    BY <1>1, <1>3
  <2>2. ResultOK(x.method, x.s, call[x])
    BY DEF Outcomes
  <2> QED
    BY <2>1, <2>2 DEF t
<1> QED
  BY <1>2, <1>3

LEMMA RestoreFact ==
  ASSUME NEW call \in Outcomes, NEW s, WmOK(s), NEW c \in Clients
  PROVE  ResultOK("show", s, Restore(call, s, c))
<1> DEFINE t == [s EXCEPT !.minimized = @ \ {c}]
<1>0. s \in WmState /\ s.minimized \subseteq Clients
  BY WmFields DEF WmOK
<1>1. t \in WmState
  BY <1>0 DEF WmState
<1>2. /\ t.order = s.order /\ t.top = s.top /\ t.desktop = s.desktop /\ t.raised = s.raised
      /\ t.trans = s.trans /\ t.newForDesktop = s.newForDesktop /\ t.quiet = s.quiet
      /\ t.mapped = s.mapped
  BY <1>0 DEF WmState
<1>3. Restore(call, s, c) = s \/ Restore(call, s, c) = EachTransient(call, t, c, "show")
  BY DEF Restore
<1> HIDE DEF t
<1>4. Steady(s, t)
  BY <1>1, <1>2, EditSteady, WmFields
<1>5. WmOK(t)
  BY <1>4 DEF Steady, Kept
<1>6. ResultOK("show", t, EachTransient(call, t, c, "show"))
  BY <1>5, EachTransientFact
<1>7. ResultOK("show", s, t) /\ ResultOK("show", s, s)
  BY <1>4, SteadyResult, KeptSame
<1> QED
  BY <1>3, <1>6, <1>7, ResultTrans

-----------------------------------------------------------------------------
(* The show methods.                                                       *)

LEMMA AboveFact ==
  ASSUME NEW s, WmOK(s), NEW c \in Managed(s)
  PROVE  Above(s, c) \in Managed(s) \union {None} /\ Above(s, c) \in Pointer
<1> DEFINE o == s.order
           k == Place(o, c)
<1>1. IsStack(o) /\ Managed(s) = Members(o) /\ Managed(s) \subseteq Clients
  BY WmFields
<1>2. k \in 1 .. Len(o) /\ o[k] = c /\ Len(o) \in Nat
  BY <1>1, StackMembers
<1>3. Above(s, c) = IF c = o[Len(o)] THEN None ELSE o[k + 1]
  BY DEF Above, TopOf
<1> HIDE DEF k
<1>4. c # o[Len(o)] => k + 1 \in 1 .. Len(o)
  BY <1>2
<1>5. c # o[Len(o)] => o[k + 1] \in Members(o)
  BY <1>1, <1>4, IndexFact
<1> QED
  BY <1>1, <1>3, <1>5 DEF Pointer

LEMMA BelowFact ==
  ASSUME NEW s, WmOK(s), NEW c \in Managed(s)
  PROVE  Below(s, c) \in Managed(s) \union {None}
<1> DEFINE o == s.order
           k == Place(o, c)
<1>1. IsStack(o) /\ Managed(s) = Members(o)
  BY WmFields
<1>2. k \in 1 .. Len(o) /\ o[k] = c /\ Len(o) \in Nat
  BY <1>1, StackMembers
<1>3. Below(s, c) = IF k = 1 THEN None ELSE o[k - 1]
  BY DEF Below
<1> HIDE DEF k
<1>4. k # 1 => k - 1 \in 1 .. Len(o)
  BY <1>2
<1>5. k # 1 => o[k - 1] \in Members(o)
  BY <1>1, <1>4, IndexFact
<1> QED
  BY <1>1, <1>3, <1>5

(* No main client is higher. *)
Ahead(s, c) == \A d \in Managed(s) : IsMain(d) => Place(s.order, d) <= Place(s.order, c)

LEMMA AheadFact ==
  ASSUME NEW s, WmOK(s), NEW c, Ahead(s, c)
  PROVE  OnTop(s, c)
BY DEF Ahead, OnTop, Mapped, IsMain

LEMMA AheadKept ==
  ASSUME NEW s, WmOK(s), NEW c \in Managed(s), IsMain(c), Ahead(s, c),
         NEW t, Managed(t) = Managed(s), InOrder(s.order, t.order, NonMains)
  PROVE  Ahead(t, c)
<1> SUFFICES ASSUME NEW d \in Managed(s), IsMain(d) PROVE Place(t.order, d) <= Place(t.order, c)
  BY DEF Ahead
<1>1. d \in Members(s.order) \ NonMains /\ c \in Members(s.order) \ NonMains
  BY DEF NonMains, Managed
<1>2. Place(s.order, d) <= Place(s.order, c)
  BY DEF Ahead
<1> QED
  BY <1>1, <1>2 DEF InOrder

(* A client is mapped where it is. *)
LEMMA MapIn ==
  ASSUME NEW s, WmOK(s), NEW c \in Managed(s)
  PROVE  LET t == [s EXCEPT !.mapped = @ \union {c}]
         IN /\ Kept(s, t) /\ t.order = s.order /\ t.top = s.top /\ t.raised = s.raised
            /\ t.newForDesktop = s.newForDesktop /\ t.quiet = s.quiet
            /\ t.mapped = s.mapped \union {c} /\ t.hung = s.hung
            /\ ~IsMain(c) => Steady(s, t)
<1> DEFINE t == [s EXCEPT !.mapped = @ \union {c}]
<1>1. s \in WmState /\ s.mapped \subseteq Managed(s) /\ c \in Clients
  BY WmFields DEF WmOK
<1>2. t \in WmState
  BY <1>1 DEF WmState
<1>3. /\ t.order = s.order /\ t.top = s.top /\ t.desktop = s.desktop /\ t.raised = s.raised
      /\ t.trans = s.trans /\ t.newForDesktop = s.newForDesktop /\ t.quiet = s.quiet
      /\ t.mapped = s.mapped \union {c} /\ t.hung = s.hung
  BY <1>1 DEF WmState
<1> HIDE DEF t
<1>4. Managed(t) = Managed(s)
  BY <1>3 DEF Managed
<1>5. Sound(t)
  BY <1>1, <1>3, <1>4 DEF Sound, WmOK
<1>6. Kept(s, t)
  BY <1>2, <1>3, <1>4, <1>5 DEF Kept, WmOK
<1>7. ~IsMain(c) => Steady(s, t)
  <2> SUFFICES ASSUME ~IsMain(c) PROVE Steady(s, t)
    OBVIOUS
  <2>1. t.mapped \subseteq Managed(s)
    BY <1>1, <1>3
  <2>2. \A d \in Clients : IsMain(d) => (d \in t.mapped <=> d \in s.mapped)
    BY <1>3
  <2> QED
    BY <1>2, <1>3, <2>1, <2>2, EditSteady
<1> QED
  BY <1>3, <1>6, <1>7 DEF t

LEMMA PlaceQuietFact ==
  ASSUME NEW s, WmOK(s), NEW c \in Managed(s), NEW v \in Managed(s) \union {None}
  PROVE  LET t == PlaceQuiet(s, c, v)
         IN /\ Kept(s, t) /\ t.top = s.top /\ t.raised = s.raised
            /\ t.newForDesktop = s.newForDesktop /\ t.mapped = s.mapped
            /\ t.quiet \subseteq s.quiet /\ (c \in s.mapped => t.quiet = s.quiet)
            /\ (c \in s.quiet \ s.mapped /\ v # None) \/ t.order = s.order
<1> DEFINE quietly == c \in s.quiet \ s.mapped /\ v # None
           low == Restack(s, c, Below(s, v))
           base == IF quietly THEN low ELSE s
           t == PlaceQuiet(s, c, v)
<1>1. WmOK(base) /\ Managed(base) = Managed(s) /\ SameButOrder(s, base)
  <2>1. CASE quietly
    <3>1. Below(s, v) \in Managed(s) \union {None}
      BY <2>1, BelowFact
    <3>2. Moved(s, low, {c})
      BY <3>1, RestackMoved
    <3> HIDE DEF low
    <3> QED
      BY <2>1, <3>2, MovedOK DEF Moved
  <2>2. CASE ~ quietly
    BY <2>2 DEF SameButOrder
  <2> QED
    BY <2>1, <2>2
<1>2. PICK Q : t = [base EXCEPT !.quiet = Q] /\ Q \subseteq s.quiet /\ (c \in s.mapped => Q = s.quiet)
  <2>1. CASE quietly
    <3>1. t = [low EXCEPT !.quiet = @ \ {c}]
      BY <2>1 DEF PlaceQuiet
    <3>2. low.quiet = s.quiet
      BY <1>1, <2>1 DEF SameButOrder
    <3>3. t = [low EXCEPT !.quiet = low.quiet \ {c}]
      BY <3>1
    <3> HIDE DEF low, t
    <3> QED
      BY <2>1, <3>2, <3>3
  <2>2. CASE ~ quietly
    <3>1. t = [s EXCEPT !.quiet = s.quiet \ (IF c \in s.mapped THEN {} ELSE {c})]
      BY <2>2 DEF PlaceQuiet
    <3> HIDE DEF t
    <3> QED
      BY <2>2, <3>1
  <2> QED
    BY <2>1, <2>2
<1>3. ~ quietly => base.order = s.order
  OBVIOUS
<1> HIDE DEF base, t
<1>4. base \in WmState /\ Q \subseteq Clients
  BY <1>1, <1>2, WmFields DEF WmOK
<1>5. t \in WmState
  BY <1>2, <1>4 DEF WmState
<1>6. /\ t.order = base.order /\ t.top = base.top /\ t.desktop = base.desktop
      /\ t.raised = base.raised /\ t.trans = base.trans /\ t.mapped = base.mapped
      /\ t.newForDesktop = base.newForDesktop /\ t.quiet = Q
  BY <1>2, <1>4 DEF WmState
<1>7. Managed(t) = Managed(s)
  BY <1>1, <1>6 DEF Managed
<1>8. WmOK(t)
  BY <1>1, <1>5, <1>6, <1>7 DEF WmOK, Sound
<1>9. Kept(s, t)
  BY <1>1, <1>6, <1>7, <1>8 DEF Kept, SameButOrder
<1> QED
  BY <1>1, <1>2, <1>3, <1>6, <1>9 DEF SameButOrder, t

(* CLIENT_NEW_FOR_DESKTOP *)
NewFor(s, c) ==
  IF s.raised THEN s.newForDesktop \union {c}
  ELSE IF Visible(s) # c THEN s.newForDesktop \ {c} ELSE s.newForDesktop

AppShown(s, t, c) ==
  /\ t.raised = s.raised /\ t.newForDesktop = NewFor(s, c)
  /\ t.quiet \subseteq s.quiet /\ (c \in s.mapped => t.quiet = s.quiet)
  /\ \A d \in Clients : IsMain(d) => (d \in t.mapped <=> d \in s.mapped \/ d = c)
  /\ (c \in s.quiet \ s.mapped /\ Visible(s) # None) \/ Ahead(t, c)

LEMMA MainShowFact ==
  ASSUME NEW call \in Outcomes, NEW s, WmOK(s), NEW c \in Managed(s), Type[c] = "app"
  PROVE  LET t == MainShow(call, s, c)
         IN Kept(s, t) /\ t.top = s.top /\ (DialogTrans(s) => AppShown(s, t, c))
<1> DEFINE v == Visible(s)
           s1 == [s EXCEPT !.newForDesktop = IF s.raised THEN @ \union {c}
                                             ELSE IF v # c THEN @ \ {c} ELSE @]
           s2 == Raise(s1, c)
           s3 == Restore(call, s2, c)
           s4 == PlaceQuiet(s3, c, v)
           t == [s4 EXCEPT !.mapped = @ \union {c}]
<1>0. MainShow(call, s, c) = t
  BY DEF MainShow
<1>1. /\ WmOK(s1) /\ Managed(s1) = Managed(s) /\ s1.order = s.order /\ s1.top = s.top
      /\ s1.raised = s.raised /\ s1.trans = s.trans /\ s1.mapped = s.mapped
      /\ s1.desktop = s.desktop
      /\ s1.newForDesktop = NewFor(s, c) /\ s1.quiet = s.quiet
  <2>1. s \in WmState /\ c \in Clients /\ s.newForDesktop \subseteq Clients
    BY WmFields DEF WmOK
  <2>2. s1 = [s EXCEPT !.newForDesktop = NewFor(s, c)] /\ NewFor(s, c) \subseteq Clients
    BY <2>1 DEF NewFor
  <2> HIDE DEF s1, NewFor
  <2>3. s1 \in WmState
    BY <2>1, <2>2 DEF WmState
  <2>4. /\ s1.order = s.order /\ s1.top = s.top
        /\ s1.raised = s.raised /\ s1.trans = s.trans /\ s1.mapped = s.mapped
        /\ s1.desktop = s.desktop
        /\ s1.newForDesktop = NewFor(s, c) /\ s1.quiet = s.quiet
    BY <2>1, <2>2 DEF WmState
  <2>5. Managed(s1) = Managed(s)
    BY <2>4 DEF Managed
  <2> QED
    BY <2>3, <2>4, <2>5 DEF WmOK, Sound
<1> HIDE DEF s1
<1>2. Moved(s1, s2, {c}) /\ \A d \in Managed(s1) : Place(s2.order, d) <= Place(s2.order, c)
  BY <1>1, RaiseMoved
<1> HIDE DEF s2
<1>3. WmOK(s2) /\ Managed(s2) = Managed(s1) /\ SameButOrder(s1, s2)
  BY <1>1, <1>2, MovedOK DEF Moved
<1>4. Ahead(s2, c)
  BY <1>2, <1>3 DEF Ahead
<1>5. c \in Clients /\ IsMain(c)
  BY WmFields DEF IsMain
<1>6. ResultOK("show", s2, s3)
  BY <1>3, <1>5, RestoreFact
<1> HIDE DEF s3
<1>7. Kept(s2, s3) /\ s3.top = s2.top /\ (DialogTrans(s2) => Steady(s2, s3))
  BY <1>6 DEF ResultOK
<1>8. WmOK(s3) /\ Managed(s3) = Managed(s)
  BY <1>1, <1>3, <1>7 DEF Kept
<1>9. v \in Managed(s3) \union {None}
  BY <1>8, VisibleFact
<1> HIDE DEF v
<1>10. /\ Kept(s3, s4) /\ s4.top = s3.top /\ s4.raised = s3.raised
       /\ s4.newForDesktop = s3.newForDesktop /\ s4.mapped = s3.mapped
       /\ s4.quiet \subseteq s3.quiet /\ (c \in s3.mapped => s4.quiet = s3.quiet)
       /\ (c \in s3.quiet \ s3.mapped /\ v # None) \/ s4.order = s3.order
  BY <1>8, <1>9, PlaceQuietFact
<1> HIDE DEF s4
<1>11. WmOK(s4) /\ c \in Managed(s4)
  BY <1>8, <1>10 DEF Kept
<1>12. /\ Kept(s4, t) /\ t.order = s4.order /\ t.top = s4.top /\ t.raised = s4.raised
       /\ t.newForDesktop = s4.newForDesktop /\ t.quiet = s4.quiet
       /\ t.mapped = s4.mapped \union {c}
  BY <1>11, MapIn
<1> HIDE DEF t
<1>13. Kept(s, t) /\ t.top = s.top
  <2>1. Kept(s3, t)
    BY <1>10, <1>12, KeptTrans
  <2>2. Kept(s2, t)
    BY <1>7, <2>1, KeptTrans
  <2> QED
    BY <1>1, <1>3, <1>7, <1>10, <1>12, <2>2 DEF Kept, SameButOrder
<1>14. ASSUME DialogTrans(s) PROVE AppShown(s, t, c)
  <2>1. Steady(s2, s3)
    BY <1>1, <1>3, <1>7, <1>14 DEF DialogTrans, SameButOrder
  <2>2. /\ SameMains(s2, s3)
        /\ s2.raised = s.raised /\ s2.newForDesktop = NewFor(s, c) /\ s2.quiet = s.quiet
        /\ s2.mapped = s.mapped
    BY <1>1, <1>3, <2>1 DEF Steady, SameButOrder
  <2>3. /\ s3.raised = s.raised /\ s3.newForDesktop = NewFor(s, c) /\ s3.quiet = s.quiet
        /\ \A d \in Clients : IsMain(d) => (d \in s3.mapped <=> d \in s.mapped)
    BY <2>2 DEF SameMains
  <2>4. t.raised = s.raised /\ t.newForDesktop = NewFor(s, c)
    BY <1>10, <1>12, <2>3
  <2>5. c \in s3.mapped <=> c \in s.mapped
    BY <1>5, <2>3
  <2>6. t.quiet \subseteq s.quiet /\ (c \in s.mapped => t.quiet = s.quiet)
    BY <1>10, <1>12, <2>3, <2>5
  <2>7. \A d \in Clients : IsMain(d) => (d \in t.mapped <=> d \in s.mapped \/ d = c)
    BY <1>10, <1>12, <2>3
  <2>8. (c \in s.quiet \ s.mapped /\ v # None) \/ Ahead(t, c)
    <3> SUFFICES ASSUME ~ (c \in s.quiet \ s.mapped /\ v # None) PROVE Ahead(t, c)
      OBVIOUS
    <3>1. t.order = s3.order
      BY <1>10, <1>12, <2>3, <2>5
    <3>2. Managed(t) = Managed(s2) /\ Managed(s3) = Managed(s2) /\ c \in Managed(s2)
      BY <1>1, <1>3, <1>8, <1>13 DEF Kept
    <3>3. Ahead(s3, c)
      BY <1>3, <1>4, <1>5, <2>1, <3>2, AheadKept DEF Steady
    <3> QED
      BY <3>1, <3>2, <3>3 DEF Ahead
  <2> QED
    BY <2>4, <2>6, <2>7, <2>8 DEF AppShown, v
<1> QED
  BY <1>0, <1>13, <1>14

LEMMA DialogShowFact ==
  ASSUME NEW call \in Outcomes, NEW s, WmOK(s), NEW c \in Managed(s), IsDialog(c)
  PROVE  ResultOK("show", s, DialogShow(call, s, c))
<1> DEFINE s1 == Restore(call, s, c)
           s2 == WithModal(s, s1, c)
           s3 == DialogMoves(s2, c)
           t == [s3 EXCEPT !.mapped = @ \union {c}]
<1>0. DialogShow(call, s, c) = t
  BY DEF DialogShow
<1>1. ResultOK("show", s, s1)
  BY WmFields, RestoreFact
<1>2. WmOK(s1) /\ Managed(s1) = Managed(s)
  BY <1>1 DEF ResultOK, Kept
<1> HIDE DEF s1
<1>3. Steady(s1, s2)
  <2> DEFINE r == [s1 EXCEPT !.modals = @ + 1]
  <2>1. s1 \in WmState /\ s1.modals \in Int
    BY <1>2, WmFields DEF WmOK
  <2>2. r \in WmState
    BY <2>1 DEF WmState
  <2>3. /\ r.order = s1.order /\ r.top = s1.top /\ r.desktop = s1.desktop /\ r.raised = s1.raised
        /\ r.trans = s1.trans /\ r.newForDesktop = s1.newForDesktop /\ r.quiet = s1.quiet
        /\ r.mapped = s1.mapped
    BY <2>1 DEF WmState
  <2>4. s2 = r \/ s2 = s1
    BY DEF WithModal
  <2> HIDE DEF r, s2
  <2>5. Steady(s1, r)
    BY <1>2, <2>2, <2>3, EditSteady, WmFields
  <2> QED
    BY <1>2, <2>4, <2>5, KeptSame
<1> HIDE DEF s2
<1>4. WmOK(s2) /\ Managed(s2) = Managed(s)
  BY <1>2, <1>3 DEF Steady, Kept
<1>5. Moved(s2, s3, NonMains)
  BY <1>4, DialogMovesMoved
<1> HIDE DEF s3
<1>6. Steady(s2, s3)
  BY <1>4, <1>5, MovedSteady
<1>7. WmOK(s3) /\ Managed(s3) = Managed(s)
  BY <1>4, <1>6 DEF Steady, Kept
<1>8. ~IsMain(c)
  BY DEF IsDialog, IsMain
<1>9. Steady(s3, t)
  BY <1>7, <1>8, MapIn
<1> HIDE DEF t
<1>10. Steady(s1, t)
  BY <1>3, <1>6, <1>9, SteadyTrans
<1>11. ResultOK("show", s1, t)
  BY <1>2, <1>10, SteadyResult
<1> QED
  BY <1>0, <1>1, <1>11, ResultTrans

(* What the desktop looks like once it is shown *)
DesktopShown(s, t, c) ==
  /\ t.raised = s.raised /\ t.newForDesktop = s.newForDesktop /\ t.quiet = s.quiet
  /\ \A d \in Clients : IsMain(d) => (d \in t.mapped <=> d \in s.mapped \/ d = c)
  /\ Ahead(t, c)

LEMMA DesktopShowFact ==
  ASSUME NEW s, WmOK(s), NEW c \in Managed(s), Type[c] = "desktop"
  PROVE  LET t == DesktopShow(s, c)
         IN Kept(s, t) /\ t.top = s.top /\ DesktopShown(s, t, c)
<1> DEFINE s1 == Raise(s, c)
           t == [s1 EXCEPT !.mapped = @ \union {c}]
<1>0. DesktopShow(s, c) = t
  BY DEF DesktopShow
<1>1. Moved(s, s1, {c}) /\ \A d \in Managed(s) : Place(s1.order, d) <= Place(s1.order, c)
  BY RaiseMoved
<1> HIDE DEF s1
<1>2. WmOK(s1) /\ Managed(s1) = Managed(s) /\ SameButOrder(s, s1) /\ Kept(s, s1)
  BY <1>1, MovedOK, MovedKept DEF Moved
<1>3. /\ Kept(s1, t) /\ t.order = s1.order /\ t.top = s1.top /\ t.raised = s1.raised
      /\ t.newForDesktop = s1.newForDesktop /\ t.quiet = s1.quiet
      /\ t.mapped = s1.mapped \union {c}
  BY <1>2, MapIn
<1> HIDE DEF t
<1>4. Kept(s, t)
  BY <1>2, <1>3, KeptTrans
<1>5. Ahead(t, c)
  BY <1>1, <1>2, <1>3 DEF Ahead, Kept
<1> QED
  BY <1>0, <1>2, <1>3, <1>4, <1>5 DEF DesktopShown, SameButOrder

LEMMA PanelShowFact ==
  ASSUME NEW s, WmOK(s), NEW c \in Managed(s), Type[c] = "panel"
  PROVE  Steady(s, PanelShow(s, c))
<1> DEFINE mains == Mapped(s, {"app", "desktop"})
           moved == IF mains = {} THEN s ELSE Restack(s, c, Highest(s, mains))
           t == [moved EXCEPT !.mapped = @ \union {c}, !.docked = @ \union {c}]
<1>0. PanelShow(s, c) = IF c \in s.docked THEN s ELSE t
  BY DEF PanelShow
<1>1. ~IsMain(c) /\ {c} \subseteq NonMains /\ c \in Clients
  BY WmFields DEF IsMain, NonMains
<1>2. Moved(s, moved, NonMains)
  <2>1. CASE mains = {}
    BY <2>1, MovedSame
  <2>2. CASE mains # {}
    <3>1. mains \in SUBSET Managed(s)
      BY DEF Mapped
    <3>2. IsStack(s.order) /\ Managed(s) = Members(s.order)
      BY WmFields
    <3> HIDE DEF mains
    <3>3. Highest(s, mains) \in Managed(s)
      BY <2>2, <3>1, <3>2, HighestFact
    <3>4. Moved(s, Restack(s, c, Highest(s, mains)), {c})
      BY <3>3, RestackMoved
    <3> QED
      BY <1>1, <2>2, <3>4, MovedMore
  <2> QED
    BY <2>1, <2>2
<1> HIDE DEF moved
<1>3. Steady(s, moved) /\ WmOK(moved) /\ Managed(moved) = Managed(s)
  BY <1>2, MovedSteady, MovedOK
<1>4. Steady(moved, t)
  <2>1. /\ moved \in WmState /\ moved.mapped \subseteq Managed(moved) /\ moved.docked \subseteq Clients
        /\ moved.mapped \subseteq Clients
    BY <1>3, WmFields DEF WmOK
  <2>2. t \in WmState
    BY <1>1, <2>1 DEF WmState
  <2>3. /\ t.order = moved.order /\ t.top = moved.top /\ t.desktop = moved.desktop
        /\ t.raised = moved.raised
        /\ t.trans = moved.trans /\ t.newForDesktop = moved.newForDesktop /\ t.quiet = moved.quiet
        /\ t.mapped = moved.mapped \union {c}
    BY <2>1 DEF WmState
  <2> HIDE DEF t
  <2>4. t.mapped \subseteq Managed(moved)
    BY <1>3, <2>1, <2>3
  <2>5. \A d \in Clients : IsMain(d) => (d \in t.mapped <=> d \in moved.mapped)
    BY <1>1, <2>3
  <2> QED
    BY <1>3, <2>2, <2>3, <2>4, <2>5, EditSteady
<1> HIDE DEF t
<1> QED
  BY <1>0, <1>3, <1>4, KeptSame, SteadyTrans

LEMMA TypeFact ==
  ASSUME NEW c \in Clients
  PROVE  Type[c] \in {"app", "dialog", "desktop", "panel"}
BY WmAssumption

LEMMA ShowFact ==
  ASSUME NEW call \in Outcomes, NEW s, WmOK(s), NEW c \in Managed(s)
  PROVE  LET t == Show(call, s, c)
         IN Kept(s, t) /\ t.top = s.top /\ (DialogTrans(s) /\ ~IsMain(c) => Steady(s, t))
<1> DEFINE t == Show(call, s, c)
<1>0. Type[c] \in {"app", "dialog", "desktop", "panel"}
  BY WmFields, TypeFact
<1>1. CASE Type[c] = "app"
  <2>1. t = MainShow(call, s, c) /\ IsMain(c)
    BY <1>1 DEF Show, IsMain
  <2> HIDE DEF t
  <2>2. Kept(s, t) /\ t.top = s.top
    BY <1>1, <2>1, MainShowFact
  <2> QED
    BY <2>1, <2>2 DEF t
<1>2. CASE Type[c] = "dialog"
  <2>1. t = DialogShow(call, s, c) /\ IsDialog(c)
    BY <1>2 DEF Show, IsDialog
  <2> HIDE DEF t
  <2>2. ResultOK("show", s, t)
    BY <2>1, DialogShowFact
  <2> QED
    BY <2>2 DEF t, ResultOK
<1>3. CASE Type[c] = "desktop"
  <2>1. t = DesktopShow(s, c) /\ IsMain(c)
    BY <1>3 DEF Show, IsMain
  <2> HIDE DEF t
  <2>2. Kept(s, t) /\ t.top = s.top
    BY <1>3, <2>1, DesktopShowFact
  <2> QED
    BY <2>1, <2>2 DEF t
<1>4. CASE Type[c] = "panel"
  <2>1. t = PanelShow(s, c)
    BY <1>4 DEF Show
  <2> HIDE DEF t
  <2>2. Steady(s, t)
    BY <1>4, <2>1, PanelShowFact
  <2> QED
    BY <2>2 DEF t, Steady, SameMains
<1> QED
  BY <1>0, <1>1, <1>2, <1>3, <1>4

-----------------------------------------------------------------------------
(* Activating a client.                                                    *)

(* Another main client becomes the visible one, and all else of the main   *)
(* clients stays the same.                                                 *)
Switched(s, t, c) ==
  /\ Kept(s, t)
  /\ t.top = IF Type[c] = "app" THEN c ELSE s.top
  /\ t.raised = (Type[c] # "app")
  /\ t.newForDesktop = s.newForDesktop /\ t.quiet = s.quiet
  /\ \A d \in Clients : IsMain(d) => (d \in t.mapped <=> d \in s.mapped)
  /\ InOrder(s.order, t.order, NonMains)

LEMMA SwitchedFrom ==
  ASSUME NEW s, NEW t, Steady(s, t), NEW c, NEW r, Switched(t, r, c)
  PROVE  Switched(s, r, c)
<1>1. Kept(s, r)
  BY KeptTrans DEF Steady, Switched
<1>2. InOrder(s.order, r.order, NonMains)
  BY DEF Steady, Switched, InOrder, Kept, Managed
<1> QED
  BY <1>1, <1>2 DEF Steady, Switched, SameMains

LEMMA SwitchedOn ==
  ASSUME NEW s, NEW t, NEW c, Switched(s, t, c), NEW r, Steady(t, r)
  PROVE  Switched(s, r, c)
<1>1. Kept(s, r)
  BY KeptTrans DEF Steady, Switched
<1>2. InOrder(s.order, r.order, NonMains)
  BY DEF Steady, Switched, InOrder, Kept, Managed
<1> QED
  BY <1>1, <1>2 DEF Steady, Switched, SameMains

LEMMA MakeVisibleFact ==
  ASSUME NEW s, WmOK(s), NEW c \in Managed(s)
  PROVE  Switched(s, MakeVisible(s, c), c)
<1> DEFINE t == MakeVisible(s, c)
<1>1. s \in WmState /\ c \in Pointer
  BY WmFields DEF WmOK, Pointer
<1>2. t = IF Type[c] = "app" THEN [s EXCEPT !.raised = FALSE, !.top = c] ELSE [s EXCEPT !.raised = TRUE]
  BY DEF MakeVisible
<1> HIDE DEF t
<1>3. t \in WmState
  <2>1. CASE Type[c] = "app"
    BY <1>1, <1>2, <2>1 DEF WmState
  <2>2. CASE Type[c] # "app"
    BY <1>1, <1>2, <2>2 DEF WmState
  <2> QED
    BY <2>1, <2>2
<1>4. /\ t.order = s.order /\ t.desktop = s.desktop /\ t.trans = s.trans
      /\ t.newForDesktop = s.newForDesktop /\ t.quiet = s.quiet /\ t.mapped = s.mapped
      /\ t.top = IF Type[c] = "app" THEN c ELSE s.top
      /\ t.raised = (Type[c] # "app")
  <2>1. CASE Type[c] = "app"
    BY <1>1, <1>2, <2>1 DEF WmState
  <2>2. CASE Type[c] # "app"
    BY <1>1, <1>2, <2>2 DEF WmState
  <2> QED
    BY <2>1, <2>2
<1>5. Managed(t) = Managed(s)
  BY <1>4 DEF Managed
<1>6. WmOK(t)
  BY <1>3, <1>4, <1>5 DEF WmOK, Sound
<1>7. InOrder(s.order, t.order, NonMains)
  BY <1>4 DEF InOrder
<1> QED
  BY <1>4, <1>5, <1>6, <1>7 DEF Switched, Kept, t

LEMMA ActivateMainFact ==
  ASSUME NEW s, WmOK(s), NEW c \in Managed(s), IsMain(c)
  PROVE  Switched(s, ActivateMain(s, c), c)
<1> DEFINE s1 == IF s.top \in {None, c} THEN s ELSE MainHide(s, s.top)
           s2 == BringUp(s1, c)
           s3 == MakeVisible(s2, c)
           t == SetFocus(s3, FocusWith(s2, c))
           u == SetFocus(s3, FocusWith(s1, c))
<1>0. ActivateMain(s, c) = u
  BY DEF ActivateMain, Switch
<1>1. Steady(s, s1)
  <2>1. s.top # None => s.top \in Clients
    BY WmFields
  <2> QED
    BY <2>1, KeptSame, MainHideSteady
<1> HIDE DEF s1
<1>2. WmOK(s1) /\ Managed(s1) = Managed(s)
  BY <1>1 DEF Steady, Kept
<1>3. Moved(s1, s2, NonMains)
  BY <1>2, BringUpMoved
<1> HIDE DEF s2
<1>4. Steady(s1, s2) /\ WmOK(s2) /\ Managed(s2) = Managed(s)
  BY <1>2, <1>3, MovedSteady, MovedOK
<1>5. Switched(s2, s3, c)
  BY <1>4, MakeVisibleFact
<1> HIDE DEF s3
<1>6. WmOK(s3)
  BY <1>5 DEF Switched, Kept
<1>7. FocusWith(s1, c) \in Pointer
  <2>1. c \in Clients /\ c \in Pointer /\ s1.focus \in Pointer /\ s1.next[c] \in Pointer
    BY <1>2, WmFields DEF Pointer
  <2> QED
    BY <2>1 DEF FocusWith
<1>8. Steady(s3, u)
  <2> HIDE DEF FocusWith
  <2> QED
    BY <1>6, <1>7, SetFocusSteady
<1> HIDE DEF u
<1>9. Switched(s2, u, c)
  BY <1>5, <1>8, SwitchedOn
<1>10. Switched(s1, u, c)
  BY <1>4, <1>9, SwitchedFrom
<1> QED
  BY <1>0, <1>1, <1>10, SwitchedFrom

LEMMA ActivateDialogFact ==
  ASSUME NEW s, WmOK(s), NEW c \in Managed(s)
  PROVE  Steady(s, ActivateDialog(s, c))
<1> DEFINE v == Visible(s)
           s1 == IF s.raised THEN StackDialogs(s, v)
                 ELSE IF v \in s.full THEN s ELSE PanelsAbove(s, v)
           t == SetFocus(s1, IF OfHidden(s, c) THEN None ELSE c)
<1>0. ActivateDialog(s, c) = t
  BY DEF ActivateDialog
<1>1. v \in Managed(s) \union {None} /\ (v # None => Type[v] # "panel")
  BY VisibleFact DEF IsMain
<1> HIDE DEF v
<1>2. Moved(s, s1, NonMains)
  BY <1>1, StackDialogsMoved, MovedSame, PanelsAboveMoved
<1> HIDE DEF s1
<1>3. Steady(s, s1) /\ WmOK(s1)
  BY <1>2, MovedSteady, MovedOK
<1>4. (IF OfHidden(s, c) THEN None ELSE c) \in Pointer
  BY WmFields DEF Pointer
<1>5. Steady(s1, t)
  BY <1>3, <1>4, SetFocusSteady
<1> QED
  BY <1>0, <1>3, <1>5, SteadyTrans

LEMMA AfterShowFact ==
  ASSUME NEW s, WmOK(s), NEW c \in Managed(s)
  PROVE  /\ IsMain(c) => Switched(s, AfterShow(s, c), c)
         /\ ~IsMain(c) => Steady(s, AfterShow(s, c))
<1>1. CASE IsMain(c)
  <2>1. AfterShow(s, c) = ActivateMain(s, c)
    BY <1>1 DEF AfterShow
  <2> QED
    BY <1>1, <2>1, ActivateMainFact
<1>2. CASE ~IsMain(c)
  <2>1. AfterShow(s, c) = IF IsDialog(c) THEN ActivateDialog(s, c) ELSE SetFocus(s, c)
    BY <1>2 DEF AfterShow
  <2>2. c \in Pointer
    BY WmFields DEF Pointer
  <2> QED
    BY <1>2, <2>1, <2>2, ActivateDialogFact, SetFocusSteady
<1> QED
  BY <1>1, <1>2

LEMMA ActivateFact ==
  ASSUME NEW call \in Outcomes, NEW s, WmOK(s), NEW c \in Managed(s) \union {None}
  PROVE  LET u == Activate(call, s, c)
         IN /\ Kept(s, u) /\ u.top \in {s.top, c}
            /\ DialogTrans(s) /\ (c # None => ~IsMain(c)) => Steady(s, u)
<1> DEFINE u == Activate(call, s, c)
           t == Show(call, s, c)
<1>1. CASE c = None \/ s.hung
  <2>1. u = s
    BY <1>1 DEF Activate
  <2> HIDE DEF u
  <2> QED
    BY <2>1, KeptSame DEF u
<1>2. CASE ~ (c = None \/ s.hung)
  <2>1. u = AfterShow(t, c) /\ c \in Managed(s)
    BY <1>2 DEF Activate
  <2>2. Kept(s, t) /\ t.top = s.top /\ (DialogTrans(s) /\ ~IsMain(c) => Steady(s, t))
    BY <2>1, ShowFact
  <2> HIDE DEF t, u
  <2>3. WmOK(t) /\ c \in Managed(t)
    BY <2>1, <2>2 DEF Kept
  <2>4. (IsMain(c) => Switched(t, u, c)) /\ (~IsMain(c) => Steady(t, u))
    BY <2>1, <2>3, AfterShowFact
  <2>5. Kept(t, u) /\ u.top \in {s.top, c}
    BY <2>2, <2>4 DEF Switched, Steady, SameMains
  <2>6. Kept(s, u)
    BY <2>2, <2>5, KeptTrans
  <2>7. DialogTrans(s) /\ ~IsMain(c) => Steady(s, u)
    BY <2>2, <2>4, SteadyTrans
  <2> QED
    BY <2>5, <2>6, <2>7, <1>2 DEF u
<1> QED
  BY <1>1, <1>2

(* The state after an app is activated, and after the desktop is. *)
AppActive(s, u, c) ==
  /\ Kept(s, u) /\ u.top = c /\ ~u.raised
  /\ u.newForDesktop = NewFor(s, c)
  /\ u.quiet \subseteq s.quiet /\ (c \in s.mapped => u.quiet = s.quiet)
  /\ \A d \in Clients : IsMain(d) => (d \in u.mapped <=> d \in s.mapped \/ d = c)
  /\ (c \in s.quiet \ s.mapped /\ Visible(s) # None) \/ Ahead(u, c)

DesktopActive(s, u, c) ==
  /\ Kept(s, u) /\ u.top = s.top /\ u.raised
  /\ u.newForDesktop = s.newForDesktop /\ u.quiet = s.quiet
  /\ \A d \in Clients : IsMain(d) => (d \in u.mapped <=> d \in s.mapped \/ d = c)
  /\ Ahead(u, c)

LEMMA AheadSwitched ==
  ASSUME NEW s, WmOK(s), NEW c \in Managed(s), IsMain(c), Ahead(s, c), NEW t, Switched(s, t, c)
  PROVE  Ahead(t, c)
BY AheadKept DEF Switched, Kept

LEMMA ActivateApp ==
  ASSUME NEW call \in Outcomes, NEW s, WmOK(s), ~s.hung, DialogTrans(s),
         NEW c \in Managed(s), Type[c] = "app"
  PROVE  AppActive(s, Activate(call, s, c), c)
<1> DEFINE t == MainShow(call, s, c)
           u == AfterShow(t, c)
<1>1. Activate(call, s, c) = u /\ IsMain(c)
  <2>1. c # None /\ Show(call, s, c) = t
    BY WmFields DEF Show
  <2> QED
    BY <2>1 DEF Activate, IsMain
<1>2. Kept(s, t) /\ t.top = s.top /\ AppShown(s, t, c)
  BY MainShowFact
<1> HIDE DEF t
<1>3. WmOK(t) /\ c \in Managed(t)
  BY <1>2 DEF Kept
<1>4. Switched(t, u, c)
  BY <1>1, <1>3, AfterShowFact
<1> HIDE DEF u
<1>5. Kept(s, u)
  BY <1>2, <1>4, KeptTrans DEF Switched
<1>6. Ahead(t, c) => Ahead(u, c)
  BY <1>1, <1>3, <1>4, AheadSwitched
<1> QED
  BY <1>1, <1>2, <1>4, <1>5, <1>6 DEF AppActive, AppShown, Switched

LEMMA ActivateDesktop ==
  ASSUME NEW call, NEW s, WmOK(s), ~s.hung, NEW c \in Managed(s), Type[c] = "desktop"
  PROVE  DesktopActive(s, Activate(call, s, c), c)
<1> DEFINE t == DesktopShow(s, c)
           u == AfterShow(t, c)
<1>1. Activate(call, s, c) = u /\ IsMain(c)
  <2>1. c # None /\ Show(call, s, c) = t
    BY WmFields DEF Show
  <2> QED
    BY <2>1 DEF Activate, IsMain
<1>2. Kept(s, t) /\ t.top = s.top /\ DesktopShown(s, t, c)
  BY DesktopShowFact
<1> HIDE DEF t
<1>3. WmOK(t) /\ c \in Managed(t)
  BY <1>2 DEF Kept
<1>4. Switched(t, u, c)
  BY <1>1, <1>3, AfterShowFact
<1> HIDE DEF u
<1>5. Kept(s, u)
  BY <1>2, <1>4, KeptTrans DEF Switched
<1>6. Ahead(u, c)
  BY <1>1, <1>2, <1>3, <1>4, AheadSwitched DEF DesktopShown
<1> QED
  BY <1>1, <1>2, <1>4, <1>5, <1>6 DEF DesktopActive, DesktopShown, Switched

(* The visible client is activated again. *)
LEMMA ActivateVisible ==
  ASSUME NEW call \in Outcomes, NEW s, WmOK(s), DialogTrans(s), VisibleMapped(s), Visible(s) # None
  PROVE  Settled(s, Activate(call, s, Visible(s)))
<1> DEFINE c == Visible(s)
           u == Activate(call, s, c)
<1>0. c \in Managed(s) /\ IsMain(c) /\ c \in s.mapped /\ c \in Clients /\ s.raised \in BOOLEAN
  BY VisibleFact, WmFields DEF VisibleMapped
<1>1. CASE s.hung
  <2>1. u = s
    BY <1>1 DEF Activate
  <2> HIDE DEF u
  <2> QED
    BY <2>1, KeptSame DEF u
<1>2. CASE ~ s.hung /\ ~ s.raised
  <2>1. c = s.top /\ Type[c] = "app"
    BY <1>0, <1>2, WmFields DEF Visible
  <2>2. AppActive(s, u, c)
    BY <1>0, <1>2, <2>1, ActivateApp
  <2>3. NewFor(s, c) = s.newForDesktop
    BY <1>2 DEF NewFor
  <2> HIDE DEF u, c
  <2>4. u.top = s.top /\ ~ u.raised /\ u.newForDesktop = s.newForDesktop /\ u.quiet = s.quiet /\ Kept(s, u)
    BY <1>0, <2>1, <2>2, <2>3 DEF AppActive
  <2>5. \A d \in Clients : IsMain(d) => (d \in u.mapped <=> d \in s.mapped)
    BY <1>0, <2>2 DEF AppActive
  <2>6. u.raised = s.raised
    BY <1>0, <1>2, <2>4, WmFields DEF Kept
  <2>7. OnTop(u, c) /\ Visible(u) = c
    <3>1. Ahead(u, c)
      BY <1>0, <2>2 DEF AppActive
    <3>2. WmOK(u)
      BY <2>4 DEF Kept
    <3> QED
      BY <2>1, <2>4, <3>1, <3>2, AheadFact DEF Visible
  <2> QED
    BY <2>4, <2>5, <2>6, <2>7 DEF Settled, SameMains, u, c
<1>3. CASE ~ s.hung /\ s.raised
  <2>1. c = s.desktop /\ Type[c] = "desktop"
    BY <1>0, <1>3, WmFields DEF Visible
  <2>2. DesktopActive(s, u, c)
    BY <1>0, <1>3, <2>1, ActivateDesktop
  <2> HIDE DEF u, c
  <2>4. u.top = s.top /\ u.raised /\ u.newForDesktop = s.newForDesktop /\ u.quiet = s.quiet /\ Kept(s, u)
    BY <2>2 DEF DesktopActive
  <2>5. \A d \in Clients : IsMain(d) => (d \in u.mapped <=> d \in s.mapped)
    BY <1>0, <2>2 DEF DesktopActive
  <2>6. u.raised = s.raised
    BY <1>0, <1>3, <2>4, WmFields DEF Kept
  <2>7. OnTop(u, c) /\ Visible(u) = c
    <3>1. Ahead(u, c)
      BY <2>2 DEF DesktopActive
    <3>2. WmOK(u) /\ u.desktop = c
      BY <2>1, <2>4 DEF Kept
    <3> QED
      BY <2>4, <3>1, <3>2, AheadFact DEF Visible
  <2> QED
    BY <2>4, <2>5, <2>6, <2>7 DEF Settled, SameMains, u, c
<1> QED
  BY <1>0, <1>1, <1>2, <1>3

-----------------------------------------------------------------------------
(* Taking a client away.                                                   *)

LEMMA GetBelowFact ==
  ASSUME NEW s, WmOK(s), NEW c \in Managed(s)
  PROVE  LET apps == Mapped(s, {"app"}) \ {c}
             g == GetBelow(s, c)
         IN /\ g = c => apps = {}
            /\ g # c => g \in apps
            /\ g # c /\ (\A d \in apps : Place(s.order, d) <= Place(s.order, c)) =>
                 \A d \in apps : Place(s.order, d) <= Place(s.order, g)
<1> DEFINE apps == Mapped(s, {"app"}) \ {c}
           lower == {d \in apps : Place(s.order, d) < Place(s.order, c)}
           g == GetBelow(s, c)
<1>0. /\ IsStack(s.order) /\ Managed(s) = Members(s.order)
      /\ apps \in SUBSET Managed(s) /\ lower \in SUBSET Managed(s) /\ c \notin apps
  BY WmFields DEF Mapped
<1>1. g = IF lower # {} THEN Highest(s, lower) ELSE IF apps # {} THEN Highest(s, apps) ELSE c
  BY DEF GetBelow
<1> HIDE DEF g
<1>2. lower \subseteq apps
  OBVIOUS
<1>3. ASSUME \A d \in apps : Place(s.order, d) <= Place(s.order, c)
      PROVE  lower = apps
  <2>1. ASSUME NEW d \in apps PROVE Place(s.order, d) < Place(s.order, c)
    <3>1. d \in Members(s.order) /\ c \in Members(s.order) /\ d # c
      BY <1>0
    <3>2. /\ Place(s.order, d) \in 1 .. Len(s.order) /\ s.order[Place(s.order, d)] = d
          /\ Place(s.order, c) \in 1 .. Len(s.order) /\ s.order[Place(s.order, c)] = c
          /\ Len(s.order) \in Nat
      BY <1>0, <3>1, StackMembers
    <3> QED
      BY <1>3, <3>1, <3>2
  <2> QED
    BY <2>1
<1> HIDE DEF apps, lower
<1>4. lower # {} => Highest(s, lower) \in lower /\ \A d \in lower : Place(s.order, d) <= Place(s.order, Highest(s, lower))
  BY <1>0, HighestFact
<1>5. apps # {} => Highest(s, apps) \in apps
  BY <1>0, HighestFact
<1>6. g = c => apps = {}
  BY <1>0, <1>1, <1>2, <1>4, <1>5
<1>7. g # c => g \in apps
  BY <1>0, <1>1, <1>2, <1>4, <1>5
<1>8. ASSUME g # c, \A d \in apps : Place(s.order, d) <= Place(s.order, c)
      PROVE  \A d \in apps : Place(s.order, d) <= Place(s.order, g)
  <2>1. lower = apps /\ lower # {}
    BY <1>3, <1>7, <1>8
  <2> QED
    BY <1>1, <1>4, <2>1
<1> QED
  BY <1>6, <1>7, <1>8 DEF apps, g

(* The state main_client_unmap activates the successor from *)
Unmapped(s, c) ==
  [s EXCEPT !.mapped = @ \ {c}, !.focus = IF @ = c THEN None ELSE @, !.top = NewTop(s, c)]

LEMMA UnmappedFact ==
  ASSUME NEW s, WmOK(s), NEW c \in Managed(s), Type[c] = "app"
  PROVE  LET t == Unmapped(s, c)
         IN /\ Kept(s, t) /\ t.top = NewTop(s, c) /\ t.top # c /\ t.raised = s.raised
            /\ t.newForDesktop = s.newForDesktop /\ t.quiet = s.quiet
            /\ t.mapped = s.mapped \ {c} /\ t.order = s.order /\ t.hung = s.hung
            /\ Successor(s, c) \in Managed(s) \union {None} /\ Successor(s, c) # c
<1> DEFINE t == Unmapped(s, c)
           g == GetBelow(s, c)
           n == NewTop(s, c)
<1>0. /\ s \in WmState /\ s.mapped \subseteq Managed(s) /\ Managed(s) \subseteq Clients
      /\ s.focus \in Pointer /\ None \in Pointer /\ None \notin Managed(s)
  BY WmFields DEF WmOK, Pointer
<1>1. g # c => g \in Managed(s) /\ Type[g] = "app"
  BY GetBelowFact DEF Mapped
<1>2. n # c /\ (n # None => n \in Managed(s) /\ Type[n] = "app") /\ n \in Pointer
  <2>1. n = s.top \/ n = g \/ n = None
    BY DEF NewTop
  <2>2. n # c
    BY <1>0 DEF NewTop
  <2> HIDE DEF n, g
  <2> QED
    BY <1>0, <1>1, <2>1, <2>2, WmFields DEF Pointer
<1> HIDE DEF n
<1>3. t = [s EXCEPT !.mapped = @ \ {c}, !.focus = IF @ = c THEN None ELSE @, !.top = n]
  BY DEF Unmapped, n
<1> HIDE DEF t
<1>4. t \in WmState
  BY <1>0, <1>2, <1>3 DEF WmState
<1>5. /\ t.order = s.order /\ t.desktop = s.desktop /\ t.trans = s.trans /\ t.raised = s.raised
      /\ t.newForDesktop = s.newForDesktop /\ t.quiet = s.quiet /\ t.mapped = s.mapped \ {c}
      /\ t.top = n /\ t.hung = s.hung
  BY <1>0, <1>3 DEF WmState
<1>6. Managed(t) = Managed(s)
  BY <1>5 DEF Managed
<1>7. WmOK(t)
  BY <1>0, <1>2, <1>4, <1>5, <1>6 DEF WmOK, Sound
<1>8. Kept(s, t)
  BY <1>5, <1>6, <1>7 DEF Kept
<1>9. Successor(s, c) \in Managed(s) \union {None} /\ Successor(s, c) # c
  <2>1. \/ Successor(s, c) = None
        \/ Successor(s, c) = s.desktop
        \/ Successor(s, c) = g /\ g # c
    BY DEF Successor, ToDesktop
  <2>2. s.desktop \in Managed(s) \union {None} /\ s.desktop # c
    BY <1>0, WmFields
  <2> HIDE DEF g
  <2> QED
    BY <1>0, <1>1, <2>1, <2>2
<1> QED
  BY <1>2, <1>5, <1>8, <1>9 DEF t, n

LEMMA MainUnmapFact ==
  ASSUME NEW call \in Outcomes, NEW s, WmOK(s), NEW c \in Managed(s), Type[c] = "app"
  PROVE  LET t == MainUnmap(call, s, c)
         IN /\ Kept(s, t) /\ t.top # c
            /\ t = Activate(call, Unmapped(s, c), Successor(s, c))
<1> DEFINE s1 == Unmapped(s, c)
           d == Successor(s, c)
           t == MainUnmap(call, s, c)
<1>1. t = Activate(call, s1, d)
  BY DEF MainUnmap, Unmapped
<1>2. Kept(s, s1) /\ s1.top # c /\ d \in Managed(s) \union {None} /\ d # c
  BY UnmappedFact
<1> HIDE DEF t, s1, d
<1>3. WmOK(s1) /\ d \in Managed(s1) \union {None}
  BY <1>2 DEF Kept
<1>4. Kept(s1, t) /\ t.top \in {s1.top, d}
  BY <1>1, <1>3, ActivateFact
<1>5. Kept(s, t)
  BY <1>2, <1>4, KeptTrans
<1> QED
  BY <1>1, <1>2, <1>4, <1>5 DEF t, s1, d

LEMMA PassFocusSteady ==
  ASSUME NEW s, WmOK(s), NEW c \in Clients
  PROVE  Steady(s, PassFocus(s, c))
<1> DEFINE s1 == [s EXCEPT !.focus = None]
           d == IF s.next[c] = c THEN None ELSE s.next[c]
<1>1. PassFocus(s, c) = IF s.focus # c THEN s ELSE SetFocus(s1, d)
  BY DEF PassFocus
<1>2. s \in WmState /\ None \in Pointer /\ d \in Pointer
  BY WmFields DEF WmOK, Pointer
<1>3. s1 \in WmState
  BY <1>2 DEF WmState
<1>4. /\ s1.order = s.order /\ s1.top = s.top /\ s1.desktop = s.desktop /\ s1.raised = s.raised
      /\ s1.trans = s.trans /\ s1.newForDesktop = s.newForDesktop /\ s1.quiet = s.quiet
      /\ s1.mapped = s.mapped
  BY <1>2 DEF WmState
<1> HIDE DEF s1, d
<1>5. Steady(s, s1)
  BY <1>3, <1>4, EditSteady, WmFields
<1>6. WmOK(s1)
  BY <1>5 DEF Steady, Kept
<1>7. Steady(s1, SetFocus(s1, d))
  BY <1>2, <1>6, SetFocusSteady
<1> QED
  BY <1>1, <1>5, <1>7, SteadyTrans, KeptSame

LEMMA FocusCandidateFact ==
  ASSUME NEW s, WmOK(s), NEW c
  PROVE  \/ FocusCandidate(s, c) = None
         \/ FocusCandidate(s, c) = Visible(s) /\ Visible(s) # None
         \/ /\ FocusCandidate(s, c) \in Managed(s) \ {c} /\ ~IsMain(FocusCandidate(s, c))
<1> DEFINE modal == (Managed(s) \intersect Modal) \ {c}
<1>1. FocusCandidate(s, c) = IF s.focus # c \/ s.next[c] \notin {None, c} THEN None
                             ELSE IF modal # {} THEN Highest(s, modal) ELSE Visible(s)
  BY DEF FocusCandidate
<1>2. IsStack(s.order) /\ Managed(s) = Members(s.order) /\ modal \in SUBSET Managed(s)
  BY WmFields
<1>3. \A m \in modal : m \in Managed(s) \ {c} /\ ~IsMain(m)
  BY WmAssumption DEF IsMain
<1> HIDE DEF modal
<1>4. modal # {} => Highest(s, modal) \in modal
  BY <1>2, HighestFact
<1> QED
  BY <1>1, <1>3, <1>4

LEMMA CandidateManaged ==
  ASSUME NEW s, WmOK(s), NEW c
  PROVE  FocusCandidate(s, c) \in Managed(s) \union {None}
BY FocusCandidateFact, VisibleFact

LEMMA FocusNextFact ==
  ASSUME NEW call \in Outcomes, NEW s, WmOK(s), NEW c \in Clients
  PROVE  ResultOK("iconize", s, FocusNext(call, s, c))
<1> DEFINE s1 == PassFocus(s, c)
           d == FocusCandidate(s, c)
           u == Activate(call, s1, d)
<1>0. FocusNext(call, s, c) = u
  BY DEF FocusNext
<1>1. Steady(s, s1)
  BY PassFocusSteady
<1>2. /\ d = None \/ (d = Visible(s) /\ Visible(s) # None) \/ (d \in Managed(s) /\ ~IsMain(d))
      /\ d \in Managed(s) \union {None}
  BY FocusCandidateFact, CandidateManaged
<1> HIDE DEF s1, d
<1>3. WmOK(s1) /\ Managed(s1) = Managed(s) /\ Visible(s1) = Visible(s)
  BY <1>1 DEF Steady, Kept, SameMains, Visible
<1>4. Kept(s1, u) /\ (DialogTrans(s1) /\ (d # None => ~IsMain(d)) => Steady(s1, u))
  BY <1>2, <1>3, ActivateFact
<1>5. ASSUME DialogTrans(s1), VisibleMapped(s1) PROVE Settled(s1, u)
  <2>1. CASE d = None \/ ~IsMain(d)
    <3>1. Steady(s1, u)
      BY <1>4, <1>5, <2>1
    <3> QED
      BY <1>3, <3>1, SteadySettled
  <2>2. CASE d = Visible(s1) /\ Visible(s1) # None
    BY <1>3, <1>5, <2>2, ActivateVisible
  <2> QED
    BY <1>2, <1>3, <2>1, <2>2
<1>6. ResultOK("iconize", s1, u)
  BY <1>4, <1>5 DEF ResultOK
<1> QED
  BY <1>0, <1>1, <1>6, SteadyResult, ResultTrans

LEMMA DialogIconizeFact ==
  ASSUME NEW call \in Outcomes, NEW s, WmOK(s), NEW c \in Managed(s), IsDialog(c)
  PROVE  ResultOK("iconize", s, DialogIconize(call, s, c))
<1> DEFINE gone == [s EXCEPT !.minimized = @ \union {c}, !.mapped = @ \ {c},
                             !.modals = IF c \in Modal THEN @ - 1 ELSE @]
           s2 == EachTransient(call, gone, c, "iconize")
           u == FocusNext(call, s2, c)
<1>0. DialogIconize(call, s, c) = u /\ c \in Clients /\ ~IsMain(c)
  BY WmFields DEF DialogIconize, IsDialog, IsMain
<1>1. /\ s \in WmState /\ s.mapped \subseteq Managed(s) /\ s.mapped \subseteq Clients
      /\ s.minimized \subseteq Clients /\ s.modals \in Int
  BY WmFields DEF WmOK
<1>2. gone \in WmState
  <2> DEFINE m == IF c \in Modal THEN s.modals - 1 ELSE s.modals
             M == s.minimized \union {c}
             P == s.mapped \ {c}
  <2>1. m \in Int /\ M \in SUBSET Clients /\ P \in SUBSET Clients
    BY <1>0, <1>1
  <2>2. gone = [s EXCEPT !.minimized = M, !.mapped = P, !.modals = m]
    BY <1>1 DEF WmState
  <2> HIDE DEF gone, m, M, P
  <2> QED
    BY <1>1, <2>1, <2>2 DEF WmState
<1>3. /\ gone.order = s.order /\ gone.top = s.top /\ gone.desktop = s.desktop /\ gone.raised = s.raised
      /\ gone.trans = s.trans /\ gone.newForDesktop = s.newForDesktop /\ gone.quiet = s.quiet
      /\ gone.mapped = s.mapped \ {c}
  BY <1>1 DEF WmState
<1> HIDE DEF gone
<1>4. Steady(s, gone)
  <2>1. gone.mapped \subseteq Managed(s)
    BY <1>1, <1>3
  <2>2. \A d \in Clients : IsMain(d) => (d \in gone.mapped <=> d \in s.mapped)
    BY <1>0, <1>3
  <2> QED
    BY <1>2, <1>3, <2>1, <2>2, EditSteady
<1>5. WmOK(gone)
  BY <1>4 DEF Steady, Kept
<1>6. ResultOK("iconize", gone, s2)
  BY <1>0, <1>5, EachTransientFact
<1> HIDE DEF s2
<1>7. WmOK(s2)
  BY <1>6 DEF ResultOK, Kept
<1>8. ResultOK("iconize", s2, u)
  BY <1>0, <1>7, FocusNextFact
<1> HIDE DEF u
<1>9. ResultOK("iconize", gone, u)
  BY <1>5, <1>6, <1>8, ResultTrans
<1>10. ResultOK("iconize", s, gone)
  BY <1>4, SteadyResult
<1> QED
  BY <1>0, <1>9, <1>10, ResultTrans

(* The state of an app after its dialogs are minimised *)
WithDialogsGone(call, s, c) ==
  EachTransient(call, [s EXCEPT !.minimized = @ \union {c}], c, "iconize")

LEMMA DialogsGone ==
  ASSUME NEW call \in Outcomes, NEW s, WmOK(s), NEW c \in Clients
  PROVE  ResultOK("iconize", s, WithDialogsGone(call, s, c))
<1> DEFINE t == [s EXCEPT !.minimized = @ \union {c}]
<1>0. s \in WmState /\ s.minimized \subseteq Clients
  BY WmFields DEF WmOK
<1>1. t \in WmState
  BY <1>0 DEF WmState
<1>2. /\ t.order = s.order /\ t.top = s.top /\ t.desktop = s.desktop /\ t.raised = s.raised
      /\ t.trans = s.trans /\ t.newForDesktop = s.newForDesktop /\ t.quiet = s.quiet
      /\ t.mapped = s.mapped
  BY <1>0 DEF WmState
<1>3. WithDialogsGone(call, s, c) = EachTransient(call, t, c, "iconize")
  BY DEF WithDialogsGone
<1> HIDE DEF t
<1>4. Steady(s, t)
  BY <1>1, <1>2, EditSteady, WmFields
<1>5. WmOK(t)
  BY <1>4 DEF Steady, Kept
<1>6. ResultOK("iconize", t, EachTransient(call, t, c, "iconize"))
  BY <1>5, EachTransientFact
<1>7. ResultOK("iconize", s, t)
  BY <1>4, SteadyResult
<1> QED
  BY <1>3, <1>6, <1>7, ResultTrans

LEMMA IconizeFact ==
  ASSUME NEW call \in Outcomes, NEW s, WmOK(s), NEW c \in Managed(s)
  PROVE  LET t == Iconize(call, s, c)
         IN Kept(s, t) /\ (Type[c] # "app" => ResultOK("iconize", s, t))
<1> DEFINE t == Iconize(call, s, c)
<1>0. Type[c] \in {"app", "dialog", "desktop", "panel"} /\ c \in Clients
  BY WmFields, TypeFact
<1>1. CASE Type[c] = "app"
  <2> DEFINE s2 == WithDialogsGone(call, s, c)
             u == MainUnmap(call, s2, c)
  <2>1. t = IF s2.hung THEN s2 ELSE u
    BY <1>1 DEF Iconize, MainIconize, UnmapUnlessHung, WithDialogsGone
  <2>2. ResultOK("iconize", s, s2)
    BY <1>0, DialogsGone
  <2> HIDE DEF t, s2
  <2>3. Kept(s, s2)
    BY <2>2 DEF ResultOK
  <2>4. WmOK(s2) /\ c \in Managed(s2)
    BY <2>3 DEF Kept
  <2>5. Kept(s2, u)
    BY <1>1, <2>4, MainUnmapFact
  <2> HIDE DEF u
  <2>6. Kept(s, u)
    BY <2>3, <2>5, KeptTrans
  <2> QED
    BY <1>1, <2>1, <2>3, <2>6 DEF t
<1>2. CASE Type[c] = "dialog"
  <2>1. t = DialogIconize(call, s, c) /\ IsDialog(c)
    BY <1>2 DEF Iconize, IsDialog
  <2> HIDE DEF t
  <2>2. ResultOK("iconize", s, t)
    BY <2>1, DialogIconizeFact
  <2> QED
    BY <2>2 DEF t, ResultOK
<1>3. CASE Type[c] = "desktop"
  <2>1. t = MainHide(s, c)
    BY <1>3 DEF Iconize
  <2> HIDE DEF t
  <2>2. ResultOK("iconize", s, t)
    BY <1>0, <2>1, MainHideSteady, SteadyResult
  <2> QED
    BY <2>2 DEF t, ResultOK
<1>4. CASE Type[c] = "panel"
  <2> DEFINE r == [s EXCEPT !.docked = @ \ {c}]
  <2>1. t = r
    BY <1>4 DEF Iconize
  <2>2. s \in WmState /\ s.docked \subseteq Clients
    BY WmFields DEF WmOK
  <2>3. r \in WmState
    BY <2>2 DEF WmState
  <2>4. /\ r.order = s.order /\ r.top = s.top /\ r.desktop = s.desktop /\ r.raised = s.raised
        /\ r.trans = s.trans /\ r.newForDesktop = s.newForDesktop /\ r.quiet = s.quiet
        /\ r.mapped = s.mapped
    BY <2>2 DEF WmState
  <2> HIDE DEF t, r
  <2>5. Steady(s, r)
    BY <2>3, <2>4, EditSteady, WmFields
  <2>6. ResultOK("iconize", s, t)
    BY <2>1, <2>5, SteadyResult
  <2> QED
    BY <2>6 DEF t, ResultOK
<1> QED
  BY <1>0, <1>1, <1>2, <1>3, <1>4

-----------------------------------------------------------------------------
(* All the loops keep what one turn of them keeps.                         *)

(* The rest of a loop, from above the client whose turn it was *)
LEMMA NextCall ==
  ASSUME NEW x \in Calls, x.p # None, NEW t, WmOK(t), x.p \in Managed(t)
  PROVE  LET y == [x EXCEPT !.s = t, !.p = Above(t, x.p)]
         IN y \in Calls /\ y.s = t /\ y.method = x.method
<1> DEFINE a == Above(t, x.p)
           y == [x EXCEPT !.s = t, !.p = a]
<1>1. a \in Managed(t) \union {None} /\ a \in Pointer
  BY AboveFact
<1>2. t \in WmState /\ Sound(t)
  BY DEF WmOK
<1>3. x \in [method : {"show", "iconize"}, s : WmState, c : Clients, p : Pointer]
  BY DEF Calls
<1> HIDE DEF a
<1>4. /\ y \in [method : {"show", "iconize"}, s : WmState, c : Clients, p : Pointer]
      /\ y.s = t /\ y.method = x.method /\ y.p = a
  BY <1>1, <1>2, <1>3
<1> HIDE DEF y
<1>5. y \in Calls
  BY <1>1, <1>2, <1>4 DEF Calls
<1> QED
  BY <1>4, <1>5 DEF y, a

LEMMA TurnFact ==
  ASSUME NEW call \in Outcomes, NEW x \in Calls, x.p # None
  PROVE  ResultOK(x.method, x.s, Turn(call, x))
<1> DEFINE s == x.s
           p == x.p
           t == IF s.trans[p] # x.c THEN s
                ELSE IF x.method = "show" THEN Show(call, s, p) ELSE Iconize(call, s, p)
           y == [x EXCEPT !.s = t, !.p = Above(t, p)]
<1>1. /\ x \in [method : {"show", "iconize"}, s : WmState, c : Clients, p : Pointer]
      /\ WmOK(s) /\ p \in Managed(s)
  BY DEF Calls, WmOK
<1>2. Turn(call, x) = call[y]
  BY DEF Turn
<1>3. ResultOK(x.method, s, t)
  <2>1. CASE s.trans[p] # x.c
    BY <1>1, <2>1, KeptSame, SteadyResult
  <2>2. CASE s.trans[p] = x.c /\ x.method = "show"
    <3> DEFINE r == Show(call, s, p)
    <3>1. t = r
      BY <2>2
    <3>2. Kept(s, r) /\ r.top = s.top /\ (DialogTrans(s) /\ ~IsMain(p) => Steady(s, r))
      BY <1>1, ShowFact
    <3> HIDE DEF t, r
    <3>3. DialogTrans(s) => ~IsMain(p)
      <4>1. x.c # None /\ p \in Clients
        BY <1>1, StackAssumption, WmFields
      <4> QED
        BY <2>2, <4>1 DEF DialogTrans, IsDialog, IsMain
    <3>4. DialogTrans(s) => Steady(s, r) /\ Settled(s, r)
      BY <1>1, <3>2, <3>3, SteadySettled
    <3> QED
      BY <2>2, <3>1, <3>2, <3>4 DEF ResultOK
  <2>3. CASE s.trans[p] = x.c /\ x.method # "show"
    <3> DEFINE r == Iconize(call, s, p)
    <3>1. t = r /\ x.method = "iconize"
      BY <1>1, <2>3
    <3>2. Kept(s, r) /\ (Type[p] # "app" => ResultOK("iconize", s, r))
      BY <1>1, IconizeFact
    <3> HIDE DEF t, r
    <3>3. DialogTrans(s) => Type[p] # "app"
      <4>1. x.c # None /\ p \in Clients
        BY <1>1, StackAssumption, WmFields
      <4> QED
        BY <2>3, <4>1 DEF DialogTrans, IsDialog
    <3> QED
      BY <3>1, <3>2, <3>3 DEF ResultOK
  <2> QED
    BY <2>1, <2>2, <2>3
<1> HIDE DEF t
<1>4. WmOK(t) /\ p \in Managed(t)
  BY <1>1, <1>3 DEF ResultOK, Kept
<1>7. y \in Calls /\ y.s = t /\ y.method = x.method
  BY <1>4, NextCall
<1> HIDE DEF y
<1>8. ResultOK(x.method, t, call[y])
  BY <1>7 DEF Outcomes
<1> QED
  BY <1>1, <1>2, <1>3, <1>8, ResultTrans

(* The outcome of a call that finds fewer turns left *)
Begun(h) == [x \in Calls |-> IF x.p = None \/ x.s.hung THEN x.s ELSE Turn(h, x)]
Exhausted == [x \in Calls |-> IF x.p = None \/ x.s.hung THEN x.s ELSE [x.s EXCEPT !.hung = TRUE]]

LEMMA CallFact ==
  ASSUME NEW x \in Calls
  PROVE  /\ WmOK(x.s) /\ x.s \in WmState /\ x.method \in {"show", "iconize"}
         /\ ResultOK(x.method, x.s, x.s)
<1>1. WmOK(x.s) /\ x.s \in WmState /\ x.method \in {"show", "iconize"}
  BY DEF Calls, WmOK
<1> QED
  BY <1>1, KeptSame, SteadyResult

LEMMA OutcomeFact ==
  ASSUME NEW f, f = [x \in Calls |-> f[x]], \A x \in Calls : ResultOK(x.method, x.s, f[x])
  PROVE  f \in Outcomes
<1>1. \A x \in Calls : f[x] \in WmState
  BY DEF ResultOK, Kept, WmOK
<1>2. f \in [Calls -> WmState]
  BY <1>1
<1> QED
  BY <1>2 DEF Outcomes

LEMMA BegunFact ==
  ASSUME NEW h \in Outcomes
  PROVE  Begun(h) \in Outcomes
<1> DEFINE f == Begun(h)
<1>1. f = [x \in Calls |-> f[x]] /\ \A x \in Calls : f[x] = IF x.p = None \/ x.s.hung THEN x.s ELSE Turn(h, x)
  BY DEF Begun
<1> HIDE DEF f
<1>2. ASSUME NEW x \in Calls PROVE ResultOK(x.method, x.s, f[x])
  <2>1. f[x] = IF x.p = None \/ x.s.hung THEN x.s ELSE Turn(h, x)
    BY <1>1
  <2> QED
    BY <2>1, CallFact, TurnFact
<1> QED
  BY <1>1, <1>2, OutcomeFact DEF f

LEMMA ExhaustedFact == Exhausted \in Outcomes
<1> DEFINE f == Exhausted
<1>1. f = [x \in Calls |-> f[x]] /\ \A x \in Calls : f[x] = IF x.p = None \/ x.s.hung THEN x.s ELSE [x.s EXCEPT !.hung = TRUE]
  BY DEF Exhausted
<1> HIDE DEF f
<1>2. ASSUME NEW x \in Calls PROVE ResultOK(x.method, x.s, f[x])
  <2> DEFINE s == x.s
             t == [s EXCEPT !.hung = TRUE]
  <2>1. f[x] = s \/ f[x] = t
    BY <1>1
  <2>2. WmOK(s) /\ s \in WmState
    BY CallFact
  <2> HIDE DEF s
  <2>3. t \in WmState
    BY <2>2 DEF WmState
  <2>4. /\ t.order = s.order /\ t.top = s.top /\ t.desktop = s.desktop /\ t.raised = s.raised
        /\ t.trans = s.trans /\ t.newForDesktop = s.newForDesktop /\ t.quiet = s.quiet
        /\ t.mapped = s.mapped
    BY <2>2 DEF WmState
  <2> HIDE DEF t
  <2>5. Steady(s, t)
    BY <2>2, <2>3, <2>4, EditSteady, WmFields
  <2> QED
    BY <2>1, <2>2, <2>5, SteadyResult, KeptSame DEF s
<1> QED
  BY <1>1, <1>2, OutcomeFact DEF f

(* All the loops together, from what is fixed by their recursion *)
LoopsFrom(g) ==
  [n \in 0 .. MaxCalls |->
     [x \in Calls |->
        IF x.p = None \/ x.s.hung THEN x.s
        ELSE IF n = 0 THEN [x.s EXCEPT !.hung = TRUE]
        ELSE Turn(g[n - 1], x)]]

LEMMA LoopsFromFact ==
  ASSUME NEW g, NEW n \in 0 .. MaxCalls
  PROVE  LoopsFrom(g)[n] = IF n = 0 THEN Exhausted ELSE Begun(g[n - 1])
BY DEF LoopsFrom, Exhausted, Begun

(* What a loop with no turns left does, and a turn before a loop, all loops do. *)
LEMMA LoopInduction ==
  ASSUME NEW T, Exhausted \in T, \A h \in T : Begun(h) \in T
  PROVE  Loop \in T
<1> DEFINE L == MaxCalls
<1>0. L \in Nat
  BY WmAssumption
<1>1. Loops = CHOOSE g : g = LoopsFrom(g)
  BY DEF Loops, LoopsFrom
<1>2. PICK g \in [0 .. L -> T] : g[0] = Exhausted /\ \A n \in 1 .. L : g[n] = Begun(g[n - 1])
  <2> DEFINE h == [n \in 1 .. L |-> [x \in T |-> Begun(x)]]
             b == Exhausted
  <2>1. h \in Steps(L, T) /\ b \in T
    BY DEF Steps
  <2>2. \A x \in T : \A n \in 1 .. L : h[n][x] = Begun(x)
    OBVIOUS
  <2> HIDE DEF h, b
  <2>3. PICK g \in [0 .. L -> T] : g[0] = b /\ \A n \in 1 .. L : g[n] = h[n][g[n - 1]]
    <3>1. Recurs(L, T, b, h)
      BY <1>0, <2>1, RecursionFact
    <3> QED
      BY <3>1 DEF Recurs
  <2>4. ASSUME NEW n \in 1 .. L PROVE g[n] = Begun(g[n - 1])
    <3>1. n - 1 \in 0 .. L
      BY <1>0
    <3>2. g[n - 1] \in T
      BY <2>3, <3>1
    <3> QED
      BY <2>2, <2>3, <3>2
  <2> QED
    BY <2>3, <2>4 DEF b
<1>3. g = LoopsFrom(g)
  <2> DEFINE r == LoopsFrom(g)
  <2>1. \A n \in 0 .. L : n # 0 => n \in 1 .. L
    BY <1>0
  <2>2. ASSUME NEW n \in 0 .. L PROVE r[n] = g[n]
    BY <1>2, <2>1, LoopsFromFact
  <2>3. r = [n \in 0 .. L |-> r[n]]
    BY DEF LoopsFrom
  <2> HIDE DEF r
  <2>4. g = [n \in 0 .. L |-> g[n]]
    BY <1>2
  <2>5. r = g
    BY <2>2, <2>3, <2>4
  <2> QED
    BY <2>5 DEF r
<1> DEFINE p == Loops
<1>4. p = LoopsFrom(p)
  BY <1>1, <1>3
<1> HIDE DEF p
<1>5. \A n \in 0 .. L : p[n] = IF n = 0 THEN Exhausted ELSE Begun(p[n - 1])
  BY <1>4, LoopsFromFact
<1>6. \A n \in 0 .. L : p[n] \in T
  <2> DEFINE D == {n \in 0 .. L : p[n] \in T}
  <2>1. 0 \in D
    <3>1. 0 \in 0 .. L
      BY <1>0
    <3> QED
      BY <1>5, <3>1
  <2>2. ASSUME NEW n \in 0 .. L, n \in D, n < L PROVE n + 1 \in D
    <3>1. n + 1 \in 0 .. L /\ n + 1 # 0 /\ n + 1 - 1 = n
      BY <1>0, <2>2
    <3>2. p[n] \in T
      BY <2>2
    <3>3. p[n + 1] = Begun(p[n])
      BY <1>5, <3>1
    <3> QED
      BY <3>1, <3>2, <3>3
  <2> HIDE DEF D
  <2>3. 0 .. L \subseteq D
    BY <1>0, <2>1, <2>2, StepsFact
  <2> QED
    BY <2>3 DEF D
<1>7. L \in 0 .. L
  BY <1>0
<1> QED
  BY <1>6, <1>7 DEF Loop, p

LEMMA LoopFact == Loop \in Outcomes
BY BegunFact, ExhaustedFact, LoopInduction

-----------------------------------------------------------------------------
(* No clients are transient for each other in a circle.                    *)

Acyclic(tr) == \A S \in SUBSET Clients : S # {} => \E c \in S : tr[c] \notin S

LEMMA AcyclicSelf ==
  ASSUME NEW tr, Acyclic(tr), NEW c \in Clients
  PROVE  tr[c] # c
<1>1. {c} \in SUBSET Clients /\ {c} # {}
  OBVIOUS
<1>2. \E d \in {c} : tr[d] \notin {c}
  BY <1>1 DEF Acyclic
<1> QED
  BY <1>2

(* The clients that were transient for c are so for what c was. *)
LEMMA AcyclicPast ==
  ASSUME NEW tr, Acyclic(tr), NEW c \in Clients, NEW r,
         \A p \in Clients : r[p] = IF p = c THEN None ELSE IF tr[p] = c THEN tr[c] ELSE tr[p]
  PROVE  Acyclic(r)
<1> SUFFICES ASSUME NEW S \in SUBSET Clients, S # {}, \A p \in S : r[p] \in S
             PROVE  FALSE
  BY DEF Acyclic
<1>1. c \notin S
  BY StackAssumption
<1>2. CASE \E p \in S : tr[p] = c
  <2> DEFINE T == S \union {c}
  <2>1. T \in SUBSET Clients /\ T # {}
    OBVIOUS
  <2>2. tr[c] \in S
    BY <1>1, <1>2
  <2>3. \A p \in T : tr[p] \in T
    BY <1>1, <2>2
  <2> QED
    BY <2>1, <2>3 DEF Acyclic
<1>3. CASE \A p \in S : tr[p] # c
  <2>1. \A p \in S : tr[p] \in S
    BY <1>1, <1>3
  <2> QED
    BY <2>1 DEF Acyclic
<1> QED
  BY <1>2, <1>3

(* Nothing is transient for a new client. *)
LEMMA AcyclicNew ==
  ASSUME NEW tr, Acyclic(tr), NEW c \in Clients, \A p \in Clients : tr[p] # c,
         NEW b, b # c, NEW r, r[c] = b, \A p \in Clients \ {c} : r[p] = tr[p]
  PROVE  Acyclic(r)
<1> SUFFICES ASSUME NEW S \in SUBSET Clients, S # {}, \A p \in S : r[p] \in S
             PROVE  FALSE
  BY DEF Acyclic
<1> DEFINE T == S \ {c}
<1>1. T \in SUBSET Clients
  OBVIOUS
<1>2. T # {}
  <2>1. CASE c \in S
    <3>1. b \in S /\ b # c
      BY <2>1
    <3> QED
      BY <3>1
  <2>2. CASE c \notin S
    BY <2>2
  <2> QED
    BY <2>1, <2>2
<1>3. \A p \in T : tr[p] \in T
  OBVIOUS
<1> QED
  BY <1>1, <1>2, <1>3 DEF Acyclic

(* The line from b ends: it is too long to go on. *)
LEMMA LineEnds ==
  ASSUME NEW s, WmOK(s), Acyclic(s.trans), NEW b \in Clients
  PROVE  \A p \in Line(s, b, Clients) : s.trans[p] # None => s.trans[p] \in Line(s, b, Clients)
<1> DEFINE N == ClientCount
           f == Up(s, Clients)
           path == Path(f, b)
           L == Line(s, b, Clients)
<1>0. N \in Nat /\ IsFiniteSet(Clients) /\ s.trans \in [Clients -> Pointer]
  BY CountFact, WmAssumption, WmFields
<1>1. \A p \in Clients : f[p] \in Clients /\ f[p] = IF s.trans[p] # None THEN s.trans[p] ELSE p
  BY <1>0 DEF Up, Pointer
<1> HIDE DEF f
<1>2. PathOK(f, b, Clients, path)
  BY <1>1, PathFact
<1>3. L = {path[n] : n \in 0 .. N}
  BY DEF Line, f, ClientCount
<1> HIDE DEF path
<1>4. /\ path \in [0 .. N -> Clients] /\ path[0] = b
      /\ \A n \in 1 .. N : path[n] = f[path[n - 1]]
  BY <1>2 DEF PathOK
<1> HIDE DEF L, N
<1>5. \A n \in 0 .. N : n < N => path[n + 1] = f[path[n]]
  <2> SUFFICES ASSUME NEW n \in 0 .. N, n < N PROVE path[n + 1] = f[path[n]]
    OBVIOUS
  <2>1. n + 1 \in 1 .. N /\ n + 1 - 1 = n
    BY <1>0
  <2> QED
    BY <1>4, <2>1
(* Two places on the line are the same. *)
<1>6. PICK i, j \in 0 .. N : i < j /\ path[i] = path[j]
  <2>1. IsFiniteSet(0 .. N) /\ Cardinality(0 .. N) = N + 1
    BY <1>0, FS_Interval
  <2>2. Cardinality(Clients) < Cardinality(0 .. N)
    BY <1>0, <2>1 DEF N, ClientCount
  <2>3. \E x, y \in 0 .. N : x # y /\ path[x] = path[y]
    BY <1>0, <1>4, <2>1, <2>2, FS_PigeonHole
  <2>4. PICK x, y \in 0 .. N : x # y /\ path[x] = path[y]
    BY <2>3
  <2>5. x < y \/ y < x
    BY <1>0, <2>4
  <2> QED
    BY <2>4, <2>5
(* So the line has an end, and stays there. *)
<1>7. PICK k \in 0 .. N : s.trans[path[k]] = None
  <2> SUFFICES ASSUME \A k \in 0 .. N : s.trans[path[k]] # None PROVE FALSE
    OBVIOUS
  <2> DEFINE S == {path[k] : k \in i .. j - 1}
  <2>1. S \in SUBSET Clients /\ S # {}
    <3>1. i \in i .. j - 1 /\ \A k \in i .. j - 1 : k \in 0 .. N
      BY <1>0, <1>6
    <3> QED
      BY <1>4, <3>1
  <2>2. ASSUME NEW p \in S PROVE s.trans[p] \in S
    <3>1. PICK k \in i .. j - 1 : p = path[k]
      BY <2>2
    <3>2. k \in 0 .. N /\ k < N /\ (k + 1 \in i .. j - 1 \/ k + 1 = j) /\ i \in i .. j - 1
      BY <1>0, <1>6
    <3>3. s.trans[p] = path[k + 1]
      BY <1>1, <1>4, <1>5, <3>1, <3>2
    <3>4. CASE k + 1 \in i .. j - 1
      BY <3>3, <3>4
    <3>5. CASE k + 1 = j
      <4>1. s.trans[p] = path[i]
        BY <1>6, <3>3, <3>5
      <4> QED
        BY <3>2, <4>1
    <3> QED
      BY <3>2, <3>4, <3>5
  <2> HIDE DEF S
  <2> QED
    BY <2>1, <2>2 DEF Acyclic
<1>8. \A n \in 0 .. N : n >= k => path[n] = path[k]
  <2> DEFINE D == {n \in 0 .. N : n >= k => path[n] = path[k]}
  <2>1. 0 \in D
    <3>1. 0 \in 0 .. N /\ (0 >= k => 0 = k)
      BY <1>0
    <3> QED
      BY <3>1
  <2>2. ASSUME NEW n \in 0 .. N, n \in D, n < N PROVE n + 1 \in D
    <3>1. n + 1 \in 0 .. N /\ (n + 1 >= k => n + 1 = k \/ n >= k)
      BY <1>0, <2>2
    <3>2. ASSUME n >= k PROVE path[n + 1] = path[k]
      <4>1. path[n] = path[k]
        BY <2>2, <3>2
      <4>2. path[n + 1] = f[path[k]]
        BY <1>5, <2>2, <4>1
      <4> QED
        BY <1>1, <1>4, <1>7, <4>2
    <3> QED
      BY <3>1, <3>2
  <2> HIDE DEF D
  <2>3. 0 .. N \subseteq D
    BY <1>0, <2>1, <2>2, StepsFact
  <2> QED
    BY <2>3 DEF D
<1>9. ASSUME NEW p \in L, s.trans[p] # None PROVE s.trans[p] \in L
  <2>1. PICK n \in 0 .. N : p = path[n]
    BY <1>3
  <2>2. n < k
    <3>1. ASSUME n >= k PROVE FALSE
      <4>1. path[n] = path[k]
        BY <1>8, <3>1
      <4> QED
        BY <1>7, <1>9, <2>1, <4>1
    <3> QED
      BY <1>0, <3>1
  <2>3. n < N /\ n + 1 \in 0 .. N
    BY <1>0, <2>2
  <2>4. s.trans[p] = path[n + 1]
    BY <1>1, <1>4, <1>5, <1>9, <2>1, <2>3
  <2> QED
    BY <1>3, <2>3, <2>4
<1> QED
  BY <1>9 DEF L

(* A client becomes transient for one that does not lead to it. *)
LEMMA AcyclicChange ==
  ASSUME NEW s, WmOK(s), Acyclic(s.trans), NEW c \in Clients, NEW b \in Clients,
         c \notin Line(s, b, Clients),
         NEW r, r[c] = b, \A p \in Clients \ {c} : r[p] = s.trans[p]
  PROVE  Acyclic(r)
<1> SUFFICES ASSUME NEW S \in SUBSET Clients, S # {}, \A p \in S : r[p] \in S
             PROVE  FALSE
  BY DEF Acyclic
<1> DEFINE L == Line(s, b, Clients)
           T == S \intersect L
<1>1. b \in L
  <2> DEFINE f == Up(s, Clients)
  <2>1. s.trans \in [Clients -> Pointer]
    BY WmFields
  <2>2. \A p \in Clients : f[p] \in Clients
    BY <2>1 DEF Up, Pointer
  <2> HIDE DEF f
  <2>3. Path(f, b)[0] = b
    BY <2>2, PathFact DEF PathOK
  <2>4. 0 \in 0 .. Cardinality(Clients)
    BY CountFact DEF ClientCount
  <2> QED
    BY <2>3, <2>4 DEF Line, f
<1>2. \A p \in L : s.trans[p] # None => s.trans[p] \in L
  BY LineEnds
<1> HIDE DEF L
<1>3. CASE c \in S
  <2>1. b \in T
    BY <1>1, <1>3
  <2>2. ASSUME NEW p \in T PROVE s.trans[p] \in T
    <3>1. p # c
      BY DEF L
    <3>2. s.trans[p] \in S
      BY <3>1
    <3>3. s.trans[p] # None
      BY <3>2, StackAssumption
    <3> QED
      BY <1>2, <3>2, <3>3
  <2>3. T \in SUBSET Clients /\ T # {}
    BY <2>1
  <2> HIDE DEF T
  <2> QED
    BY <2>2, <2>3 DEF Acyclic
<1>4. CASE c \notin S
  <2>1. \A p \in S : s.trans[p] \in S
    BY <1>4
  <2> QED
    BY <2>1 DEF Acyclic
<1> QED
  BY <1>3, <1>4

-----------------------------------------------------------------------------
(* Clients that come and go.                                               *)

WmInv(s) == WmOK(s) /\ (~s.hung => Acyclic(s.trans))

(* base_client_destroy, with nothing else that points to the client *)
LEMMA ForgetFact ==
  ASSUME NEW s, s \in WmState, Sound(s), Acyclic(s.trans),
         NEW c \in Managed(s), s.top # c
  PROVE  LET t == Forget(s, c)
         IN /\ t \in WmState
            /\ Managed(t) = Managed(s) \ {c} /\ InOrder(s.order, t.order, {c}) /\ Distinct(t.order)
            /\ t.top = s.top /\ t.desktop = s.desktop /\ t.raised = s.raised /\ t.hung = s.hung
            /\ t.mapped = s.mapped \ {c} /\ t.newForDesktop = s.newForDesktop \ {c}
            /\ t.quiet = s.quiet \ {c}
            /\ \A p \in Clients : t.trans[p] \in Managed(t) \union {None}
            /\ DialogTrans(s) => DialogTrans(t)
            /\ Acyclic(t.trans)
            /\ s.desktop # c => WmInv(t)
<1> DEFINE t == Forget(s, c)
           stack == Without(s.order, c)
           focus == IF s.focus = c THEN None ELSE s.focus
           trans == [p \in Clients |-> IF p = c THEN None ELSE IF s.trans[p] = c THEN s.trans[c] ELSE s.trans[p]]
           next == [p \in Clients |-> IF p = c THEN None ELSE IF s.next[p] = c THEN s.next[c] ELSE s.next[p]]
<1>0. WmOK(s) /\ c \in Clients /\ None \in Pointer
  BY WmFields DEF WmOK, Pointer
<1>1. IsStack(stack) /\ Members(stack) = Members(s.order) \ {c} /\ InOrder(s.order, stack, {c})
  BY <1>0, WmFields, WithoutInOrder DEF Managed
<1>2. focus \in Pointer /\ trans \in [Clients -> Pointer] /\ next \in [Clients -> Pointer]
  <2>1. s.focus \in Pointer /\ s.trans \in [Clients -> Pointer] /\ s.next \in [Clients -> Pointer]
    BY <1>0, WmFields
  <2> QED
    BY <1>0, <2>1
<1>3. t = [s EXCEPT !.order = stack, !.focus = focus, !.trans = trans, !.next = next,
                    !.mapped = @ \ {c}, !.minimized = @ \ {c}, !.newForDesktop = @ \ {c},
                    !.quiet = @ \ {c}, !.above = @ \ {c}, !.full = @ \ {c}, !.docked = @ \ {c}]
  BY DEF Forget
<1>4. \A p \in Clients : trans[p] = IF p = c THEN None ELSE IF s.trans[p] = c THEN s.trans[c] ELSE s.trans[p]
  OBVIOUS
<1> HIDE DEF t, stack, focus, trans, next
<1>5. stack \in Seq(Clients) /\ Distinct(stack)
  BY <1>1 DEF IsStack
<1>6. t \in WmState
  <2> DEFINE mapped == s.mapped \ {c}
             minimized == s.minimized \ {c}
             newFor == s.newForDesktop \ {c}
             quiet == s.quiet \ {c}
             above == s.above \ {c}
             full == s.full \ {c}
             docked == s.docked \ {c}
  <2>1. /\ mapped \in SUBSET Clients /\ minimized \in SUBSET Clients /\ newFor \in SUBSET Clients
        /\ quiet \in SUBSET Clients /\ above \in SUBSET Clients /\ full \in SUBSET Clients
        /\ docked \in SUBSET Clients
    BY <1>0, WmFields
  <2>2. t = [s EXCEPT !.order = stack, !.focus = focus, !.trans = trans, !.next = next,
                      !.mapped = mapped, !.minimized = minimized, !.newForDesktop = newFor,
                      !.quiet = quiet, !.above = above, !.full = full, !.docked = docked]
    BY <1>3 DEF WmState
  <2> HIDE DEF mapped, minimized, newFor, quiet, above, full, docked
  <2> QED
    BY <1>2, <1>5, <2>1, <2>2 DEF WmState
<1>7. /\ t.order = stack /\ t.trans = trans /\ t.top = s.top /\ t.desktop = s.desktop
      /\ t.raised = s.raised /\ t.hung = s.hung
      /\ t.mapped = s.mapped \ {c} /\ t.newForDesktop = s.newForDesktop \ {c}
      /\ t.quiet = s.quiet \ {c}
  BY <1>3 DEF WmState
<1>8. Managed(t) = Managed(s) \ {c}
  BY <1>1, <1>7 DEF Managed
<1>9. \A p \in Clients : trans[p] \in Managed(t) \union {None}
  <2>1. s.trans[c] # c
    BY <1>0, AcyclicSelf
  <2>2. \A p \in Clients : s.trans[p] \in Managed(s) \union {None}
    BY <1>0, WmFields
  <2> QED
    BY <1>0, <1>4, <1>8, <2>1, <2>2
<1>10. Acyclic(trans)
  BY <1>0, <1>4, AcyclicPast
<1>11. DialogTrans(s) => DialogTrans(t)
  BY <1>0, <1>4, <1>7, StackAssumption DEF DialogTrans
<1>12. s.desktop # c => WmInv(t)
  BY <1>5, <1>6, <1>7, <1>8, <1>9, <1>10 DEF Sound, WmInv, WmOK
<1> QED
  BY <1>1, <1>5, <1>6, <1>7, <1>8, <1>9, <1>10, <1>11, <1>12 DEF t

LEMMA NewClientFact ==
  ASSUME NEW s, WmInv(s), ~s.hung, NEW c \in Clients \ Managed(s), NEW hint
  PROVE  LET t == NewClient(s, c, hint)
         IN /\ WmOK(t) /\ Managed(t) = Managed(s) \union {c} /\ InOrder(s.order, t.order, {})
            /\ t.top = s.top /\ t.raised = s.raised /\ t.hung = s.hung
            /\ t.desktop = (IF Type[c] = "desktop" THEN c ELSE s.desktop)
            /\ t.mapped = s.mapped /\ t.newForDesktop = s.newForDesktop
            /\ t.quiet \subseteq s.quiet \union StartQuiet
            /\ DialogTrans(s) => DialogTrans(t)
            /\ t.trans[c] # c => Acyclic(t.trans)
<1> DEFINE t == NewClient(s, c, hint)
           stack == PutAbove(s.order, c, None)
           parent == IF hint = None \/ ~IsDialog(c) THEN None
                     ELSE IF hint \in Members(stack) THEN hint
                     ELSE IF Group[c] \in Members(stack) THEN Group[c]
                     ELSE None
           desktop == IF Type[c] = "desktop" THEN c ELSE s.desktop
           modals == IF c \in Modal THEN s.modals + 1 ELSE s.modals
           minimized == Add(s.minimized, c, c \in StartIconic /\ Type[c] # "panel")
           quiet == Add(s.quiet, c, c \in StartQuiet /\ Type[c] # "panel")
           above == Add(s.above, c, parent \in s.above)
<1>0. WmOK(s) /\ s \in WmState /\ c \in Pointer /\ c # None /\ Acyclic(s.trans)
  BY StackAssumption DEF WmOK, Pointer, WmInv
<1>1. IsStack(stack) /\ Members(stack) = Members(s.order) \union {c} /\ InOrder(s.order, stack, {})
  <2>1. c \in Clients \ Members(s.order)
    BY DEF Managed
  <2> QED
    BY <1>0, <2>1, WmFields, PutInOrder
<1> HIDE DEF stack
<1>2. /\ parent \in Members(stack) \union {None} /\ (parent # None => IsDialog(c))
      /\ Members(stack) \subseteq Clients
  BY <1>1, StackMembers
<1>3. t = [s EXCEPT !.order = stack, !.trans[c] = parent, !.desktop = desktop, !.modals = modals,
                    !.minimized = minimized, !.quiet = quiet, !.above = above]
  BY <1>0 DEF NewClient, stack, WmState
<1>4. /\ desktop \in Pointer /\ modals \in Int /\ minimized \in SUBSET Clients
      /\ quiet \in SUBSET Clients /\ above \in SUBSET Clients /\ parent \in Pointer
      /\ quiet \subseteq s.quiet \union StartQuiet
  <2>1. /\ s.desktop \in Pointer /\ s.modals \in Int /\ s.minimized \subseteq Clients
        /\ s.quiet \subseteq Clients /\ s.above \subseteq Clients
    BY <1>0, WmFields
  <2>2. desktop \in Pointer
    BY <1>0, <2>1
  <2>3. modals \in Int
    BY <2>1
  <2>4. minimized \in SUBSET Clients
    BY <2>1 DEF Add
  <2>5. quiet \in SUBSET Clients /\ quiet \subseteq s.quiet \union StartQuiet
    BY <2>1 DEF Add
  <2>6. above \in SUBSET Clients
    BY <2>1 DEF Add
  <2>7. parent \in Pointer
    BY <1>2 DEF Pointer
  <2> QED
    BY <2>2, <2>3, <2>4, <2>5, <2>6, <2>7
<1> HIDE DEF t, parent, modals, minimized, quiet, above, desktop
<1>5. stack \in Seq(Clients) /\ Distinct(stack)
  BY <1>1 DEF IsStack
<1>6. t \in WmState
  <2>1. s.trans \in [Clients -> Pointer]
    BY <1>0, WmFields
  <2> DEFINE tr == [s.trans EXCEPT ![c] = parent]
  <2>2. tr \in [Clients -> Pointer]
    BY <1>4, <2>1
  <2>3. t = [s EXCEPT !.order = stack, !.trans = tr, !.desktop = desktop, !.modals = modals,
                    !.minimized = minimized, !.quiet = quiet, !.above = above]
    BY <1>0, <1>3 DEF WmState
  <2> HIDE DEF tr
  <2> QED
    BY <1>0, <1>4, <1>5, <2>2, <2>3 DEF WmState
<1>7. /\ t.order = stack /\ t.top = s.top /\ t.raised = s.raised /\ t.hung = s.hung
      /\ t.desktop = desktop /\ t.mapped = s.mapped /\ t.newForDesktop = s.newForDesktop
      /\ t.quiet = quiet /\ t.trans = [s.trans EXCEPT ![c] = parent]
  BY <1>0, <1>3 DEF WmState
<1>8. /\ t.trans[c] = parent
      /\ \A p \in Clients \ {c} : t.trans[p] = s.trans[p]
  BY <1>0, <1>7, WmFields
<1>9. Managed(t) = Managed(s) \union {c}
  BY <1>1, <1>7 DEF Managed
<1>10. Sound(t)
  <2>1. \A p \in Clients : s.trans[p] \in Managed(s) \union {None}
    BY <1>0, WmFields
  <2>2. \A p \in Clients : t.trans[p] \in Managed(t) \union {None}
    <3>1. parent \in Managed(t) \union {None}
      BY <1>2, <1>7 DEF Managed
    <3> QED
      BY <1>8, <1>9, <2>1, <3>1
  <2>3. /\ s.mapped \subseteq Managed(s)
        /\ s.top # None => s.top \in Managed(s) /\ Type[s.top] = "app"
        /\ s.desktop # None => s.desktop \in Managed(s) /\ Type[s.desktop] = "desktop"
    BY <1>0, WmFields
  <2>4. desktop # None => desktop \in Managed(t) /\ Type[desktop] = "desktop"
    BY <1>9, <2>3 DEF desktop
  <2> QED
    BY <1>5, <1>7, <1>9, <2>2, <2>3, <2>4 DEF Sound
<1>11. DialogTrans(s) => DialogTrans(t)
  BY <1>2, <1>8 DEF DialogTrans
<1>12. t.trans[c] # c => Acyclic(t.trans)
  <2> SUFFICES ASSUME parent # c PROVE Acyclic(t.trans)
    BY <1>8
  <2>1. \A p \in Clients : s.trans[p] # c
    BY <1>0, WmFields
  <2> QED
    BY <1>0, <1>8, <2>1, AcyclicNew
<1> QED
  BY <1>1, <1>4, <1>6, <1>7, <1>9, <1>10, <1>11, <1>12 DEF WmOK, t, desktop

-----------------------------------------------------------------------------
(* What is in the foreground: the visible main client is mapped, there is  *)
(* one if there is any to show, and it is the highest, unless it was       *)
(* mapped to stay in the background.                                       *)

Base(s) ==
  /\ DialogTrans(s)
  /\ \A c \in Managed(s) : Type[c] = "desktop" => c = s.desktop
  /\ s.quiet \subseteq StartQuiet
  /\ \A c \in s.newForDesktop : Type[c] = "app"

Foreground(s) ==
  /\ s.top # None => s.top \in s.mapped
  /\ s.top = None => Mapped(s, {"app"}) = {}
  /\ s.raised => s.desktop # None /\ s.desktop \in s.mapped
  /\ ~s.raised /\ s.top = None => Mapped(s, {"app", "desktop"}) = {}
  /\ s.raised => OnTop(s, s.desktop)
  /\ ~s.raised /\ s.top # None =>
       \/ s.top \in StartQuiet /\ (s.desktop = None => s.top \notin s.newForDesktop)
       \/ OnTop(s, s.top)

Good(s) == Base(s) /\ Foreground(s)

LEMMA GoodVisible ==
  ASSUME NEW s, WmOK(s), Good(s)
  PROVE  VisibleMapped(s) /\ DialogTrans(s)
BY DEF Good, Base, Foreground, VisibleMapped, Visible

LEMMA SettledGood ==
  ASSUME NEW s, WmOK(s), Good(s), NEW t, Settled(s, t)
  PROVE  Good(t)
<1>1. Kept(s, t) /\ SameMains(s, t) /\ WmOK(t)
  BY DEF Settled, Kept
<1>2. Visible(t) = Visible(s)
  BY <1>1 DEF Visible, Kept, SameMains
<1>3. Base(t)
  BY <1>1 DEF Good, Base, Kept, SameMains, DialogTrans
<1>4. \A c \in Clients : IsMain(c) => (c \in t.mapped <=> c \in s.mapped)
  BY <1>1 DEF SameMains
<1>5. Managed(t) = Managed(s) /\ Managed(s) \subseteq Clients
  BY <1>1, WmFields DEF Kept
<1>6. Mapped(t, {"app"}) = Mapped(s, {"app"}) /\ Mapped(t, {"app", "desktop"}) = Mapped(s, {"app", "desktop"})
  BY <1>4, <1>5 DEF Mapped, IsMain
<1>7. Foreground(t)
  <2>1. t.top = s.top /\ t.raised = s.raised /\ t.desktop = s.desktop /\ t.newForDesktop = s.newForDesktop
    BY <1>1 DEF SameMains, Kept
  <2>2. s.top # None => s.top \in Clients /\ IsMain(s.top)
    BY WmFields DEF IsMain
  <2>3. s.desktop # None => s.desktop \in Clients /\ IsMain(s.desktop)
    BY WmFields DEF IsMain
  <2>4. Visible(s) # None /\ OnTop(s, Visible(s)) => OnTop(t, Visible(s))
    BY <1>2 DEF Settled
  <2>5. Foreground(s)
    BY DEF Good
  <2>6. t.top # None => t.top \in t.mapped
    BY <1>4, <2>1, <2>2, <2>5 DEF Foreground
  <2>7. t.top = None => Mapped(t, {"app"}) = {}
    BY <1>6, <2>1, <2>5 DEF Foreground
  <2>8. t.raised => t.desktop # None /\ t.desktop \in t.mapped
    BY <1>4, <2>1, <2>3, <2>5 DEF Foreground
  <2>9. ~t.raised /\ t.top = None => Mapped(t, {"app", "desktop"}) = {}
    BY <1>6, <2>1, <2>5 DEF Foreground
  <2>10. t.raised => OnTop(t, t.desktop)
    BY <2>1, <2>4, <2>5 DEF Foreground, Visible
  <2>11. ~t.raised /\ t.top # None =>
           \/ t.top \in StartQuiet /\ (t.desktop = None => t.top \notin t.newForDesktop)
           \/ OnTop(t, t.top)
    BY <2>1, <2>4, <2>5 DEF Foreground, Visible
  <2> QED
    BY <2>6, <2>7, <2>8, <2>9, <2>10, <2>11 DEF Foreground
<1> QED
  BY <1>3, <1>7 DEF Good

LEMMA AppActiveGood ==
  ASSUME NEW s, WmOK(s), Base(s), s.raised => s.desktop # None,
         NEW c \in Managed(s), Type[c] = "app", c = Visible(s) => c \in s.mapped,
         NEW u, AppActive(s, u, c)
  PROVE  Good(u)
<1>1. /\ Kept(s, u) /\ u.top = c /\ ~u.raised /\ u.newForDesktop = NewFor(s, c)
      /\ u.quiet \subseteq s.quiet /\ WmOK(u) /\ c \in Clients /\ c # None
  BY WmFields DEF AppActive, Kept
<1>2. Base(u)
  BY <1>1 DEF Base, Kept, DialogTrans, NewFor
<1>3. c \in u.mapped
  BY <1>1 DEF AppActive, IsMain
<1>4. \/ c \in StartQuiet /\ (u.desktop = None => c \notin u.newForDesktop)
      \/ OnTop(u, c)
  <2>1. CASE Ahead(u, c)
    BY <1>1, <2>1, AheadFact
  <2>2. CASE c \in s.quiet \ s.mapped /\ Visible(s) # None
    <3>1. c \in StartQuiet
      BY <2>2 DEF Base
    <3>2. u.desktop = None => c \notin u.newForDesktop
      <4>1. u.desktop = s.desktop
        BY <1>1 DEF Kept
      <4>2. Visible(s) # c
        BY <2>2
      <4> QED
        BY <1>1, <4>1, <4>2 DEF NewFor
    <3> QED
      BY <3>1, <3>2
  <2> QED
    BY <2>1, <2>2 DEF AppActive
<1>5. Foreground(u)
  BY <1>1, <1>3, <1>4 DEF Foreground
<1> QED
  BY <1>2, <1>5 DEF Good

LEMMA DesktopActiveGood ==
  ASSUME NEW s, WmOK(s), Base(s), s.top # None => s.top \in s.mapped,
         s.top = None => Mapped(s, {"app"}) = {},
         NEW c \in Managed(s), Type[c] = "desktop", NEW u, DesktopActive(s, u, c)
  PROVE  Good(u)
<1>1. /\ Kept(s, u) /\ u.top = s.top /\ u.raised /\ u.newForDesktop = s.newForDesktop
      /\ u.quiet = s.quiet /\ WmOK(u) /\ c \in Clients /\ c # None
  BY WmFields DEF DesktopActive, Kept
<1>2. c = s.desktop /\ u.desktop = c
  BY <1>1 DEF Base, Kept
<1>3. Base(u)
  BY <1>1 DEF Base, Kept, DialogTrans
<1>4. c \in u.mapped /\ \A d \in Clients : Type[d] = "app" => (d \in u.mapped <=> d \in s.mapped)
  <2>1. \A d \in Clients : IsMain(d) => (d \in u.mapped <=> d \in s.mapped \/ d = c)
    BY DEF DesktopActive
  <2>2. c \in u.mapped
    BY <1>1, <2>1 DEF IsMain
  <2>3. ASSUME NEW d \in Clients, Type[d] = "app" PROVE d \in u.mapped <=> d \in s.mapped
    <3>1. d # c /\ IsMain(d)
      BY <2>3 DEF IsMain
    <3> QED
      BY <2>1, <3>1
  <2> QED
    BY <2>2, <2>3
<1>5. Mapped(u, {"app"}) = Mapped(s, {"app"})
  <2>1. Managed(u) = Managed(s) /\ Managed(s) \subseteq Clients
    BY <1>1, WmFields DEF Kept
  <2> QED
    BY <1>4, <2>1 DEF Mapped
<1>6. OnTop(u, c)
  BY <1>1, AheadFact DEF DesktopActive
<1>7. s.top # None => s.top \in Clients /\ Type[s.top] = "app"
  BY WmFields
<1>8. Foreground(u)
  BY <1>1, <1>2, <1>4, <1>5, <1>6, <1>7 DEF Foreground
<1> QED
  BY <1>3, <1>8 DEF Good

LEMMA ActivateGood ==
  ASSUME NEW s, WmOK(s), Good(s), NEW c \in Managed(s) \union {None}
  PROVE  Good(Activate(Loop, s, c))
<1> DEFINE u == Activate(Loop, s, c)
<1>0. DialogTrans(s) /\ Base(s) /\ Foreground(s) /\ (Visible(s) # None => Visible(s) \in s.mapped)
  BY GoodVisible DEF Good, VisibleMapped
<1>1. CASE c = None \/ s.hung
  <2>1. u = s
    BY <1>1 DEF Activate
  <2> QED
    BY <2>1
<1>2. CASE c # None /\ ~s.hung /\ ~IsMain(c)
  <2>1. Steady(s, u)
    BY <1>0, <1>2, LoopFact, ActivateFact
  <2> QED
    BY <2>1, SteadySettled, SettledGood
<1>3. CASE c # None /\ ~s.hung /\ Type[c] = "app"
  <2>1. c \in Managed(s)
    BY <1>3
  <2>2. AppActive(s, u, c)
    BY <1>0, <1>3, <2>1, LoopFact, ActivateApp
  <2>3. (c = Visible(s) => c \in s.mapped) /\ (s.raised => s.desktop # None)
    BY <1>0, <1>3 DEF Foreground
  <2> HIDE DEF u
  <2> QED
    BY <1>0, <1>3, <2>1, <2>2, <2>3, AppActiveGood DEF u
<1>4. CASE c # None /\ ~s.hung /\ Type[c] = "desktop"
  <2>1. c \in Managed(s)
    BY <1>4
  <2>2. DesktopActive(s, u, c)
    BY <1>4, <2>1, ActivateDesktop
  <2>3. (s.top # None => s.top \in s.mapped) /\ (s.top = None => Mapped(s, {"app"}) = {})
    BY <1>0 DEF Foreground
  <2> HIDE DEF u
  <2> QED
    BY <1>0, <1>4, <2>1, <2>2, <2>3, DesktopActiveGood DEF u
<1> QED
  BY <1>1, <1>2, <1>3, <1>4 DEF IsMain

(* Main clients that are mapped stay mapped. *)
Shown(s, t) == \A m \in Clients : IsMain(m) /\ m \in s.mapped => m \in t.mapped

LEMMA ActivateShown ==
  ASSUME NEW s, WmOK(s), DialogTrans(s), NEW c \in Managed(s) \union {None}
  PROVE  Shown(s, Activate(Loop, s, c))
<1> DEFINE u == Activate(Loop, s, c)
<1>1. CASE c = None \/ s.hung
  <2>1. u = s
    BY <1>1 DEF Activate
  <2> QED
    BY <2>1 DEF Shown
<1>2. CASE c # None /\ ~s.hung /\ ~IsMain(c)
  <2>1. Steady(s, u)
    BY <1>2, LoopFact, ActivateFact
  <2> QED
    BY <2>1 DEF Steady, SameMains, Shown
<1>3. CASE c # None /\ ~s.hung /\ Type[c] = "app"
  <2>1. AppActive(s, u, c)
    BY <1>3, LoopFact, ActivateApp
  <2> QED
    BY <2>1 DEF AppActive, Shown
<1>4. CASE c # None /\ ~s.hung /\ Type[c] = "desktop"
  <2>1. DesktopActive(s, u, c)
    BY <1>4, ActivateDesktop
  <2> QED
    BY <2>1 DEF DesktopActive, Shown
<1> QED
  BY <1>1, <1>2, <1>3, <1>4 DEF IsMain

(* main_client_unmap *)
LEMMA MainUnmapGood ==
  ASSUME NEW s, WmOK(s), Good(s), ~s.hung, NEW c \in Managed(s), Type[c] = "app"
  PROVE  Good(MainUnmap(Loop, s, c))
<1> DEFINE t == Unmapped(s, c)
           d == Successor(s, c)
           g == GetBelow(s, c)
           u == Activate(Loop, t, d)
<1>0. MainUnmap(Loop, s, c) = u
  BY LoopFact, MainUnmapFact
<1>1. /\ WmOK(t) /\ Managed(t) = Managed(s) /\ t.trans = s.trans /\ t.desktop = s.desktop
      /\ t.top = NewTop(s, c) /\ t.raised = s.raised /\ t.newForDesktop = s.newForDesktop
      /\ t.quiet = s.quiet /\ t.mapped = s.mapped \ {c} /\ t.order = s.order /\ t.hung = s.hung
      /\ d \in Managed(s) \union {None}
  BY UnmappedFact DEF Kept
<1>2. Base(s) /\ Foreground(s)
  BY DEF Good
<1>3. /\ g = c => Mapped(s, {"app"}) \ {c} = {}
      /\ g # c => g \in Mapped(s, {"app"}) \ {c}
      /\ g # c /\ (\A a \in Mapped(s, {"app"}) \ {c} : Place(s.order, a) <= Place(s.order, c)) =>
           \A a \in Mapped(s, {"app"}) \ {c} : Place(s.order, a) <= Place(s.order, g)
  BY GetBelowFact
<1>4. c # None /\ None \notin Managed(s) /\ s.raised \in BOOLEAN
      /\ (s.desktop # None => s.desktop \in Managed(s) /\ Type[s.desktop] = "desktop")
  BY WmFields
<1> HIDE DEF t, d, g, u
<1>5. Base(t)
  BY <1>1, <1>2 DEF Base, DialogTrans
<1>6. /\ Mapped(t, {"app"}) = Mapped(s, {"app"}) \ {c}
      /\ Mapped(t, {"app", "desktop"}) = Mapped(s, {"app", "desktop"}) \ {c}
  BY <1>1 DEF Mapped
<1>7. \A x : OnTop(s, x) => OnTop(t, x)
  BY <1>1, <1>6 DEF OnTop
<1>8. s.raised => s.desktop # None
  BY <1>2 DEF Foreground
<1>9. CASE s.top # c
  <2>1. u = t /\ t.top = s.top
    BY <1>1, <1>9 DEF u, d, Successor, NewTop, Activate
  <2>2. t.top # None => t.top \in t.mapped
    BY <1>1, <1>2, <1>9, <2>1 DEF Foreground
  <2>3. t.top = None => Mapped(t, {"app"}) = {}
    BY <1>2, <1>6, <2>1 DEF Foreground
  <2>4. t.raised => t.desktop # None /\ t.desktop \in t.mapped
    <3>1. s.desktop # None => s.desktop # c
      BY <1>4
    <3> QED
      BY <1>1, <1>2, <3>1 DEF Foreground
  <2>5. ~t.raised /\ t.top = None => Mapped(t, {"app", "desktop"}) = {}
    BY <1>1, <1>2, <1>6, <2>1 DEF Foreground
  <2>6. t.raised => OnTop(t, t.desktop)
    BY <1>1, <1>2, <1>7 DEF Foreground
  <2>7. ~t.raised /\ t.top # None =>
          \/ t.top \in StartQuiet /\ (t.desktop = None => t.top \notin t.newForDesktop)
          \/ OnTop(t, t.top)
    BY <1>1, <1>2, <1>7, <2>1 DEF Foreground
  <2> QED
    BY <1>5, <2>1, <2>2, <2>3, <2>4, <2>5, <2>6, <2>7, <1>0 DEF Good, Foreground
<1>10. CASE s.top = c /\ ToDesktop(s, c) /\ s.desktop # None
  <2>1. d = s.desktop /\ t.top = IF g # c THEN g ELSE None
    BY <1>1, <1>10 DEF d, g, Successor, NewTop
  <2>2. t.top # None => t.top \in t.mapped
    BY <1>1, <1>3, <2>1 DEF Mapped
  <2>3. t.top = None => Mapped(t, {"app"}) = {}
    <3>1. t.top = None => g = c
      BY <1>3, <1>4, <2>1 DEF Mapped
    <3> QED
      BY <1>3, <1>6, <3>1
  <2>4. d \in Managed(t) /\ Type[d] = "desktop"
    BY <1>1, <1>4, <1>10, <2>1
  <2>5. DesktopActive(t, u, d)
    BY <1>1, <2>4, ActivateDesktop DEF u
  <2> QED
    BY <1>0, <1>1, <1>5, <2>2, <2>3, <2>4, <2>5, DesktopActiveGood
<1>11. CASE s.top = c /\ ToDesktop(s, c) /\ s.desktop = None
  <2>1. d = None /\ t.top = (IF g # c THEN g ELSE None) /\ u = t
    BY <1>1, <1>11 DEF u, d, g, Successor, NewTop, Activate
  <2>2. ~t.raised
    BY <1>1, <1>8, <1>11
  <2>3. Mapped(t, {"app", "desktop"}) = Mapped(t, {"app"})
    <3>1. \A m \in Managed(s) : Type[m] # "desktop"
      BY <1>2, <1>4, <1>11 DEF Base
    <3> QED
      BY <1>1, <3>1 DEF Mapped
  <2>4. CASE g = c
    <3>1. t.top = None /\ Mapped(t, {"app"}) = {}
      BY <1>3, <1>6, <2>1, <2>4
    <3>2. Foreground(t)
      BY <2>2, <2>3, <3>1 DEF Foreground
    <3> QED
      BY <1>0, <1>5, <2>1, <3>2 DEF Good
  <2>5. CASE g # c
    <3>1. t.top = g /\ g \in t.mapped /\ g # None
      BY <1>1, <1>3, <1>4, <2>1, <2>5 DEF Mapped
    <3>2. c \in s.newForDesktop
      BY <1>11, <2>5 DEF ToDesktop, g
    <3>3. OnTop(s, c)
      BY <1>1, <1>2, <1>4, <1>11, <2>2, <3>2 DEF Foreground
    <3>4. \A a \in Mapped(s, {"app"}) \ {c} : Place(s.order, a) <= Place(s.order, c)
      BY <3>3 DEF OnTop, Mapped
    <3>5. OnTop(t, g)
      BY <1>1, <1>3, <1>6, <2>3, <2>5, <3>4 DEF OnTop
    <3>6. Foreground(t)
      BY <2>2, <3>1, <3>5 DEF Foreground
    <3> QED
      BY <1>0, <1>5, <2>1, <3>6 DEF Good
  <2> QED
    BY <2>4, <2>5
<1>12. CASE s.top = c /\ ~ToDesktop(s, c)
  <2>1. d = g /\ g # c
    BY <1>12 DEF d, g, Successor, ToDesktop
  <2>2. d \in Managed(t) /\ Type[d] = "app" /\ d \in t.mapped
    BY <1>1, <1>3, <2>1 DEF Mapped
  <2>3. DialogTrans(t) /\ ~t.hung /\ (t.raised => t.desktop # None)
    BY <1>1, <1>5, <1>8 DEF Base
  <2>4. AppActive(t, u, d)
    BY <1>1, <2>2, <2>3, LoopFact, ActivateApp DEF u
  <2> QED
    BY <1>0, <1>1, <1>5, <2>2, <2>3, <2>4, AppActiveGood
<1> QED
  BY <1>9, <1>10, <1>11, <1>12

-----------------------------------------------------------------------------
(* Iconifying and destroying clients.                                      *)

LEMMA IconizeGood ==
  ASSUME NEW s, WmOK(s), Good(s), ~s.hung, NEW c \in Managed(s)
  PROVE  Good(Iconize(Loop, s, c))
<1> DEFINE t == Iconize(Loop, s, c)
<1>0. DialogTrans(s) /\ VisibleMapped(s) /\ c \in Clients
  BY GoodVisible, WmFields
<1>1. CASE Type[c] # "app"
  <2>1. Settled(s, t)
    BY <1>0, <1>1, LoopFact, IconizeFact DEF ResultOK
  <2> QED
    BY <2>1, SettledGood
<1>2. CASE Type[c] = "app"
  <2> DEFINE s1 == WithDialogsGone(Loop, s, c)
  <2>1. t = UnmapUnlessHung(Loop, s1, c)
    BY <1>2 DEF Iconize, MainIconize, WithDialogsGone
  <2>2. Settled(s, s1)
    BY <1>0, LoopFact, DialogsGone DEF ResultOK
  <2> HIDE DEF s1, t
  <2>3. WmOK(s1) /\ Managed(s1) = Managed(s) /\ Good(s1)
    BY <2>2, SettledGood DEF Settled, Kept
  <2>4. t = IF s1.hung THEN s1 ELSE MainUnmap(Loop, s1, c)
    BY <2>1 DEF UnmapUnlessHung
  <2> QED
    BY <1>2, <2>3, <2>4, MainUnmapGood DEF t
<1> QED
  BY <1>1, <1>2

LEMMA KeptInv ==
  ASSUME NEW s, Acyclic(s.trans), NEW t, Kept(s, t)
  PROVE  WmInv(t)
BY DEF WmInv, Kept

LEMMA SteadyGood ==
  ASSUME NEW s, WmOK(s), NEW t, Steady(s, t), Good(s)
  PROVE  Good(t)
BY SteadySettled, SettledGood

(* What is on top stays on top when another client goes. *)
LEMMA ForgetOnTop ==
  ASSUME NEW s, WmOK(s), Acyclic(s.trans), NEW c \in Managed(s), s.top # c,
         NEW x \in Managed(s) \ {c}, OnTop(s, x)
  PROVE  OnTop(Forget(s, c), x)
<1> DEFINE t == Forget(s, c)
<1>1. /\ Managed(t) = Managed(s) \ {c} /\ InOrder(s.order, t.order, {c})
      /\ t.mapped = s.mapped \ {c}
  BY ForgetFact DEF WmOK
<1> HIDE DEF t
<1>2. ASSUME NEW m \in Mapped(t, {"app", "desktop"})
      PROVE  Place(t.order, m) <= Place(t.order, x)
  <2>1. m \in Managed(s) \ {c} /\ m \in Mapped(s, {"app", "desktop"})
    BY <1>1 DEF Mapped
  <2>2. Place(s.order, m) <= Place(s.order, x)
    BY <2>1 DEF OnTop
  <2>3. m \in Members(s.order) \ {c} /\ x \in Members(s.order) \ {c}
    BY <2>1 DEF Managed
  <2> QED
    BY <1>1, <2>2, <2>3 DEF InOrder
<1> QED
  BY <1>2 DEF OnTop, t

(* base_client_destroy of a client that is not pointed to *)
LEMMA ForgetGood ==
  ASSUME NEW s, WmOK(s), Acyclic(s.trans), Good(s), NEW c \in Managed(s), s.top # c, s.desktop # c
  PROVE  Good(Forget(s, c))
<1> DEFINE t == Forget(s, c)
<1>1. /\ Managed(t) = Managed(s) \ {c}
      /\ t.top = s.top /\ t.desktop = s.desktop /\ t.raised = s.raised /\ t.mapped = s.mapped \ {c}
      /\ t.newForDesktop = s.newForDesktop \ {c} /\ t.quiet = s.quiet \ {c}
      /\ DialogTrans(s) => DialogTrans(t)
  BY ForgetFact DEF WmOK
<1>2. /\ s.top # None => s.top \in Managed(s) \ {c}
      /\ s.desktop # None => s.desktop \in Managed(s) \ {c}
  BY WmFields
<1>3. \A x \in Managed(s) \ {c} : OnTop(s, x) => OnTop(t, x)
  BY ForgetOnTop
<1> HIDE DEF t
<1>4. Base(s) /\ Foreground(s)
  BY DEF Good
<1>5. Base(t)
  BY <1>1, <1>4 DEF Base
<1>6. Mapped(t, {"app"}) \subseteq Mapped(s, {"app"}) /\ Mapped(t, {"app", "desktop"}) \subseteq Mapped(s, {"app", "desktop"})
  BY <1>1 DEF Mapped
<1>7. /\ t.top # None => t.top \in t.mapped
      /\ t.top = None => Mapped(t, {"app"}) = {}
      /\ t.raised => t.desktop # None /\ t.desktop \in t.mapped
      /\ ~t.raised /\ t.top = None => Mapped(t, {"app", "desktop"}) = {}
  BY <1>1, <1>4, <1>6 DEF Foreground
<1>8. t.raised => OnTop(t, t.desktop)
  BY <1>1, <1>2, <1>3, <1>4 DEF Foreground
<1>9. ~t.raised /\ t.top # None =>
        \/ t.top \in StartQuiet /\ (t.desktop = None => t.top \notin t.newForDesktop)
        \/ OnTop(t, t.top)
  BY <1>1, <1>2, <1>3, <1>4 DEF Foreground
<1>10. Foreground(t)
  BY <1>7, <1>8, <1>9 DEF Foreground
<1> QED
  BY <1>5, <1>10 DEF Good, t

-----------------------------------------------------------------------------
(* What a handler does to the state.                                       *)

(* There is one desktop window at most. *)
OneDesktop == \A c, d \in Clients : Type[c] = "desktop" /\ Type[d] = "desktop" => c = d

(* Only dialogs change what they are transient for. *)
DialogsRetarget == \A c \in Retarget : IsDialog(c)

Keeps(s, t) == WmInv(t) /\ (OneDesktop /\ DialogsRetarget /\ Good(s) => Good(t))

LEMMA ActivateKeeps ==
  ASSUME NEW s, WmOK(s), Acyclic(s.trans), NEW c \in Managed(s) \union {None}
  PROVE  Keeps(s, Activate(Loop, s, c))
<1>1. Kept(s, Activate(Loop, s, c))
  BY LoopFact, ActivateFact
<1> QED
  BY <1>1, KeptInv, ActivateGood DEF Keeps

LEMMA SteadyActivateKeeps ==
  ASSUME NEW s, WmOK(s), Acyclic(s.trans), NEW t, Steady(s, t), NEW c \in Managed(s) \union {None}
  PROVE  Keeps(s, Activate(Loop, t, c))
<1>1. WmOK(t) /\ Acyclic(t.trans) /\ c \in Managed(t) \union {None} /\ (Good(s) => Good(t))
  BY SteadyGood DEF Steady, Kept
<1>2. Keeps(t, Activate(Loop, t, c))
  BY <1>1, ActivateKeeps
<1> QED
  BY <1>1, <1>2 DEF Keeps

LEMMA SteadyKeepsAll ==
  ASSUME NEW s, WmOK(s), Acyclic(s.trans), NEW t, Steady(s, t)
  PROVE  Keeps(s, t)
<1>1. Kept(s, t)
  BY DEF Steady
<1> QED
  BY <1>1, KeptInv, SteadyGood DEF Keeps

LEMMA IconizeKeeps ==
  ASSUME NEW s, WmOK(s), Acyclic(s.trans), ~s.hung, NEW c \in Managed(s)
  PROVE  Keeps(s, Iconize(Loop, s, c))
<1>1. Kept(s, Iconize(Loop, s, c))
  BY LoopFact, IconizeFact
<1> QED
  BY <1>1, KeptInv, IconizeGood DEF Keeps

LEMMA ForgetKeeps ==
  ASSUME NEW s, WmOK(s), Acyclic(s.trans), NEW c \in Managed(s), s.top # c, s.desktop # c
  PROVE  Keeps(s, Forget(s, c)) /\ Acyclic(Forget(s, c).trans)
<1>1. WmInv(Forget(s, c)) /\ Acyclic(Forget(s, c).trans)
  BY ForgetFact DEF WmOK
<1> QED
  BY <1>1, ForgetGood DEF Keeps

(* wm_remove_client of an app *)
LEMMA AppDestroyKeeps ==
  ASSUME NEW s, WmOK(s), Acyclic(s.trans), ~s.hung, NEW c \in Managed(s), Type[c] = "app"
  PROVE  Keeps(s, Forget(MainUnmap(Loop, s, c), c))
<1> DEFINE t == MainUnmap(Loop, s, c)
<1>1. Kept(s, t) /\ t.top # c
  BY LoopFact, MainUnmapFact
<1>2. Good(s) => Good(t)
  BY MainUnmapGood
<1> HIDE DEF t
<1>3. WmOK(t) /\ Acyclic(t.trans) /\ c \in Managed(t)
  BY <1>1 DEF Kept
<1>4. t.desktop # c
  <2>1. c # None
    BY WmFields
  <2> QED
    BY <1>3, <2>1, WmFields
<1>5. Keeps(t, Forget(t, c))
  BY <1>1, <1>3, <1>4, ForgetKeeps
<1> QED
  BY <1>2, <1>5 DEF Keeps, t

(* wm_remove_client of a dialog *)
LEMMA DialogDestroyKeeps ==
  ASSUME NEW s, WmOK(s), Acyclic(s.trans), NEW c \in Managed(s), IsDialog(c)
  PROVE  /\ Keeps(s, DialogDestroy(Loop, s, c))
         /\ DialogTrans(s) => Shown(s, DialogDestroy(Loop, s, c))
<1> DEFINE p == PassFocus(s, c)
           m == IF c \in Modal THEN p.modals - 1 ELSE p.modals
           gone == [p EXCEPT !.modals = m]
           f == Forget(gone, c)
           d == FocusCandidate(s, c)
           u == Activate(Loop, f, d)
<1>0. c \in Clients /\ c # None /\ ~IsMain(c)
  BY WmFields DEF IsDialog, IsMain
<1>1. Steady(s, p)
  BY <1>0, PassFocusSteady
<1> HIDE DEF p, d
<1>2. WmOK(p) /\ p \in WmState
  BY <1>1 DEF Steady, Kept, WmOK
<1>3. DialogDestroy(Loop, s, c) = u
  <2>1. gone = [p EXCEPT !.modals = IF c \in Modal THEN @ - 1 ELSE @]
    BY <1>2 DEF WmState
  <2> QED
    BY <2>1 DEF DialogDestroy, p, d
<1>4. m \in Int
  BY <1>2, WmFields
<1> HIDE DEF m
<1>5. gone \in WmState
  BY <1>2, <1>4 DEF WmState
<1>6. /\ gone.order = p.order /\ gone.top = p.top /\ gone.desktop = p.desktop /\ gone.raised = p.raised
      /\ gone.trans = p.trans /\ gone.newForDesktop = p.newForDesktop /\ gone.quiet = p.quiet
      /\ gone.mapped = p.mapped
  BY <1>2 DEF WmState
<1> HIDE DEF gone
<1>7. Steady(p, gone)
  BY <1>2, <1>5, <1>6, EditSteady, WmFields
<1>8. Steady(s, gone)
  BY <1>1, <1>7, SteadyTrans
<1>9. WmOK(gone) /\ Managed(gone) = Managed(s) /\ Acyclic(gone.trans) /\ (Good(s) => Good(gone))
  BY <1>8, SteadyGood DEF Steady, Kept
<1>10. gone.top # c /\ gone.desktop # c
  <2>1. \A x \in {gone.top, gone.desktop} : x # None => IsMain(x)
    BY <1>9, WmFields DEF IsMain
  <2> QED
    BY <1>0, <2>1
<1>11. /\ Keeps(gone, f) /\ Acyclic(f.trans) /\ Managed(f) = Managed(s) \ {c}
       /\ f.mapped = gone.mapped \ {c} /\ (DialogTrans(gone) => DialogTrans(f))
  <2>1. Keeps(gone, f) /\ Acyclic(f.trans)
    BY <1>9, <1>10, ForgetKeeps
  <2>2. gone \in WmState /\ Sound(gone)
    BY <1>9 DEF WmOK
  <2>3. Managed(f) = Managed(gone) \ {c} /\ f.mapped = gone.mapped \ {c} /\ (DialogTrans(gone) => DialogTrans(f))
    BY <1>9, <1>10, <2>2, ForgetFact
  <2> QED
    BY <1>9, <2>1, <2>3
<1>12. d \in Managed(f) \union {None}
  <2>1. \/ d = None
        \/ d = Visible(s) /\ Visible(s) # None
        \/ d \in Managed(s) \ {c}
    BY FocusCandidateFact DEF d
  <2>2. Visible(s) # None => Visible(s) \in Managed(s) /\ IsMain(Visible(s))
    BY VisibleFact
  <2> QED
    BY <1>0, <1>11, <2>1, <2>2
<1> HIDE DEF f
<1>13. WmOK(f)
  BY <1>11 DEF Keeps, WmInv
<1>14. Keeps(f, u)
  BY <1>11, <1>12, <1>13, ActivateKeeps
<1>15. DialogTrans(s) => Shown(s, u)
  <2>1. DialogTrans(s) => DialogTrans(f)
    BY <1>8, <1>11 DEF Steady, Kept, DialogTrans
  <2>2. DialogTrans(f) => Shown(f, u)
    BY <1>12, <1>13, ActivateShown
  <2>3. \A a \in Clients : IsMain(a) /\ a \in s.mapped => a \in f.mapped
    BY <1>0, <1>8, <1>11 DEF Steady, SameMains
  <2> QED
    BY <2>1, <2>2, <2>3 DEF Shown
<1> HIDE DEF u
<1> QED
  BY <1>3, <1>9, <1>11, <1>14, <1>15 DEF Keeps

(* wm_remove_client of the desktop *)
LEMMA DesktopDestroyKeeps ==
  ASSUME NEW s, WmOK(s), Acyclic(s.trans), ~s.hung, NEW c \in Managed(s), Type[c] = "desktop"
  PROVE  /\ Keeps(s, DesktopDestroy(Loop, s, c))
         /\ DialogTrans(s) => \A m \in Clients \ {c} : IsMain(m) /\ m \in s.mapped => m \in DesktopDestroy(Loop, s, c).mapped
<1> DEFINE mapped == s.mapped \ {c}
           s0 == [s EXCEPT !.mapped = mapped]
           back == Activate(Loop, s0, s.top)
           b1 == [back EXCEPT !.raised = FALSE]
           f == Forget(b1, c)
           r == [f EXCEPT !.desktop = None]
<1>0. /\ s \in WmState /\ mapped \in SUBSET Clients /\ mapped \subseteq Managed(s) /\ None \in Pointer
      /\ c # None /\ None \notin Managed(s) /\ s.top \in Managed(s) \union {None} /\ s.top # c
  BY WmFields DEF WmOK, Pointer
<1>1. DesktopDestroy(Loop, s, c) = r
  <2>1. s0 = [s EXCEPT !.mapped = @ \ {c}]
    BY <1>0 DEF WmState
  <2> QED
    BY <2>1 DEF DesktopDestroy
<1> HIDE DEF mapped
<1>2. s0 \in WmState
  BY <1>0 DEF WmState
<1>3. /\ s0.order = s.order /\ s0.top = s.top /\ s0.desktop = s.desktop /\ s0.raised = s.raised
      /\ s0.trans = s.trans /\ s0.newForDesktop = s.newForDesktop /\ s0.quiet = s.quiet
      /\ s0.mapped = mapped /\ s0.hung = s.hung
  BY <1>0 DEF WmState
<1> HIDE DEF s0
<1>4. Managed(s0) = Managed(s)
  BY <1>3 DEF Managed
<1>5. WmOK(s0)
  BY <1>0, <1>2, <1>3, <1>4 DEF WmOK, Sound
<1>6. Kept(s0, back) /\ back.top = s.top
  BY <1>0, <1>3, <1>4, <1>5, LoopFact, ActivateFact
<1>7. s.top = None => back = s0
  BY DEF Activate
<1> HIDE DEF back
<1>8. back \in WmState /\ WmOK(back)
  BY <1>6 DEF Kept, WmOK
<1>9. b1 \in WmState
  BY <1>8 DEF WmState
<1>10. /\ b1.order = back.order /\ b1.top = back.top /\ b1.desktop = back.desktop /\ ~b1.raised
       /\ b1.trans = back.trans /\ b1.newForDesktop = back.newForDesktop /\ b1.quiet = back.quiet
       /\ b1.mapped = back.mapped
  BY <1>8 DEF WmState
<1> HIDE DEF b1
<1>11. Managed(b1) = Managed(s) /\ Managed(back) = Managed(s)
  BY <1>4, <1>6, <1>10 DEF Managed, Kept
<1>12. WmOK(b1) /\ Sound(b1)
  BY <1>8, <1>9, <1>10, <1>11 DEF WmOK, Sound, Managed
<1>13. Acyclic(b1.trans) /\ b1.top = s.top /\ b1.top # c /\ c \in Managed(b1) /\ b1.trans = s.trans
  BY <1>0, <1>3, <1>6, <1>10, <1>11 DEF Kept
<1>14. /\ f \in WmState
       /\ Managed(f) = Managed(s) \ {c} /\ Distinct(f.order)
       /\ f.top = s.top /\ ~f.raised /\ f.mapped = back.mapped \ {c} /\ f.quiet = back.quiet \ {c}
       /\ f.newForDesktop = back.newForDesktop \ {c}
       /\ \A p \in Clients : f.trans[p] \in Managed(f) \union {None}
       /\ DialogTrans(b1) => DialogTrans(f)
       /\ Acyclic(f.trans)
  <2>1. /\ f \in WmState
        /\ Managed(f) = Managed(b1) \ {c} /\ Distinct(f.order)
        /\ f.top = b1.top /\ f.raised = b1.raised /\ f.mapped = b1.mapped \ {c}
        /\ f.newForDesktop = b1.newForDesktop \ {c} /\ f.quiet = b1.quiet \ {c}
        /\ \A p \in Clients : f.trans[p] \in Managed(f) \union {None}
        /\ DialogTrans(b1) => DialogTrans(f)
        /\ Acyclic(f.trans)
    BY <1>9, <1>12, <1>13, ForgetFact
  <2> HIDE DEF f
  <2> QED
    BY <1>10, <1>11, <1>13, <2>1
<1>15. \A x \in Managed(b1) \ {c} : OnTop(b1, x) => OnTop(f, x)
  BY <1>12, <1>13, ForgetOnTop
<1> HIDE DEF f
<1>16. r \in WmState
  BY <1>0, <1>14 DEF WmState
<1>17. /\ r.order = f.order /\ r.top = f.top /\ r.desktop = None /\ r.raised = f.raised
       /\ r.trans = f.trans /\ r.mapped = f.mapped /\ r.quiet = f.quiet
       /\ r.newForDesktop = f.newForDesktop
  BY <1>14 DEF WmState
<1> HIDE DEF r
<1>18. Managed(r) = Managed(s) \ {c}
  BY <1>14, <1>17 DEF Managed
<1>19. Sound(r)
  <2>1. back.mapped \subseteq Managed(s)
    BY <1>8, <1>11, WmFields
  <2>2. s.top # None => s.top \in Managed(s) \ {c} /\ Type[s.top] = "app"
    BY <1>0, WmFields
  <2> QED
    BY <1>14, <1>17, <1>18, <2>1, <2>2 DEF Sound
<1>20. WmInv(r)
  BY <1>14, <1>16, <1>17, <1>19 DEF WmInv, WmOK
<1>21. ASSUME Good(s) PROVE Good(r)
  <2>1. Base(s) /\ Foreground(s) /\ c = s.desktop
    BY <1>21 DEF Good, Base
  <2>2. \A m \in Managed(r) : Type[m] # "desktop"
    BY <1>18, <2>1 DEF Base
  <2>3. Mapped(r, {"app", "desktop"}) = Mapped(r, {"app"})
    BY <2>2 DEF Mapped
  <2>4. DialogTrans(s) /\ DialogTrans(s0)
    BY <1>3, <2>1 DEF Base, DialogTrans
  <2>5. DialogTrans(r)
    BY <1>13, <1>14, <1>17, <2>4 DEF DialogTrans
  <2>6. CASE s.top = None
    <3>1. /\ back.mapped = s.mapped \ {c} /\ back.quiet = s.quiet
          /\ back.newForDesktop = s.newForDesktop
      BY <1>3, <1>7, <2>6 DEF mapped
    <3>2. Mapped(s, {"app"}) = {}
      BY <2>1, <2>6 DEF Foreground
    <3>3. Mapped(r, {"app"}) = {}
      BY <1>14, <1>17, <1>18, <3>1, <3>2 DEF Mapped
    <3>4. Foreground(r)
      BY <1>14, <1>17, <2>3, <2>6, <3>3 DEF Foreground
    <3>5. Base(r)
      BY <1>14, <1>17, <2>1, <2>2, <2>5, <3>1 DEF Base
    <3> QED
      BY <3>4, <3>5 DEF Good
  <2>7. CASE s.top # None
    <3>1. s.top \in Managed(s0) /\ Type[s.top] = "app" /\ s.top \in Clients
      BY <1>0, <1>4, <2>7, WmFields
    <3>2. AppActive(s0, back, s.top)
      BY <1>3, <1>5, <2>4, <3>1, LoopFact, ActivateApp DEF back
    <3>3. s.top \in s0.mapped
      BY <1>0, <1>3, <2>1, <2>7 DEF Foreground, mapped
    <3>4. Ahead(back, s.top) /\ back.quiet \subseteq s.quiet /\ s.top \in back.mapped
      <4>1. IsMain(s.top)
        BY <3>1 DEF IsMain
      <4> QED
        BY <1>3, <3>1, <3>2, <3>3, <4>1 DEF AppActive
    <3>5. OnTop(b1, s.top)
      <4>1. OnTop(back, s.top)
        BY <1>8, <3>4, AheadFact
      <4>2. Mapped(b1, {"app", "desktop"}) = Mapped(back, {"app", "desktop"})
        BY <1>10, <1>11 DEF Mapped
      <4> QED
        BY <1>10, <4>1, <4>2 DEF OnTop
    <3>6. OnTop(f, s.top)
      BY <1>0, <1>4, <1>11, <1>15, <3>1, <3>5
    <3>7. OnTop(r, s.top)
      <4>1. Mapped(r, {"app", "desktop"}) = Mapped(f, {"app", "desktop"})
        BY <1>17 DEF Mapped, Managed
      <4> QED
        BY <1>17, <3>6, <4>1 DEF OnTop
    <3>8. Foreground(r)
      BY <1>0, <1>14, <1>17, <2>7, <3>4, <3>7 DEF Foreground
    <3>9. Base(r)
      <4>1. back.newForDesktop \subseteq s.newForDesktop \union {s.top}
        BY <1>3, <3>2 DEF AppActive, NewFor
      <4> QED
        BY <1>14, <1>17, <2>1, <2>2, <2>5, <3>1, <3>4, <4>1 DEF Base
    <3> QED
      BY <3>8, <3>9 DEF Good
  <2> QED
    BY <2>6, <2>7
<1>22. ASSUME DialogTrans(s), NEW m \in Clients \ {c}, IsMain(m), m \in s.mapped
       PROVE  m \in r.mapped
  <2>1. DialogTrans(s0) /\ s.top \in Managed(s0) \union {None}
    BY <1>0, <1>3, <1>4, <1>22 DEF DialogTrans
  <2>2. Shown(s0, back)
    BY <1>5, <2>1, ActivateShown DEF back
  <2> QED
    BY <1>3, <1>14, <1>17, <1>22, <2>2 DEF Shown, mapped
<1> QED
  BY <1>1, <1>20, <1>21, <1>22 DEF Keeps

LEMMA DestroyKeeps ==
  ASSUME NEW s, WmOK(s), Acyclic(s.trans), ~s.hung, NEW c \in Managed(s)
  PROVE  Keeps(s, Destroy(Loop, s, c))
<1>0. c \in Clients /\ c # None
  BY WmFields
<1>1. CASE Type[c] = "app"
  <2>1. Destroy(Loop, s, c) = Forget(MainUnmap(Loop, s, c), c)
    BY <1>1 DEF Destroy
  <2> QED
    BY <1>1, <2>1, AppDestroyKeeps
<1>2. CASE Type[c] = "dialog"
  <2>1. Destroy(Loop, s, c) = DialogDestroy(Loop, s, c)
    BY <1>2 DEF Destroy
  <2> QED
    BY <1>2, <2>1, DialogDestroyKeeps DEF IsDialog
<1>3. CASE Type[c] = "desktop"
  <2>1. Destroy(Loop, s, c) = DesktopDestroy(Loop, s, c)
    BY <1>3 DEF Destroy
  <2> QED
    BY <1>3, <2>1, DesktopDestroyKeeps
<1>4. CASE Type[c] = "panel"
  <2>1. Destroy(Loop, s, c) = Forget(s, c)
    BY <1>4 DEF Destroy
  <2>2. s.top # c /\ s.desktop # c
    BY <1>0, <1>4, WmFields
  <2> QED
    BY <2>1, <2>2, ForgetKeeps
<1> QED
  BY <1>0, <1>1, <1>2, <1>3, <1>4, WmAssumption

-----------------------------------------------------------------------------
(* The handlers.                                                           *)

Idle(s) == WmInv(s) /\ ~s.hung

LEMMA IdleFacts ==
  ASSUME NEW s, Idle(s)
  PROVE  WmInv(s) /\ WmOK(s) /\ s \in WmState /\ Acyclic(s.trans) /\ ~s.hung
BY DEF Idle, WmInv, WmOK

LEMMA NewClientGood ==
  ASSUME NEW s, Idle(s), Good(s), OneDesktop, NEW c \in Clients \ Managed(s), NEW hint
  PROVE  Good(NewClient(s, c, hint))
<1> DEFINE t == NewClient(s, c, hint)
<1>1. /\ WmOK(t) /\ Managed(t) = Managed(s) \union {c} /\ InOrder(s.order, t.order, {})
      /\ t.top = s.top /\ t.raised = s.raised
      /\ t.desktop = (IF Type[c] = "desktop" THEN c ELSE s.desktop)
      /\ t.mapped = s.mapped /\ t.newForDesktop = s.newForDesktop
      /\ t.quiet \subseteq s.quiet \union StartQuiet
      /\ DialogTrans(s) => DialogTrans(t)
  BY IdleFacts, NewClientFact
<1>2. /\ s.mapped \subseteq Managed(s) /\ Managed(s) \subseteq Clients /\ s.raised \in BOOLEAN
      /\ s.top # None => s.top \in Managed(s)
      /\ s.desktop # None => s.desktop \in Managed(s)
  BY IdleFacts, WmFields
<1> HIDE DEF t
<1>3. Base(s) /\ Foreground(s)
  BY DEF Good
<1>4. Type[c] = "desktop" => s.desktop = None /\ \A d \in Managed(s) : Type[d] # "desktop"
  <2>1. Type[c] = "desktop" => \A d \in Managed(s) : Type[d] # "desktop"
    BY <1>2 DEF OneDesktop
  <2>2. s.desktop # None => Type[s.desktop] = "desktop"
    BY IdleFacts, WmFields
  <2> QED
    BY <1>2, <2>1, <2>2
<1>5. Base(t)
  <2>1. DialogTrans(t) /\ t.quiet \subseteq StartQuiet
    BY <1>1, <1>3 DEF Base
  <2>2. ASSUME NEW d \in Managed(t), Type[d] = "desktop" PROVE d = t.desktop
    BY <1>1, <1>3, <1>4, <2>2 DEF Base
  <2>3. \A a \in t.newForDesktop : Type[a] = "app"
    BY <1>1, <1>3 DEF Base
  <2> QED
    BY <2>1, <2>2, <2>3 DEF Base
<1>6. \A T : Mapped(t, T) = Mapped(s, T)
  BY <1>1, <1>2 DEF Mapped
<1>7. \A x \in Managed(s) : OnTop(s, x) => OnTop(t, x)
  <2> SUFFICES ASSUME NEW x \in Managed(s), OnTop(s, x),
                      NEW m \in Mapped(s, {"app", "desktop"})
               PROVE  Place(t.order, m) <= Place(t.order, x)
    BY <1>6 DEF OnTop
  <2>1. m \in Members(s.order) \ {} /\ x \in Members(s.order) \ {}
    BY DEF Mapped, Managed
  <2>2. Place(s.order, m) <= Place(s.order, x)
    BY DEF OnTop
  <2> QED
    BY <1>1, <2>1, <2>2 DEF InOrder
<1>8. s.raised => t.desktop = s.desktop
  BY <1>1, <1>3, <1>4 DEF Foreground
<1>9. /\ t.top # None => t.top \in t.mapped
      /\ t.top = None => Mapped(t, {"app"}) = {}
      /\ t.raised => t.desktop # None /\ t.desktop \in t.mapped
      /\ ~t.raised /\ t.top = None => Mapped(t, {"app", "desktop"}) = {}
  BY <1>1, <1>3, <1>6, <1>8 DEF Foreground
<1>10. t.raised => OnTop(t, t.desktop)
  BY <1>1, <1>2, <1>3, <1>7, <1>8 DEF Foreground
<1>11. ~t.raised /\ t.top # None =>
        \/ t.top \in StartQuiet /\ (t.desktop = None => t.top \notin t.newForDesktop)
        \/ OnTop(t, t.top)
  <2>1. t.desktop = None => s.desktop = None
    BY <1>1, <1>2, <1>4
  <2> QED
    BY <1>1, <1>2, <1>3, <1>7, <2>1 DEF Foreground
<1>12. Foreground(t)
  BY <1>9, <1>10, <1>11 DEF Foreground
<1> QED
  BY <1>5, <1>12 DEF Good, t

LEMMA MapNewKeeps ==
  ASSUME Idle(wm), NEW c \in Clients, NEW hint, MapNew(Loop, c, hint)
  PROVE  Keeps(wm, wm')
<1> DEFINE new == NewClient(wm, c, hint)
           loop == [new EXCEPT !.hung = TRUE]
           brief == [new EXCEPT !.minimized = @ \ {c}]
<1>1. c \in Clients \ Managed(wm) /\ c # None
  BY StackAssumption DEF MapNew
<1>2. /\ WmOK(new) /\ Managed(new) = Managed(wm) \union {c} /\ new.hung = wm.hung
      /\ new.trans[c] # c => Acyclic(new.trans)
  BY <1>1, IdleFacts, NewClientFact
<1>3. OneDesktop /\ Good(wm) => Good(new)
  BY <1>1, NewClientGood
<1>4. wm' = IF new.trans[c] = c THEN loop
            ELSE IF c \in StartIconic /\ Type[c] = "app" THEN Iconize(Loop, brief, c)
            ELSE Activate(Loop, new, c)
  BY DEF MapNew, Handle
<1> HIDE DEF new
<1>5. new \in WmState /\ new.minimized \subseteq Clients /\ ~new.hung /\ c \in Managed(new)
  BY <1>2, WmFields, IdleFacts DEF WmOK
<1>6. CASE new.trans[c] = c
  <2>1. loop \in WmState
    BY <1>5 DEF WmState
  <2>2. /\ loop.order = new.order /\ loop.top = new.top /\ loop.desktop = new.desktop
        /\ loop.raised = new.raised /\ loop.trans = new.trans
        /\ loop.newForDesktop = new.newForDesktop /\ loop.quiet = new.quiet
        /\ loop.mapped = new.mapped /\ loop.hung
    BY <1>5 DEF WmState
  <2>3. wm' = loop
    BY <1>4, <1>6
  <2> HIDE DEF loop
  <2>4. Steady(new, loop)
    BY <1>2, <2>1, <2>2, EditSteady, WmFields
  <2>5. Good(new) => Good(loop)
    BY <1>2, <2>4, SteadyGood
  <2>6. WmOK(loop)
    BY <2>4 DEF Steady, Kept
  <2> QED
    BY <1>3, <2>2, <2>3, <2>5, <2>6 DEF Keeps, WmInv
<1>7. CASE new.trans[c] # c /\ c \in StartIconic /\ Type[c] = "app"
  <2>1. brief \in WmState
    BY <1>5 DEF WmState
  <2>2. /\ brief.order = new.order /\ brief.top = new.top /\ brief.desktop = new.desktop
        /\ brief.raised = new.raised /\ brief.trans = new.trans
        /\ brief.newForDesktop = new.newForDesktop /\ brief.quiet = new.quiet
        /\ brief.mapped = new.mapped /\ brief.hung = new.hung
    BY <1>5 DEF WmState
  <2>3. wm' = Iconize(Loop, brief, c)
    BY <1>4, <1>7
  <2> HIDE DEF brief
  <2>4. Steady(new, brief)
    BY <1>2, <2>1, <2>2, EditSteady, WmFields
  <2>5. Good(new) => Good(brief)
    BY <1>2, <2>4, SteadyGood
  <2>6. WmOK(brief) /\ Acyclic(brief.trans) /\ ~brief.hung /\ c \in Managed(brief)
    BY <1>2, <1>5, <1>7, <2>2, <2>4 DEF Steady, Kept
  <2>7. Keeps(brief, Iconize(Loop, brief, c))
    BY <2>6, IconizeKeeps
  <2> QED
    BY <1>3, <2>3, <2>5, <2>7 DEF Keeps
<1>8. CASE new.trans[c] # c /\ ~(c \in StartIconic /\ Type[c] = "app")
  <2>1. wm' = Activate(Loop, new, c)
    BY <1>4, <1>8
  <2>2. Keeps(new, Activate(Loop, new, c))
    BY <1>2, <1>5, <1>8, ActivateKeeps
  <2> QED
    BY <1>3, <2>1, <2>2 DEF Keeps
<1> QED
  BY <1>6, <1>7, <1>8

LEMMA MapAgainKeeps ==
  ASSUME Idle(wm), NEW c, MapAgain(Loop, c)
  PROVE  Keeps(wm, wm')
BY IdleFacts, ActivateKeeps DEF MapAgain, Handle

LEMMA RemoveClientKeeps ==
  ASSUME Idle(wm), NEW c, RemoveClient(Loop, c)
  PROVE  Keeps(wm, wm')
BY IdleFacts, DestroyKeeps DEF RemoveClient, Handle

LEMMA ChangeStateKeeps ==
  ASSUME Idle(wm), NEW c, ChangeState(Loop, c)
  PROVE  Keeps(wm, wm')
BY IdleFacts, IconizeKeeps DEF ChangeState, Handle

LEMMA RestackedActivate ==
  ASSUME NEW s, WmOK(s), Acyclic(s.trans), ~s.hung, NEW S, NEW t, Moved(s, t, S),
         NEW c \in Managed(s), Type[c] = "app", c \in s.mapped
  PROVE  Keeps(s, Activate(Loop, t, c))
<1> DEFINE u == Activate(Loop, t, c)
<1>1. /\ Kept(s, t) /\ WmOK(t) /\ Managed(t) = Managed(s) /\ t.raised = s.raised /\ t.top = s.top
      /\ t.mapped = s.mapped /\ t.quiet = s.quiet /\ t.hung = s.hung
      /\ t.newForDesktop = s.newForDesktop
  BY MovedKept, MovedOK DEF Moved, SameButOrder
<1>2. Kept(t, u)
  BY <1>1, LoopFact, ActivateFact
<1>3. WmInv(u)
  BY <1>1, <1>2, KeptTrans, KeptInv
<1>4. ASSUME Good(s) PROVE Good(u)
  <2>1. Base(t) /\ DialogTrans(t) /\ (t.raised => t.desktop # None)
    BY <1>1, <1>4 DEF Good, Base, Foreground, Kept, DialogTrans
  <2>2. AppActive(t, u, c)
    BY <1>1, <1>4, <2>1, LoopFact, ActivateApp
  <2> HIDE DEF u
  <2> QED
    BY <1>1, <2>1, <2>2, AppActiveGood
<1> QED
  BY <1>3, <1>4 DEF Keeps

LEMMA MappedApps ==
  ASSUME NEW s, WmOK(s), Mapped(s, {"app"}) # {}
  PROVE  /\ Highest(s, Mapped(s, {"app"})) \in Mapped(s, {"app"})
         /\ Lowest(s, Mapped(s, {"app"})) \in Mapped(s, {"app"})
         /\ Mapped(s, {"app"}) \subseteq Managed(s)
<1>1. Mapped(s, {"app"}) \in SUBSET Members(s.order) /\ IsStack(s.order)
  BY WmFields DEF Mapped
<1> QED
  BY <1>1, HighestFact, LowestFact DEF Mapped, Managed

LEMMA NextClientKeeps ==
  ASSUME Idle(wm), NextClient(Loop)
  PROVE  Keeps(wm, wm')
<1> DEFINE apps == Mapped(wm, {"app"})
           c == Lowest(wm, apps)
           t == Restack(wm, c, Highest(wm, apps))
<1>1. apps # {} /\ wm' = Activate(Loop, t, c)
  BY DEF NextClient, Handle
<1>2. c \in apps /\ Highest(wm, apps) \in apps /\ apps \subseteq Managed(wm)
  BY <1>1, IdleFacts, MappedApps
<1>3. c \in Managed(wm) /\ Type[c] = "app" /\ c \in wm.mapped
  BY <1>2 DEF Mapped
<1> HIDE DEF apps, c
<1>4. Moved(wm, t, {c})
  BY <1>2, <1>3, IdleFacts, RestackMoved
<1> QED
  BY <1>1, <1>3, <1>4, IdleFacts, RestackedActivate

LEMMA PrevClientKeeps ==
  ASSUME Idle(wm), PrevClient(Loop)
  PROVE  Keeps(wm, wm')
<1> DEFINE apps == Mapped(wm, {"app"})
           c == Highest(wm, apps)
           t == Restack(wm, c, None)
           d == Highest(t, apps)
<1>1. apps # {} /\ wm' = Activate(Loop, t, d)
  BY DEF PrevClient, Handle
<1>2. c \in apps /\ apps \subseteq Managed(wm)
  BY <1>1, IdleFacts, MappedApps
<1> HIDE DEF c
<1>3. Moved(wm, t, {c})
  BY <1>2, IdleFacts, RestackMoved
<1> HIDE DEF t
<1>4. WmOK(t) /\ Managed(t) = Managed(wm) /\ t.mapped = wm.mapped
  BY <1>3, IdleFacts, MovedOK DEF Moved, SameButOrder
<1>5. Mapped(t, {"app"}) = apps
  BY <1>4 DEF Mapped
<1>6. d \in apps
  BY <1>1, <1>4, <1>5, MappedApps
<1>7. d \in Managed(wm) /\ Type[d] = "app" /\ d \in wm.mapped
  BY <1>6 DEF Mapped
<1> HIDE DEF d
<1> QED
  BY <1>1, <1>3, <1>7, IdleFacts, RestackedActivate

LEMMA ToggleDesktopKeeps ==
  ASSUME Idle(wm), ToggleDesktop(Loop)
  PROVE  Keeps(wm, wm')
<1> DEFINE c == IF wm.raised THEN wm.top ELSE wm.desktop
<1>1. wm' = Activate(Loop, wm, c)
  BY DEF ToggleDesktop, Handle
<1>2. c \in Managed(wm) \union {None}
  BY IdleFacts, WmFields
<1> HIDE DEF c
<1> QED
  BY <1>1, <1>2, IdleFacts, ActivateKeeps

LEMMA NetActiveWindowKeeps ==
  ASSUME Idle(wm), NEW c, NetActiveWindow(Loop, c)
  PROVE  Keeps(wm, wm')
<1> DEFINE r == Root(wm, c)
           first == IF IsDialog(c) /\ r \notin {c, Visible(wm)} THEN Activate(Loop, wm, r) ELSE wm
<1>1. c \in Managed(wm) /\ wm' = Activate(Loop, first, c)
  BY DEF NetActiveWindow, Handle
<1>2. r \in Managed(wm)
  BY <1>1, IdleFacts, RootManaged
<1> HIDE DEF r
<1>3. Kept(wm, first) /\ (Good(wm) => Good(first))
  <2>1. Kept(wm, Activate(Loop, wm, r)) /\ (Good(wm) => Good(Activate(Loop, wm, r)))
    BY <1>2, IdleFacts, LoopFact, ActivateFact, ActivateGood
  <2> QED
    BY <2>1, IdleFacts, KeptSame
<1> HIDE DEF first
<1>4. WmOK(first) /\ Acyclic(first.trans) /\ c \in Managed(first)
  BY <1>1, <1>3, IdleFacts DEF Kept
<1>5. Keeps(first, Activate(Loop, first, c))
  BY <1>4, ActivateKeeps
<1> QED
  BY <1>1, <1>3, <1>5 DEF Keeps

LEMMA NetWmStateAboveKeeps ==
  ASSUME Idle(wm), NEW c, NetWmStateAbove(Loop, c)
  PROVE  Keeps(wm, wm')
<1>1. PICK S \in {wm.above \union {c}, wm.above \ {c}} :
        wm' = Activate(Loop, [wm EXCEPT !.above = S], c)
  BY DEF NetWmStateAbove, Handle
<1>2. c \in Managed(wm) /\ c \in Clients
  BY IdleFacts, WmFields DEF NetWmStateAbove
<1>3. S \in SUBSET Clients
  BY <1>2, IdleFacts, WmFields
<1> DEFINE t == [wm EXCEPT !.above = S]
<1>4. t \in WmState
  BY <1>3, IdleFacts DEF WmState
<1>5. /\ t.order = wm.order /\ t.top = wm.top /\ t.desktop = wm.desktop /\ t.raised = wm.raised
      /\ t.trans = wm.trans /\ t.newForDesktop = wm.newForDesktop /\ t.quiet = wm.quiet
      /\ t.mapped = wm.mapped
  BY IdleFacts DEF WmState
<1> HIDE DEF t
<1>6. Steady(wm, t)
  BY <1>4, <1>5, IdleFacts, EditSteady, WmFields
<1> QED
  BY <1>1, <1>2, <1>6, IdleFacts, SteadyActivateKeeps DEF t

LEMMA ToggleFullscreenKeeps ==
  ASSUME Idle(wm), NEW c, ToggleFullscreen(Loop, c)
  PROVE  Keeps(wm, wm')
<1> DEFINE S == IF c \in wm.full THEN wm.full \ {c} ELSE wm.full \union {c}
           t == [wm EXCEPT !.full = S]
<1>1. wm' = Activate(Loop, t, c)
  <2>1. wm' = Activate(Loop, [wm EXCEPT !.full = IF c \in @ THEN @ \ {c} ELSE @ \union {c}], c)
    BY DEF ToggleFullscreen, Handle
  <2>2. t = [wm EXCEPT !.full = IF c \in @ THEN @ \ {c} ELSE @ \union {c}]
    BY IdleFacts DEF WmState
  <2> QED
    BY <2>1, <2>2
<1>2. c \in Managed(wm) /\ c \in Clients
  BY IdleFacts, WmFields DEF ToggleFullscreen
<1>3. S \in SUBSET Clients
  BY <1>2, IdleFacts, WmFields
<1> HIDE DEF S
<1>4. t \in WmState
  BY <1>3, IdleFacts DEF WmState
<1>5. /\ t.order = wm.order /\ t.top = wm.top /\ t.desktop = wm.desktop /\ t.raised = wm.raised
      /\ t.trans = wm.trans /\ t.newForDesktop = wm.newForDesktop /\ t.quiet = wm.quiet
      /\ t.mapped = wm.mapped
  BY IdleFacts DEF WmState
<1> HIDE DEF t
<1>6. Steady(wm, t)
  BY <1>4, <1>5, IdleFacts, EditSteady, WmFields
<1> QED
  BY <1>1, <1>2, <1>6, IdleFacts, SteadyActivateKeeps

(* A client that is transient for nothing any more *)
LEMMA AcyclicNone ==
  ASSUME NEW tr, Acyclic(tr), NEW c \in Clients, NEW r, r[c] = None,
         \A p \in Clients \ {c} : r[p] = tr[p]
  PROVE  Acyclic(r)
<1> SUFFICES ASSUME NEW S \in SUBSET Clients, S # {}, \A p \in S : r[p] \in S
             PROVE  FALSE
  BY DEF Acyclic
<1>1. c \notin S
  BY StackAssumption
<1>2. \A p \in S : tr[p] \in S
  BY <1>1
<1> QED
  BY <1>2 DEF Acyclic

LEMMA TransientForChangeKeeps ==
  ASSUME Idle(wm), NEW c \in Clients, NEW hint, TransientForChange(c, hint)
  PROVE  Keeps(wm, wm')
<1> DEFINE b == IF hint \in Managed(wm) /\ c \notin {hint} \union Ancestors(wm, hint) THEN hint ELSE None
           t == [wm EXCEPT !.trans[c] = b]
<1>1. wm' = t /\ c \in Retarget
  BY DEF TransientForChange, Handle
<1>2. b # None => c \notin Line(wm, b, Clients) /\ b \in Managed(wm)
  BY DEF Ancestors
<1>3. b \in Managed(wm) \union {None} /\ b \in Pointer
  BY IdleFacts, WmFields DEF Pointer
<1> HIDE DEF b
<1>4. wm \in WmState /\ wm.trans \in [Clients -> Pointer]
      /\ \A p \in Clients : wm.trans[p] \in Managed(wm) \union {None}
  BY IdleFacts, WmFields
<1>5. t \in WmState
  <2> DEFINE tr == [wm.trans EXCEPT ![c] = b]
  <2>1. tr \in [Clients -> Pointer]
    BY <1>3, <1>4
  <2>2. t = [wm EXCEPT !.trans = tr]
    BY <1>4 DEF WmState
  <2> HIDE DEF tr
  <2> QED
    BY <1>4, <2>1, <2>2 DEF WmState
<1>6. /\ t.order = wm.order /\ t.top = wm.top /\ t.desktop = wm.desktop /\ t.raised = wm.raised
      /\ t.newForDesktop = wm.newForDesktop /\ t.quiet = wm.quiet /\ t.mapped = wm.mapped
      /\ t.trans = [wm.trans EXCEPT ![c] = b]
  BY <1>4 DEF WmState
<1> HIDE DEF t
<1>7. t.trans[c] = b /\ \A p \in Clients \ {c} : t.trans[p] = wm.trans[p]
  BY <1>4, <1>6
<1>8. Managed(t) = Managed(wm)
  BY <1>6 DEF Managed
<1>9. WmOK(t)
  <2>1. \A p \in Clients : t.trans[p] \in Managed(t) \union {None}
    BY <1>3, <1>4, <1>7, <1>8
  <2>2. Sound(wm)
    BY IdleFacts DEF WmOK
  <2> QED
    BY <1>5, <1>6, <1>8, <2>1, <2>2 DEF WmOK, Sound
<1>10. Acyclic(t.trans)
  <2>1. CASE b = None
    BY <1>7, <2>1, IdleFacts, AcyclicNone
  <2>2. CASE b # None
    <3>1. b \in Clients
      BY <1>2, <2>2, IdleFacts, WmFields
    <3> QED
      BY <1>2, <1>7, <2>2, <3>1, IdleFacts, AcyclicChange
  <2> QED
    BY <2>1, <2>2
<1>11. ASSUME DialogsRetarget, Good(wm) PROVE Good(t)
  <2>1. DialogTrans(t)
    BY <1>1, <1>7, <1>11 DEF DialogTrans, DialogsRetarget, Good, Base
  <2>2. Base(t)
    BY <1>6, <1>8, <1>11, <2>1 DEF Good, Base
  <2>3. \A T : Mapped(t, T) = Mapped(wm, T)
    BY <1>6, <1>8 DEF Mapped
  <2>4. \A x : OnTop(wm, x) => OnTop(t, x)
    BY <1>6, <2>3 DEF OnTop
  <2>5. Foreground(t)
    BY <1>6, <1>11, <2>3, <2>4 DEF Good, Foreground
  <2> QED
    BY <2>2, <2>5 DEF Good
<1> QED
  BY <1>1, <1>9, <1>10, <1>11 DEF Keeps, WmInv

LEMMA ButtonPressKeeps ==
  ASSUME Idle(wm), NEW c, ButtonPress(Loop, c)
  PROVE  Keeps(wm, wm')
<1> DEFINE focused == SetFocus(wm, c)
           t == [focused EXCEPT !.next[c] = None]
<1>1. /\ c \in Managed(wm)
      /\ wm' = IF IsDialog(c) THEN (IF c = wm.focus THEN wm ELSE Activate(Loop, wm, c))
               ELSE IF IsMain(c) THEN t ELSE focused
  BY DEF ButtonPress, Handle
<1>2. c \in Clients /\ c \in Pointer /\ None \in Pointer
  BY <1>1, IdleFacts, WmFields DEF Pointer
<1>3. Steady(wm, focused)
  BY <1>2, IdleFacts, SetFocusSteady
<1> HIDE DEF focused
<1>4. WmOK(focused) /\ focused \in WmState /\ focused.next \in [Clients -> Pointer]
  BY <1>3, WmFields DEF Steady, Kept, WmOK
<1>5. t \in WmState
  BY <1>2, <1>4 DEF WmState
<1>6. /\ t.order = focused.order /\ t.top = focused.top /\ t.desktop = focused.desktop
      /\ t.raised = focused.raised /\ t.trans = focused.trans
      /\ t.newForDesktop = focused.newForDesktop /\ t.quiet = focused.quiet
      /\ t.mapped = focused.mapped
  BY <1>4 DEF WmState
<1> HIDE DEF t
<1>7. Steady(focused, t)
  BY <1>4, <1>5, <1>6, EditSteady, WmFields
<1>8. Steady(wm, t)
  BY <1>3, <1>7, SteadyTrans
<1>9. Keeps(wm, t) /\ Keeps(wm, focused) /\ Keeps(wm, wm) /\ Keeps(wm, Activate(Loop, wm, c))
  BY <1>1, <1>3, <1>8, IdleFacts, SteadyKeepsAll, KeptSame, ActivateKeeps
<1> QED
  BY <1>1, <1>9

-----------------------------------------------------------------------------
(* The invariant that every handler keeps.                                 *)

WmIInv == WmInv(wm) /\ (OneDesktop /\ DialogsRetarget => Good(wm))

LEMMA KeepsInv ==
  ASSUME WmIInv, Keeps(wm, wm')
  PROVE  WmIInv'
BY DEF WmIInv, Keeps

LEMMA WmInitInv ==
  ASSUME WmInit
  PROVE  WmIInv
<1>1. wm \in WmState
  BY DEF WmInit, WmState, Pointer
<1>2. /\ wm.order = <<>> /\ wm.top = None /\ wm.desktop = None /\ ~wm.raised /\ wm.mapped = {}
      /\ wm.quiet = {} /\ wm.newForDesktop = {} /\ wm.trans = [c \in Clients |-> None]
  BY DEF WmInit
<1>3. Managed(wm) = {} /\ Distinct(wm.order)
  BY <1>2 DEF Managed, Members, Distinct
<1>4. Sound(wm)
  BY <1>2, <1>3 DEF Sound
<1>5. Acyclic(wm.trans)
  BY <1>2, StackAssumption DEF Acyclic
<1>6. Good(wm)
  BY <1>2, <1>3 DEF Good, Base, Foreground, DialogTrans, Mapped
<1> QED
  BY <1>1, <1>4, <1>5, <1>6 DEF WmIInv, WmInv, WmOK

LEMMA WmNextInv ==
  ASSUME WmIInv, [WmNext]_wm
  PROVE  WmIInv'
<1>1. CASE UNCHANGED wm
  BY <1>1 DEF WmIInv
<1>2. Intact(wm) => Idle(wm)
  BY DEF Intact, Idle, WmIInv
<1>3. ASSUME NEW c \in Clients, NEW hint \in Hints[c] \ {c}, MapNew(Loop, c, hint)
      PROVE  WmIInv'
  <2>1. Idle(wm)
    BY <1>2, <1>3 DEF MapNew, Handle
  <2> QED
    BY <1>3, <2>1, MapNewKeeps, KeepsInv
<1>4. ASSUME NEW c \in Clients, NEW hint \in Hints[c] \ {c}, TransientForChange(c, hint)
      PROVE  WmIInv'
  <2>1. Idle(wm)
    BY <1>2, <1>4 DEF TransientForChange, Handle
  <2> QED
    BY <1>4, <2>1, TransientForChangeKeeps, KeepsInv
<1>5. ASSUME NEW c \in Clients, MapAgain(Loop, c)
      PROVE  WmIInv'
  <2>1. Idle(wm)
    BY <1>2, <1>5 DEF MapAgain, Handle
  <2> QED
    BY <1>5, <2>1, MapAgainKeeps, KeepsInv
<1>6. ASSUME NEW c \in Clients, RemoveClient(Loop, c)
      PROVE  WmIInv'
  <2>1. Idle(wm)
    BY <1>2, <1>6 DEF RemoveClient, Handle
  <2> QED
    BY <1>6, <2>1, RemoveClientKeeps, KeepsInv
<1>7. ASSUME NEW c \in Clients, ChangeState(Loop, c)
      PROVE  WmIInv'
  <2>1. Idle(wm)
    BY <1>2, <1>7 DEF ChangeState, Handle
  <2> QED
    BY <1>7, <2>1, ChangeStateKeeps, KeepsInv
<1>8. ASSUME NEW c \in Clients, NetActiveWindow(Loop, c)
      PROVE  WmIInv'
  <2>1. Idle(wm)
    BY <1>2, <1>8 DEF NetActiveWindow, Handle
  <2> QED
    BY <1>8, <2>1, NetActiveWindowKeeps, KeepsInv
<1>9. ASSUME NEW c \in Clients, NetWmStateAbove(Loop, c)
      PROVE  WmIInv'
  <2>1. Idle(wm)
    BY <1>2, <1>9 DEF NetWmStateAbove, Handle
  <2> QED
    BY <1>9, <2>1, NetWmStateAboveKeeps, KeepsInv
<1>10. ASSUME NEW c \in Clients, ToggleFullscreen(Loop, c)
       PROVE  WmIInv'
  <2>1. Idle(wm)
    BY <1>2, <1>10 DEF ToggleFullscreen, Handle
  <2> QED
    BY <1>10, <2>1, ToggleFullscreenKeeps, KeepsInv
<1>11. ASSUME NEW c \in Clients, ButtonPress(Loop, c)
       PROVE  WmIInv'
  <2>1. Idle(wm)
    BY <1>2, <1>11 DEF ButtonPress, Handle
  <2> QED
    BY <1>11, <2>1, ButtonPressKeeps, KeepsInv
<1>12. ASSUME NextClient(Loop)
       PROVE  WmIInv'
  <2>1. Idle(wm)
    BY <1>2, <1>12 DEF NextClient, Handle
  <2> QED
    BY <1>12, <2>1, NextClientKeeps, KeepsInv
<1>13. ASSUME PrevClient(Loop)
       PROVE  WmIInv'
  <2>1. Idle(wm)
    BY <1>2, <1>13 DEF PrevClient, Handle
  <2> QED
    BY <1>13, <2>1, PrevClientKeeps, KeepsInv
<1>14. ASSUME ToggleDesktop(Loop)
       PROVE  WmIInv'
  <2>1. Idle(wm)
    BY <1>2, <1>14 DEF ToggleDesktop, Handle
  <2> QED
    BY <1>14, <2>1, ToggleDesktopKeeps, KeepsInv
<1> QED
  BY <1>1, <1>3, <1>4, <1>5, <1>6, <1>7, <1>8, <1>9, <1>10, <1>11, <1>12, <1>13, <1>14 DEF WmNext

LEMMA InvPointers ==
  ASSUME WmIInv
  PROVE  WmTypeOK /\ PointersManaged
<1>1. WmOK(wm) /\ wm \in WmState /\ Distinct(wm.order)
  BY DEF WmIInv, WmInv, WmOK, Sound
<1>2. PointersManaged
  <2>1. \A x \in {wm.top, wm.desktop} : x \in Managed(wm) \union {None}
    BY <1>1, WmFields
  <2>2. \A c \in Managed(wm) : wm.trans[c] \in Managed(wm) \union {None}
    BY <1>1, WmFields
  <2> QED
    BY <2>1, <2>2 DEF PointersManaged
<1> QED
  BY <1>1, <1>2 DEF WmTypeOK

LEMMA InvForeground ==
  ASSUME OneDesktop, DialogsRetarget, WmIInv
  PROVE  ForegroundInv
<1>1. WmOK(wm) /\ Foreground(wm)
  BY DEF WmIInv, WmInv, Good
<1>2. TopIsMapped
  BY <1>1, WmFields DEF TopIsMapped, Foreground, Mapped
<1>3. SomethingVisible
  <2>1. wm.raised \in BOOLEAN
    BY <1>1, WmFields
  <2> QED
    BY <1>1, <2>1 DEF SomethingVisible, Foreground, Visible
<1>4. VisibleOnTop
  <2>1. wm.raised \in BOOLEAN
    BY <1>1, WmFields
  <2> QED
    BY <1>1, <2>1 DEF VisibleOnTop, Foreground, Visible, OnTop
<1> QED
  BY <1>2, <1>3, <1>4, InvPointers DEF ForegroundInv

(* For any windows, whatever they are and are transient for: stack_top_app,  *)
(* client_desktop and what a client is transient for are clients that are    *)
(* managed, though handlers restack clients while they loop over the stack   *)
(* and destroy the ones these pointed to.                                    *)
THEOREM PointersSafe == WmSpec => [](WmTypeOK /\ PointersManaged)
<1>1. WmInit => WmIInv
  BY WmInitInv
<1>2. WmIInv /\ [WmNext]_wm => WmIInv'
  BY WmNextInv
<1>3. WmIInv => WmTypeOK /\ PointersManaged
  BY InvPointers
<1> QED
  BY <1>1, <1>2, <1>3, PTL DEF WmSpec

(* For any windows of which one is the desktop and only dialogs change what  *)
(* they are transient for: the client wm_get_visible_main_client finds is    *)
(* mapped, it is there if any could be, and it is the highest main client,   *)
(* unless it was mapped to stay behind.                                      *)
THEOREM ForegroundSafe ==
  ASSUME OneDesktop, DialogsRetarget
  PROVE  WmSpec => []ForegroundInv
<1>1. WmInit => WmIInv
  BY WmInitInv
<1>2. WmIInv /\ [WmNext]_wm => WmIInv'
  BY WmNextInv
<1>3. WmIInv => ForegroundInv
  BY InvForeground
<1> QED
  BY <1>1, <1>2, <1>3, PTL DEF WmSpec

-----------------------------------------------------------------------------
(* Where one gets when an app goes away.                                   *)

BackStep(s, t) ==
  \A c \in s.newForDesktop :
    c = Visible(s) /\ c \notin t.mapped /\ s.desktop # None => t.raised

LEMMA NewAreApps ==
  ASSUME NEW s, WmOK(s), Good(s), NEW c \in s.newForDesktop
  PROVE  c \in Clients /\ c # None /\ Type[c] = "app" /\ IsMain(c) /\ (c = Visible(s) => c \in s.mapped)
<1>1. c \in Clients /\ c # None
  BY WmFields, StackAssumption
<1>2. Type[c] = "app"
  BY DEF Good, Base
<1> QED
  BY <1>1, <1>2, GoodVisible DEF VisibleMapped, IsMain

LEMMA ShownBack ==
  ASSUME NEW s, WmOK(s), Good(s), NEW t, Shown(s, t)
  PROVE  BackStep(s, t)
BY NewAreApps DEF BackStep, Shown

LEMMA SteadyShown ==
  ASSUME NEW s, NEW t, SameMains(s, t)
  PROVE  Shown(s, t)
BY DEF SameMains, Shown

LEMMA ShownTrans ==
  ASSUME NEW s, NEW t, Shown(s, t), NEW r, Shown(t, r)
  PROVE  Shown(s, r)
BY DEF Shown

(* main_client_unmap shows the desktop after an app that was opened from it, *)
(* and hides no other main client.                                           *)
LEMMA MainUnmapBack ==
  ASSUME NEW s, WmOK(s), Good(s), ~s.hung, NEW c \in Managed(s), Type[c] = "app"
  PROVE  LET u == MainUnmap(Loop, s, c)
         IN /\ \A m \in Clients \ {c} : IsMain(m) /\ m \in s.mapped => m \in u.mapped
            /\ c \in s.newForDesktop /\ c = Visible(s) /\ s.desktop # None => u.raised
<1> DEFINE t == Unmapped(s, c)
           d == Successor(s, c)
           u == Activate(Loop, t, d)
<1>0. MainUnmap(Loop, s, c) = u
  BY LoopFact, MainUnmapFact
<1>1. /\ WmOK(t) /\ Managed(t) = Managed(s) /\ t.trans = s.trans
      /\ t.mapped = s.mapped \ {c} /\ t.hung = s.hung /\ d \in Managed(s) \union {None}
  BY UnmappedFact DEF Kept
<1> HIDE DEF t, d
<1>2. Shown(t, u)
  <2>1. DialogTrans(t)
    BY <1>1, GoodVisible DEF DialogTrans
  <2> QED
    BY <1>1, <2>1, ActivateShown
<1>3. \A m \in Clients \ {c} : IsMain(m) /\ m \in s.mapped => m \in u.mapped
  BY <1>1, <1>2 DEF Shown
<1>4. ASSUME c \in s.newForDesktop, c = Visible(s), s.desktop # None PROVE u.raised
  <2>1. s.desktop \in Managed(s) /\ Type[s.desktop] = "desktop" /\ s.raised \in BOOLEAN
    BY <1>4, WmFields
  <2>2. s.top = c
    BY <1>4, <2>1 DEF Visible
  <2>3. d = s.desktop
    BY <1>4, <2>2 DEF d, Successor, ToDesktop
  <2>4. DesktopActive(t, u, d)
    BY <1>1, <2>1, <2>3, ActivateDesktop
  <2> QED
    BY <2>4 DEF DesktopActive
<1> QED
  BY <1>0, <1>3, <1>4

LEMMA IconizeBack ==
  ASSUME NEW s, WmOK(s), Good(s), ~s.hung, NEW c \in Managed(s)
  PROVE  BackStep(s, Iconize(Loop, s, c))
<1> DEFINE t == Iconize(Loop, s, c)
<1>0. DialogTrans(s) /\ VisibleMapped(s) /\ c \in Clients
  BY GoodVisible, WmFields
<1>1. CASE Type[c] # "app"
  <2>1. Settled(s, t)
    BY <1>0, <1>1, LoopFact, IconizeFact DEF ResultOK
  <2>2. SameMains(s, t)
    BY <2>1 DEF Settled
  <2> QED
    BY <2>2, SteadyShown, ShownBack
<1>2. CASE Type[c] = "app"
  <2> DEFINE s1 == WithDialogsGone(Loop, s, c)
  <2>1. t = UnmapUnlessHung(Loop, s1, c)
    BY <1>2 DEF Iconize, MainIconize, WithDialogsGone
  <2>2. Settled(s, s1)
    BY <1>0, LoopFact, DialogsGone DEF ResultOK
  <2> HIDE DEF s1, t
  <2>3. WmOK(s1) /\ Managed(s1) = Managed(s) /\ Good(s1) /\ SameMains(s, s1) /\ s1.desktop = s.desktop
    BY <2>2, SettledGood DEF Settled, Kept
  <2>4. t = IF s1.hung THEN s1 ELSE MainUnmap(Loop, s1, c)
    BY <2>1 DEF UnmapUnlessHung
  <2>5. CASE s1.hung
    <3>1. t = s1
      BY <2>4, <2>5
    <3> QED
      BY <2>3, <3>1, SteadyShown, ShownBack DEF t
  <2>6. CASE ~s1.hung
    <3>1. t = MainUnmap(Loop, s1, c)
      BY <2>4, <2>6
    <3>2. /\ \A m \in Clients \ {c} : IsMain(m) /\ m \in s1.mapped => m \in t.mapped
          /\ c \in s1.newForDesktop /\ c = Visible(s1) /\ s1.desktop # None => t.raised
      BY <1>2, <2>3, <2>6, <3>1, MainUnmapBack
    <3>3. Visible(s1) = Visible(s) /\ s1.newForDesktop = s.newForDesktop
      BY <2>3 DEF SameMains, Visible
    <3>4. ASSUME NEW m \in s.newForDesktop, m = Visible(s), m \notin t.mapped, s.desktop # None
          PROVE  t.raised
      <4>1. m \in Clients /\ IsMain(m) /\ m \in s.mapped
        BY <3>4, NewAreApps
      <4>2. m \in s1.mapped
        BY <2>3, <4>1 DEF SameMains
      <4>3. m = c
        BY <3>2, <3>4, <4>1, <4>2
      <4> QED
        BY <2>3, <3>2, <3>3, <3>4, <4>3
    <3> QED
      BY <3>4 DEF BackStep, t
  <2> QED
    BY <2>5, <2>6
<1> QED
  BY <1>1, <1>2

LEMMA DestroyBack ==
  ASSUME NEW s, WmOK(s), Acyclic(s.trans), Good(s), ~s.hung, NEW c \in Managed(s)
  PROVE  BackStep(s, Destroy(Loop, s, c))
<1>0. c \in Clients /\ c # None /\ DialogTrans(s)
  BY WmFields, GoodVisible
<1>1. CASE Type[c] = "app"
  <2> DEFINE u == MainUnmap(Loop, s, c)
             t == Forget(u, c)
  <2>1. Destroy(Loop, s, c) = t
    BY <1>1 DEF Destroy
  <2>2. /\ \A m \in Clients \ {c} : IsMain(m) /\ m \in s.mapped => m \in u.mapped
        /\ c \in s.newForDesktop /\ c = Visible(s) /\ s.desktop # None => u.raised
    BY <1>1, MainUnmapBack
  <2>3. Kept(s, u) /\ u.top # c
    BY <1>1, LoopFact, MainUnmapFact
  <2> HIDE DEF u
  <2>4. u \in WmState /\ Sound(u) /\ Acyclic(u.trans) /\ c \in Managed(u)
    BY <2>3 DEF Kept, WmOK
  <2>5. t.raised = u.raised /\ t.mapped = u.mapped \ {c}
    BY <2>3, <2>4, ForgetFact
  <2> HIDE DEF t
  <2>6. ASSUME NEW m \in s.newForDesktop, m = Visible(s), m \notin t.mapped, s.desktop # None
        PROVE  t.raised
    <3>1. m \in Clients /\ IsMain(m) /\ m \in s.mapped
      BY <2>6, NewAreApps
    <3>2. m = c
      BY <2>2, <2>5, <2>6, <3>1
    <3> QED
      BY <2>2, <2>5, <2>6, <3>2
  <2> QED
    BY <2>1, <2>6 DEF BackStep
<1>2. CASE Type[c] = "dialog"
  <2>1. Destroy(Loop, s, c) = DialogDestroy(Loop, s, c)
    BY <1>2 DEF Destroy
  <2> QED
    BY <1>0, <1>2, <2>1, DialogDestroyKeeps, ShownBack DEF IsDialog
<1>3. CASE Type[c] = "desktop"
  <2> DEFINE t == DesktopDestroy(Loop, s, c)
  <2>1. Destroy(Loop, s, c) = t
    BY <1>3 DEF Destroy
  <2>2. \A m \in Clients \ {c} : IsMain(m) /\ m \in s.mapped => m \in t.mapped
    BY <1>0, <1>3, DesktopDestroyKeeps
  <2> HIDE DEF t
  <2>3. ASSUME NEW m \in s.newForDesktop, m = Visible(s) PROVE m \in t.mapped
    <3>1. m \in Clients /\ IsMain(m) /\ m \in s.mapped /\ m # c
      BY <1>3, <2>3, NewAreApps
    <3> QED
      BY <2>2, <3>1
  <2> QED
    BY <2>1, <2>3 DEF BackStep
<1>4. CASE Type[c] = "panel"
  <2> DEFINE t == Forget(s, c)
  <2>1. Destroy(Loop, s, c) = t
    BY <1>4 DEF Destroy
  <2>2. s.top # c
    BY <1>0, <1>4, WmFields
  <2>3. t.mapped = s.mapped \ {c}
    BY <2>2, ForgetFact DEF WmOK
  <2>4. Shown(s, t)
    BY <1>4, <2>3 DEF Shown, IsMain
  <2> QED
    BY <2>1, <2>4, ShownBack
<1> QED
  BY <1>0, <1>1, <1>2, <1>3, <1>4, WmAssumption

LEMMA SteadyActivateShown ==
  ASSUME NEW s, WmOK(s), DialogTrans(s), NEW t, Steady(s, t), NEW c \in Managed(s) \union {None}
  PROVE  Shown(s, Activate(Loop, t, c))
<1>1. WmOK(t) /\ DialogTrans(t) /\ c \in Managed(t) \union {None} /\ Shown(s, t)
  BY SteadyShown DEF Steady, Kept, DialogTrans
<1> QED
  BY <1>1, ActivateShown, ShownTrans

LEMMA MovedActivateShown ==
  ASSUME NEW s, WmOK(s), DialogTrans(s), NEW S, NEW t, Moved(s, t, S),
         NEW c \in Managed(s) \union {None}
  PROVE  Shown(s, Activate(Loop, t, c))
<1>1. WmOK(t) /\ Managed(t) = Managed(s)
  BY MovedOK
<1>2. DialogTrans(t) /\ t.mapped = s.mapped
  BY DEF Moved, SameButOrder, DialogTrans
<1>3. Shown(t, Activate(Loop, t, c))
  BY <1>1, <1>2, ActivateShown
<1> QED
  BY <1>2, <1>3 DEF Shown

LEMMA MapNewBack ==
  ASSUME Idle(wm), Good(wm), OneDesktop, NEW c \in Clients, NEW hint, MapNew(Loop, c, hint)
  PROVE  BackStep(wm, wm')
<1> DEFINE new == NewClient(wm, c, hint)
           loop == [new EXCEPT !.hung = TRUE]
           brief == [new EXCEPT !.minimized = @ \ {c}]
<1>1. c \in Clients \ Managed(wm) /\ c # None
  BY StackAssumption DEF MapNew
<1>2. /\ WmOK(new) /\ Managed(new) = Managed(wm) \union {c} /\ new.hung = wm.hung
      /\ new.mapped = wm.mapped /\ new.newForDesktop = wm.newForDesktop /\ new.top = wm.top
      /\ new.raised = wm.raised
      /\ new.desktop = (IF Type[c] = "desktop" THEN c ELSE wm.desktop)
  BY <1>1, IdleFacts, NewClientFact
<1>3. Good(new)
  BY <1>1, NewClientGood
<1>4. wm' = IF new.trans[c] = c THEN loop
            ELSE IF c \in StartIconic /\ Type[c] = "app" THEN Iconize(Loop, brief, c)
            ELSE Activate(Loop, new, c)
  BY DEF MapNew, Handle
<1> HIDE DEF new
<1>5. new \in WmState /\ new.minimized \subseteq Clients /\ ~new.hung /\ c \in Managed(new)
  BY <1>2, WmFields, IdleFacts DEF WmOK
<1>6. Shown(wm, new)
  BY <1>2 DEF Shown
<1>7. CASE new.trans[c] = c
  <2>1. loop.mapped = wm.mapped
    BY <1>2, <1>5 DEF WmState
  <2> QED
    BY <1>4, <1>7, <2>1, IdleFacts, ShownBack DEF Shown
<1>8. CASE new.trans[c] # c /\ c \in StartIconic /\ Type[c] = "app"
  <2>1. brief \in WmState
    BY <1>5 DEF WmState
  <2>2. /\ brief.order = new.order /\ brief.top = new.top /\ brief.desktop = new.desktop
        /\ brief.raised = new.raised /\ brief.trans = new.trans
        /\ brief.newForDesktop = new.newForDesktop /\ brief.quiet = new.quiet
        /\ brief.mapped = new.mapped /\ brief.hung = new.hung
    BY <1>5 DEF WmState
  <2>3. wm' = Iconize(Loop, brief, c)
    BY <1>4, <1>8
  <2> HIDE DEF brief
  <2>4. Steady(new, brief)
    BY <1>2, <2>1, <2>2, EditSteady, WmFields
  <2>5. WmOK(brief) /\ Good(brief) /\ ~brief.hung /\ c \in Managed(brief)
    BY <1>2, <1>3, <1>5, <2>2, <2>4, SteadyGood DEF Steady, Kept
  <2>6. BackStep(brief, wm')
    BY <2>3, <2>5, IconizeBack
  <2>7. Visible(brief) = Visible(wm) /\ brief.desktop = wm.desktop /\ brief.newForDesktop = wm.newForDesktop
    BY <1>2, <1>8, <2>2 DEF Visible
  <2> QED
    BY <2>6, <2>7 DEF BackStep
<1>9. CASE new.trans[c] # c /\ ~(c \in StartIconic /\ Type[c] = "app")
  <2>1. wm' = Activate(Loop, new, c)
    BY <1>4, <1>9
  <2>2. DialogTrans(new)
    BY <1>2, <1>3, GoodVisible
  <2>3. Shown(new, wm')
    BY <1>2, <1>5, <2>1, <2>2, ActivateShown
  <2> QED
    BY <1>6, <2>3, IdleFacts, ShownTrans, ShownBack
<1> QED
  BY <1>7, <1>8, <1>9

(* The other handlers hide no main client, unless they close or iconify it. *)
LEMMA WmNextBack ==
  ASSUME Idle(wm), Good(wm), OneDesktop, WmNext
  PROVE  BackStep(wm, wm')
<1>0. WmOK(wm) /\ wm \in WmState /\ Acyclic(wm.trans) /\ ~wm.hung /\ DialogTrans(wm)
  BY IdleFacts, GoodVisible
<1> SUFFICES ASSUME Shown(wm, wm') => BackStep(wm, wm')
             PROVE  BackStep(wm, wm')
  BY <1>0, ShownBack
<1>1. ASSUME NEW c \in Clients, NEW hint, MapNew(Loop, c, hint)
      PROVE  BackStep(wm, wm')
  BY <1>1, MapNewBack
<1>2. ASSUME NEW c \in Clients, NEW hint, TransientForChange(c, hint)
      PROVE  BackStep(wm, wm')
  <2>1. PICK b : wm' = [wm EXCEPT !.trans[c] = b]
    BY <1>2 DEF TransientForChange, Handle
  <2>2. wm'.mapped = wm.mapped
    BY <1>0, <2>1 DEF WmState
  <2> QED
    BY <2>2 DEF Shown
<1>3. ASSUME NEW c, MapAgain(Loop, c)
      PROVE  BackStep(wm, wm')
  BY <1>0, <1>3, ActivateShown DEF MapAgain, Handle
<1>4. ASSUME NEW c, RemoveClient(Loop, c)
      PROVE  BackStep(wm, wm')
  BY <1>0, <1>4, DestroyBack DEF RemoveClient, Handle
<1>5. ASSUME NEW c, ChangeState(Loop, c)
      PROVE  BackStep(wm, wm')
  BY <1>0, <1>5, IconizeBack DEF ChangeState, Handle
<1>6. ASSUME NEW c, NetActiveWindow(Loop, c)
      PROVE  BackStep(wm, wm')
  <2> DEFINE r == Root(wm, c)
             first == IF IsDialog(c) /\ r \notin {c, Visible(wm)} THEN Activate(Loop, wm, r) ELSE wm
  <2>1. c \in Managed(wm) /\ wm' = Activate(Loop, first, c)
    BY <1>6 DEF NetActiveWindow, Handle
  <2>2. r \in Managed(wm)
    BY <1>0, <2>1, RootManaged
  <2> HIDE DEF r
  <2>3. Kept(wm, first) /\ Shown(wm, first)
    <3>1. Kept(wm, Activate(Loop, wm, r)) /\ Shown(wm, Activate(Loop, wm, r))
      BY <1>0, <2>2, LoopFact, ActivateFact, ActivateShown
    <3>2. Kept(wm, wm) /\ Shown(wm, wm)
      BY <1>0, KeptSame DEF Shown
    <3> QED
      BY <3>1, <3>2
  <2> HIDE DEF first
  <2>4. WmOK(first) /\ DialogTrans(first) /\ c \in Managed(first)
    BY <1>0, <2>1, <2>3 DEF Kept, DialogTrans
  <2>5. Shown(first, wm')
    BY <2>1, <2>4, ActivateShown
  <2> QED
    BY <2>3, <2>5, ShownTrans
<1>7. ASSUME NEW c, NetWmStateAbove(Loop, c)
      PROVE  BackStep(wm, wm')
  <2>1. PICK S \in {wm.above \union {c}, wm.above \ {c}} :
          wm' = Activate(Loop, [wm EXCEPT !.above = S], c)
    BY <1>7 DEF NetWmStateAbove, Handle
  <2>2. c \in Managed(wm) /\ c \in Clients
    BY <1>0, <1>7, WmFields DEF NetWmStateAbove
  <2>3. S \in SUBSET Clients
    BY <1>0, <2>2, WmFields
  <2> DEFINE t == [wm EXCEPT !.above = S]
  <2>4. t \in WmState
    BY <1>0, <2>3 DEF WmState
  <2>5. /\ t.order = wm.order /\ t.top = wm.top /\ t.desktop = wm.desktop /\ t.raised = wm.raised
        /\ t.trans = wm.trans /\ t.newForDesktop = wm.newForDesktop /\ t.quiet = wm.quiet
        /\ t.mapped = wm.mapped
    BY <1>0 DEF WmState
  <2> HIDE DEF t
  <2>6. Steady(wm, t)
    BY <1>0, <2>4, <2>5, EditSteady, WmFields
  <2> QED
    BY <1>0, <2>1, <2>2, <2>6, SteadyActivateShown DEF t
<1>8. ASSUME NEW c, ToggleFullscreen(Loop, c)
      PROVE  BackStep(wm, wm')
  <2> DEFINE S == IF c \in wm.full THEN wm.full \ {c} ELSE wm.full \union {c}
             t == [wm EXCEPT !.full = S]
  <2>1. wm' = Activate(Loop, t, c)
    <3>1. wm' = Activate(Loop, [wm EXCEPT !.full = IF c \in @ THEN @ \ {c} ELSE @ \union {c}], c)
      BY <1>8 DEF ToggleFullscreen, Handle
    <3>2. t = [wm EXCEPT !.full = IF c \in @ THEN @ \ {c} ELSE @ \union {c}]
      BY <1>0 DEF WmState
    <3> QED
      BY <3>1, <3>2
  <2>2. c \in Managed(wm) /\ c \in Clients
    BY <1>0, <1>8, WmFields DEF ToggleFullscreen
  <2>3. S \in SUBSET Clients
    BY <1>0, <2>2, WmFields
  <2> HIDE DEF S
  <2>4. t \in WmState
    BY <1>0, <2>3 DEF WmState
  <2>5. /\ t.order = wm.order /\ t.top = wm.top /\ t.desktop = wm.desktop /\ t.raised = wm.raised
        /\ t.trans = wm.trans /\ t.newForDesktop = wm.newForDesktop /\ t.quiet = wm.quiet
        /\ t.mapped = wm.mapped
    BY <1>0 DEF WmState
  <2> HIDE DEF t
  <2>6. Steady(wm, t)
    BY <1>0, <2>4, <2>5, EditSteady, WmFields
  <2> QED
    BY <1>0, <2>1, <2>2, <2>6, SteadyActivateShown
<1>9. ASSUME NEW c, ButtonPress(Loop, c)
      PROVE  BackStep(wm, wm')
  <2> DEFINE focused == SetFocus(wm, c)
             t == [focused EXCEPT !.next[c] = None]
  <2>1. /\ c \in Managed(wm)
        /\ wm' = IF IsDialog(c) THEN (IF c = wm.focus THEN wm ELSE Activate(Loop, wm, c))
                 ELSE IF IsMain(c) THEN t ELSE focused
    BY <1>9 DEF ButtonPress, Handle
  <2>2. c \in Clients /\ c \in Pointer
    BY <1>0, <2>1, WmFields DEF Pointer
  <2>3. Steady(wm, focused)
    BY <1>0, <2>2, SetFocusSteady
  <2> HIDE DEF focused
  <2>4. focused \in WmState /\ SameMains(wm, focused)
    BY <2>3 DEF Steady, Kept, WmOK
  <2>5. t.mapped = focused.mapped
    BY <2>4 DEF WmState
  <2>6. Shown(wm, focused) /\ Shown(wm, wm)
    BY <2>4, SteadyShown DEF Shown
  <2>7. Shown(wm, t)
    BY <2>5, <2>6 DEF Shown
  <2>8. Shown(wm, Activate(Loop, wm, c))
    BY <1>0, <2>1, ActivateShown
  <2> QED
    BY <2>1, <2>6, <2>7, <2>8
<1>10. ASSUME NextClient(Loop)
       PROVE  BackStep(wm, wm')
  <2> DEFINE apps == Mapped(wm, {"app"})
             c == Lowest(wm, apps)
             t == Restack(wm, c, Highest(wm, apps))
  <2>1. apps # {} /\ wm' = Activate(Loop, t, c)
    BY <1>10 DEF NextClient, Handle
  <2>2. c \in apps /\ Highest(wm, apps) \in apps /\ apps \subseteq Managed(wm)
    BY <1>0, <2>1, MappedApps
  <2> HIDE DEF apps, c
  <2>3. Moved(wm, t, {c})
    BY <1>0, <2>2, RestackMoved
  <2> QED
    BY <1>0, <2>1, <2>2, <2>3, MovedActivateShown
<1>11. ASSUME PrevClient(Loop)
       PROVE  BackStep(wm, wm')
  <2> DEFINE apps == Mapped(wm, {"app"})
             c == Highest(wm, apps)
             t == Restack(wm, c, None)
             d == Highest(t, apps)
  <2>1. apps # {} /\ wm' = Activate(Loop, t, d)
    BY <1>11 DEF PrevClient, Handle
  <2>2. c \in apps /\ apps \subseteq Managed(wm)
    BY <1>0, <2>1, MappedApps
  <2> HIDE DEF c
  <2>3. Moved(wm, t, {c})
    BY <1>0, <2>2, RestackMoved
  <2> HIDE DEF t
  <2>4. WmOK(t) /\ Managed(t) = Managed(wm) /\ t.mapped = wm.mapped
    BY <1>0, <2>3, MovedOK DEF Moved, SameButOrder
  <2>5. Mapped(t, {"app"}) = apps
    BY <2>4 DEF Mapped
  <2>6. d \in Managed(wm)
    BY <2>1, <2>2, <2>4, <2>5, MappedApps
  <2> HIDE DEF d
  <2> QED
    BY <1>0, <2>1, <2>3, <2>6, MovedActivateShown
<1>12. ASSUME ToggleDesktop(Loop)
       PROVE  BackStep(wm, wm')
  <2> DEFINE c == IF wm.raised THEN wm.top ELSE wm.desktop
  <2>1. wm' = Activate(Loop, wm, c)
    BY <1>12 DEF ToggleDesktop, Handle
  <2>2. c \in Managed(wm) \union {None}
    BY <1>0, WmFields
  <2> HIDE DEF c
  <2> QED
    BY <1>0, <2>1, <2>2, ActivateShown
<1> QED
  BY <1>1, <1>2, <1>3, <1>4, <1>5, <1>6, <1>7, <1>8, <1>9, <1>10, <1>11, <1>12 DEF WmNext

(* For any windows of which one is the desktop and only dialogs change what  *)
(* they are transient for: when the app that main_client_show marked as      *)
(* opened from the desktop closes or is minimised while it is visible,       *)
(* main_client_unmap shows the desktop again, whatever other apps are mapped *)
(* and however the dialogs of the app are taken away before.                 *)
THEOREM ComesBackToDesktop ==
  ASSUME OneDesktop, DialogsRetarget
  PROVE  WmSpec => BackToDesktop
<1>1. WmInit => WmIInv
  BY WmInitInv
<1>2. WmIInv /\ [WmNext]_wm => WmIInv'
  BY WmNextInv
<1> DEFINE Back == \A c \in wm.newForDesktop :
                     c = Visible(wm) /\ c \notin wm'.mapped /\ wm.desktop # None => wm'.raised
<1>3. WmIInv /\ [WmNext]_wm => [Back]_wm
  <2> SUFFICES ASSUME WmIInv, WmNext PROVE Back
    OBVIOUS
  <2>1. Intact(wm)
    BY DEF WmNext, MapNew, TransientForChange, MapAgain, RemoveClient, ChangeState, NetActiveWindow,
           NetWmStateAbove, ToggleFullscreen, ButtonPress, NextClient, PrevClient, ToggleDesktop, Handle
  <2>2. Idle(wm) /\ Good(wm)
    BY <2>1 DEF Intact, Idle, WmIInv
  <2> QED
    BY <2>2, WmNextBack DEF BackStep
<1>4. BackToDesktop <=> [][Back]_wm
  BY DEF BackToDesktop
<1> HIDE DEF Back
<1> QED
  BY <1>1, <1>2, <1>3, <1>4, PTL DEF WmSpec

-----------------------------------------------------------------------------
(* Dialogs that belong to no window.                                       *)

(* They never were transient for anything. *)
Rooted == {d \in Clients : IsDialog(d) /\ Hints[d] = {None}}

(* Those of D are above the main clients of M, *)
Topped(s, D, M) ==
  \A d \in Rooted \intersect D, m \in M :
    IsMain(m) => Place(s.order, m) < Place(s.order, d)

(* and urgent ones of D above the dialogs of D that are not. *)
Urged(s, D) ==
  \A d \in Rooted \intersect Urgent \intersect D, e \in D \ Urgent :
    IsDialog(e) => Place(s.order, e) < Place(s.order, d)

Ready(s) == WmOK(s) /\ DialogTrans(s) /\ \A d \in Rooted : s.trans[d] = None
RootOK(s) == Ready(s) /\ Topped(s, s.mapped, s.mapped) /\ Urged(s, s.mapped)

LEMMA KeptReady ==
  ASSUME NEW s, Ready(s), NEW t, Kept(s, t)
  PROVE  Ready(t)
BY DEF Ready, Kept, DialogTrans

LEMMA MovedReady ==
  ASSUME NEW s, Ready(s), NEW S, NEW t, Moved(s, t, S)
  PROVE  Ready(t) /\ Managed(t) = Managed(s) /\ t.mapped = s.mapped
<1>1. Kept(s, t)
  BY MovedKept DEF Ready
<1> QED
  BY <1>1, KeptReady DEF Moved, SameButOrder, Kept

(* Two clients that are not moved stay in their order. *)
LEMMA StrictOrder ==
  ASSUME NEW o, IsStack(o), NEW q, IsStack(q), NEW S, InOrder(o, q, S),
         NEW c \in Members(o) \ S, NEW d \in Members(o) \ S,
         c \in Members(q), d \in Members(q), Place(o, c) < Place(o, d)
  PROVE  Place(q, c) < Place(q, d)
<1>1. Place(o, c) \in Nat /\ Place(o, d) \in Nat /\ Place(q, c) \in Nat /\ Place(q, d) \in Nat
  BY StackMembers
<1>2. Place(q, c) <= Place(q, d)
  BY <1>1 DEF InOrder
<1>3. Place(q, c) # Place(q, d)
  <2>1. q[Place(q, c)] = c /\ q[Place(q, d)] = d
    BY StackMembers
  <2> QED
    BY <1>1, <2>1
<1> QED
  BY <1>1, <1>2, <1>3

(* The clients that go to the top come above all others. *)
LEMMA ToTopFact ==
  ASSUME NEW s, WmOK(s), NEW S, NEW c \in Managed(s) \ S, NEW d \in Managed(s) \intersect S
  PROVE  LET t == SetToTop(s, S) IN Place(t.order, c) < Place(t.order, d)
<1> DEFINE o == s.order
           rest == Others(o, S)
           q == Among(o, S)
           r == Insert(rest, q, Len(rest))
<1>1. IsStack(o) /\ Managed(s) = Members(o)
  BY WmFields
<1>2. /\ IsStack(rest) /\ Members(rest) = Members(o) \ S
      /\ IsStack(q) /\ Members(q) = Members(o) \intersect S
  BY <1>1, AmongStack DEF Others
<1> HIDE DEF rest, q
<1>3. Len(rest) \in Nat /\ Len(q) \in Nat
  BY <1>2, StackMembers
<1>4. IsStack(r)
  BY <1>2, <1>3, InsertAllFact
<1>5. r = [n \in 1 .. Len(rest) + Len(q) |->
             IF n <= Len(rest) THEN rest[n]
             ELSE IF n <= Len(rest) + Len(q) THEN q[n - Len(rest)] ELSE rest[n - Len(q)]]
  BY DEF Insert
<1> HIDE DEF r
<1>6. Len(r) = Len(rest) + Len(q)
  BY <1>3, <1>4, <1>5 DEF IsStack
<1>7. PICK j \in 1 .. Len(rest) : rest[j] = c
  BY <1>1, <1>2 DEF Members
<1>8. PICK k \in 1 .. Len(q) : q[k] = d
  BY <1>1, <1>2 DEF Members
<1>9. j \in 1 .. Len(r) /\ r[j] = c
  BY <1>3, <1>5, <1>6, <1>7
<1>10. Len(rest) + k \in 1 .. Len(r) /\ r[Len(rest) + k] = d
  <2>1. Len(rest) + k \in 1 .. Len(rest) + Len(q) /\ ~(Len(rest) + k <= Len(rest))
        /\ (Len(rest) + k) - Len(rest) = k
    BY <1>3
  <2> QED
    BY <1>3, <1>5, <1>6, <1>8, <2>1
<1>11. Place(r, c) = j /\ Place(r, d) = Len(rest) + k
  BY <1>4, <1>9, <1>10, IndexFact
<1>12. SetToTop(s, S) = [s EXCEPT !.order = r]
  BY DEF SetToTop, r, rest, q
<1>13. SetToTop(s, S).order = r
  BY <1>12 DEF WmOK, WmState
<1> QED
  BY <1>3, <1>11, <1>13

(* What is not moved stays as it is, when no dialog and no main client is. *)
LEMMA ToppedKept ==
  ASSUME NEW s, WmOK(s), NEW S, NEW t, Moved(s, t, S),
         NEW D \in SUBSET Managed(s), NEW M \in SUBSET Managed(s), Topped(s, D, M),
         \A c \in S : ~IsMain(c) /\ c \notin Rooted
  PROVE  Topped(t, D, M)
<1>1. /\ IsStack(s.order) /\ IsStack(t.order) /\ InOrder(s.order, t.order, S)
      /\ Managed(s) = Members(s.order) /\ Members(t.order) = Members(s.order)
  BY WmFields DEF Moved, Rearranged
<1> SUFFICES ASSUME NEW d \in Rooted \intersect D, NEW m \in M, IsMain(m)
             PROVE  Place(t.order, m) < Place(t.order, d)
  BY DEF Topped
<1>2. Place(s.order, m) < Place(s.order, d)
  BY DEF Topped
<1> QED
  BY <1>1, <1>2, StrictOrder

LEMMA UrgedKept ==
  ASSUME NEW s, WmOK(s), NEW S, NEW t, Moved(s, t, S),
         NEW D \in SUBSET Managed(s), Urged(s, D), \A c \in S : ~IsDialog(c)
  PROVE  Urged(t, D)
<1>1. /\ IsStack(s.order) /\ IsStack(t.order) /\ InOrder(s.order, t.order, S)
      /\ Managed(s) = Members(s.order) /\ Members(t.order) = Members(s.order)
  BY WmFields DEF Moved, Rearranged
<1> SUFFICES ASSUME NEW d \in Rooted \intersect Urgent \intersect D, NEW e \in D \ Urgent, IsDialog(e)
             PROVE  Place(t.order, e) < Place(t.order, d)
  BY DEF Urged
<1>2. Place(s.order, e) < Place(s.order, d) /\ IsDialog(d)
  BY DEF Urged, Rooted
<1> QED
  BY <1>1, <1>2, StrictOrder

(* Dialogs that go to the top stay above the main clients. *)
LEMMA ToppedTransients ==
  ASSUME NEW s, WmOK(s), NEW c, NEW F \in SUBSET Clients,
         NEW D \in SUBSET Managed(s), NEW M \in SUBSET Managed(s), Topped(s, D, M)
  PROVE  Topped(TransientsToTop(s, c, F), D, M)
<1> DEFINE S == Transients(s, c, F)
           t == SetToTop(s, S)
<1>1. \A m \in S : ~IsMain(m)
  BY DEF Transients, IsMain
<1> HIDE DEF S
<1>2. /\ IsStack(s.order) /\ IsStack(t.order) /\ InOrder(s.order, t.order, S)
      /\ Managed(s) = Members(s.order) /\ Members(t.order) = Members(s.order)
  BY WmFields, SetToTopMoved DEF Moved, Rearranged
<1>3. ASSUME NEW d \in Rooted \intersect D, NEW m \in M, IsMain(m)
      PROVE  Place(t.order, m) < Place(t.order, d)
  <2>1. m \notin S
    BY <1>1, <1>3
  <2>2. CASE d \in S
    BY <1>3, <2>1, <2>2, ToTopFact
  <2>3. CASE d \notin S
    <3>1. Place(s.order, m) < Place(s.order, d)
      BY <1>3 DEF Topped
    <3> QED
      BY <1>2, <1>3, <2>1, <2>3, <3>1, StrictOrder
  <2> QED
    BY <2>2, <2>3
<1>4. Topped(t, D, M)
  BY <1>3 DEF Topped
<1>5. TransientsToTop(s, c, F) = s \/ TransientsToTop(s, c, F) = t
  BY DEF TransientsToTop, S
<1> QED
  BY <1>4, <1>5

(* A dialog that is transient for nothing has no ancestors. *)
LEMMA RootSelf ==
  ASSUME NEW s, WmOK(s), NEW d \in Clients, s.trans[d] = None
  PROVE  Root(s, d) = d /\ Ancestors(s, d) = {}
<1> DEFINE f == Up(s, Clients)
           T == {d}
<1>1. f[d] = d
  BY DEF Up, Pointer
<1>2. \A x \in T : f[x] \in T
  BY <1>1
<1> HIDE DEF f
<1>3. LastOf(f, d) \in T /\ PathOK(f, d, T, Path(f, d))
  BY <1>2, LastFact, PathFact
<1>4. Line(s, d, Clients) = {d}
  <2>1. \A n \in 0 .. Cardinality(Clients) : Path(f, d)[n] = d
    BY <1>3 DEF PathOK, ClientCount
  <2>2. 0 \in 0 .. Cardinality(Clients)
    BY CountFact DEF ClientCount
  <2> QED
    BY <2>1, <2>2 DEF Line, f
<1> QED
  BY <1>3, <1>4 DEF Root, Ancestors, f

(* Those that belong to no window come above all main clients, *)
LEMMA RootsToTop ==
  ASSUME NEW s, Ready(s)
  PROVE  LET t == TransientsToTop(s, None, Clients) IN Topped(t, Managed(s), Managed(s))
<1> DEFINE S == Transients(s, None, Clients)
           t == SetToTop(s, S)
<1>1. \A d \in Rooted : d \in S
  <2> SUFFICES ASSUME NEW d \in Rooted PROVE d \in S
    OBVIOUS
  <2>1. d \in Clients /\ IsDialog(d) /\ s.trans[d] = None
    BY DEF Rooted, Ready
  <2>2. Root(s, d) = d
    BY <2>1, RootSelf DEF Ready
  <2>3. d # None
    BY <2>1, StackAssumption
  <2> QED
    BY <2>1, <2>2, <2>3 DEF Transients, TransientFor, IsDialog
<1>2. \A m \in Clients : IsMain(m) => m \notin S
  BY DEF Transients, IsMain
<1> HIDE DEF S
<1>3. ASSUME NEW d \in Rooted \intersect Managed(s), NEW m \in Managed(s), IsMain(m)
      PROVE  Place(t.order, m) < Place(t.order, d)
  <2>1. m \in Managed(s) \ S /\ d \in Managed(s) \intersect S
    BY <1>1, <1>2, <1>3, WmFields DEF Ready
  <2> QED
    BY <2>1, ToTopFact DEF Ready
<1>4. Topped(t, Managed(s), Managed(s))
  BY <1>3 DEF Topped
<1>5. CASE Clients = {}
  BY <1>5 DEF Topped, Rooted
<1>6. CASE Clients # {}
  <2>1. TransientsToTop(s, None, Clients) = t
    BY <1>6 DEF TransientsToTop, S
  <2> QED
    BY <1>4, <2>1
<1> QED
  BY <1>5, <1>6

(* and the urgent ones above all dialogs that are not. *)
LEMMA UrgentToTop ==
  ASSUME NEW s, Ready(s)
  PROVE  LET t == TransientsToTop(s, None, Urgent) IN Urged(t, Managed(s))
<1> DEFINE S == Transients(s, None, Urgent)
           t == SetToTop(s, S)
<1>1. \A d \in Rooted \intersect Urgent : d \in S
  <2> SUFFICES ASSUME NEW d \in Rooted \intersect Urgent PROVE d \in S
    OBVIOUS
  <2>1. d \in Clients /\ IsDialog(d) /\ s.trans[d] = None
    BY DEF Rooted, Ready
  <2>2. Root(s, d) = d
    BY <2>1, RootSelf DEF Ready
  <2>3. d # None
    BY <2>1, StackAssumption
  <2> QED
    BY <2>1, <2>2, <2>3 DEF Transients, TransientFor, IsDialog
<1>2. S \subseteq Urgent
  BY DEF Transients
<1> HIDE DEF S
<1>3. ASSUME NEW d \in Rooted \intersect Urgent \intersect Managed(s), NEW e \in Managed(s) \ Urgent
      PROVE  Place(t.order, e) < Place(t.order, d)
  <2>1. e \in Managed(s) \ S /\ d \in Managed(s) \intersect S
    BY <1>1, <1>2, <1>3
  <2> QED
    BY <2>1, ToTopFact DEF Ready
<1>4. Urged(t, Managed(s))
  BY <1>3 DEF Urged
<1>5. CASE Urgent = {}
  BY <1>5 DEF Urged
<1>6. CASE Urgent # {}
  <2>1. TransientsToTop(s, None, Urgent) = t
    BY <1>6 DEF TransientsToTop, S
  <2> QED
    BY <1>4, <2>1
<1> QED
  BY <1>5, <1>6

-----------------------------------------------------------------------------
(* Steps that do not touch the stack.                                      *)

SameStack(s, t) == t.order = s.order /\ t.mapped = s.mapped

LEMMA SetFocusStack ==
  ASSUME NEW s, WmOK(s), NEW c
  PROVE  SameStack(s, SetFocus(s, c))
<1> DEFINE old == s.focus
           b == old # None /\ (\/ Root(s, old) = Root(s, c)
                               \/ IsDialog(old) /\ IsDialog(c) /\ s.trans[c] = None)
           t == [s EXCEPT !.focus = c, !.next[c] = IF b THEN old ELSE @]
<1>1. SetFocus(s, c) = s \/ SetFocus(s, c) = t
  BY DEF SetFocus
<1>2. s \in WmState
  BY DEF WmOK
<1> HIDE DEF b, old
<1>3. t.order = s.order /\ t.mapped = s.mapped
  BY <1>2 DEF WmState
<1> QED
  BY <1>1, <1>3 DEF SameStack

LEMMA MainHideStack ==
  ASSUME NEW s, WmOK(s), NEW c
  PROVE  SameStack(s, MainHide(s, c))
<1> DEFINE t1 == [s EXCEPT !.next[c] = s.focus]
           t2 == [s EXCEPT !.next[c] = None, !.focus = IF @ = c THEN None ELSE @]
<1>1. MainHide(s, c) = t1 \/ MainHide(s, c) = t2
  BY DEF MainHide
<1>2. s \in WmState
  BY DEF WmOK
<1>3. t1.order = s.order /\ t1.mapped = s.mapped /\ t2.order = s.order /\ t2.mapped = s.mapped
  BY <1>2 DEF WmState
<1> HIDE DEF t1, t2
<1> QED
  BY <1>1, <1>3 DEF SameStack

LEMMA MakeVisibleStack ==
  ASSUME NEW s, WmOK(s), NEW c
  PROVE  SameStack(s, MakeVisible(s, c))
<1> DEFINE t1 == [s EXCEPT !.raised = FALSE, !.top = c]
           t2 == [s EXCEPT !.raised = TRUE]
<1>1. MakeVisible(s, c) = t1 \/ MakeVisible(s, c) = t2
  BY DEF MakeVisible
<1>2. s \in WmState
  BY DEF WmOK
<1>3. t1.order = s.order /\ t1.mapped = s.mapped /\ t2.order = s.order /\ t2.mapped = s.mapped
  BY <1>2 DEF WmState
<1> HIDE DEF t1, t2
<1> QED
  BY <1>1, <1>3 DEF SameStack

LEMMA PassFocusStack ==
  ASSUME NEW s, WmOK(s), NEW c
  PROVE  SameStack(s, PassFocus(s, c))
<1> DEFINE s1 == [s EXCEPT !.focus = None]
           d == IF s.next[c] = c THEN None ELSE s.next[c]
<1>1. PassFocus(s, c) = IF s.focus # c THEN s ELSE SetFocus(s1, d)
  BY DEF PassFocus
<1>2. s \in WmState /\ None \in Pointer
  BY WmFields DEF WmOK, Pointer
<1>3. s1 \in WmState
  BY <1>2 DEF WmState
<1>4. /\ s1.order = s.order /\ s1.top = s.top /\ s1.desktop = s.desktop /\ s1.raised = s.raised
      /\ s1.trans = s.trans /\ s1.newForDesktop = s.newForDesktop /\ s1.quiet = s.quiet
      /\ s1.mapped = s.mapped
  BY <1>2 DEF WmState
<1> HIDE DEF s1, d
<1>5. Steady(s, s1)
  BY <1>3, <1>4, EditSteady, WmFields
<1>6. SameStack(s1, SetFocus(s1, d))
  BY <1>5, SetFocusStack DEF Steady, Kept
<1> QED
  BY <1>1, <1>4, <1>6 DEF SameStack

(* The order of the stack is all that counts, and what is unmapped needs   *)
(* no place in it.                                                         *)
LEMMA SameRoot ==
  ASSUME NEW s, RootOK(s), NEW t, Kept(s, t), t.order = s.order, t.mapped \subseteq s.mapped
  PROVE  RootOK(t)
<1>1. Ready(t)
  BY KeptReady DEF RootOK
<1>2. Topped(t, t.mapped, t.mapped) /\ Urged(t, t.mapped)
  BY DEF RootOK, Topped, Urged
<1> QED
  BY <1>1, <1>2 DEF RootOK

LEMMA AllRoot ==
  ASSUME NEW s, Ready(s), Topped(s, Managed(s), Managed(s)), Urged(s, Managed(s))
  PROVE  RootOK(s)
<1>1. s.mapped \subseteq Managed(s)
  BY WmFields DEF Ready
<1> QED
  BY <1>1 DEF RootOK, Topped, Urged

-----------------------------------------------------------------------------
(* Moves that bring the dialogs up.                                        *)

LEMMA StackDialogsRoot ==
  ASSUME NEW s, Ready(s), NEW c, c # None
  PROVE  RootOK(StackDialogs(s, c))
<1> DEFINE s1 == TransientsToTop(s, c, Clients)
           s2 == TransientsToTop(s1, c, s.above)
           s3 == TransientsToTop(s2, None, Clients)
           s4 == TransientsToTop(s3, None, s.above)
           t == TransientsToTop(s4, None, Urgent)
           N == Managed(s)
<1>1. s.above \in SUBSET Clients /\ Urgent \in SUBSET Clients
  BY WmFields, WmAssumption DEF Ready
<1>4. StackDialogs(s, c) = t
  BY DEF StackDialogs
<1>5. Ready(s1) /\ Managed(s1) = N
  BY TransientsToTopMoved, MovedReady DEF Ready
<1> HIDE DEF s1
<1>6. Ready(s2) /\ Managed(s2) = N
  BY <1>1, <1>5, TransientsToTopMoved, MovedReady DEF Ready
<1> HIDE DEF s2
<1>7. Ready(s3) /\ Managed(s3) = N
  BY <1>6, TransientsToTopMoved, MovedReady DEF Ready
<1>8. Topped(s3, N, N)
  BY <1>6, RootsToTop
<1> HIDE DEF s3
<1>9. Ready(s4) /\ Managed(s4) = N
  BY <1>1, <1>7, TransientsToTopMoved, MovedReady DEF Ready
<1>10. Topped(s4, N, N)
  BY <1>1, <1>7, <1>8, ToppedTransients DEF Ready
<1> HIDE DEF s4
<1>11. Ready(t) /\ Managed(t) = N
  BY <1>1, <1>9, TransientsToTopMoved, MovedReady DEF Ready
<1>12. Topped(t, N, N) /\ Urged(t, N)
  BY <1>1, <1>9, <1>10, ToppedTransients, UrgentToTop DEF Ready
<1> QED
  BY <1>4, <1>11, <1>12, AllRoot

(* Panels that move do not matter. *)
LEMMA PanelsRoot ==
  ASSUME NEW s, RootOK(s), NEW S, \A c \in S : ~IsMain(c) /\ ~IsDialog(c), NEW t, Moved(s, t, S)
  PROVE  RootOK(t)
<1>1. WmOK(s) /\ Ready(s) /\ s.mapped \in SUBSET Managed(s)
  BY WmFields DEF RootOK, Ready
<1>2. Ready(t) /\ t.mapped = s.mapped
  BY <1>1, MovedReady
<1>3. \A c \in S : c \notin Rooted
  BY DEF Rooted
<1>4. Topped(t, s.mapped, s.mapped)
  BY <1>1, <1>3, ToppedKept DEF RootOK
<1>5. Urged(t, s.mapped)
  BY <1>1, UrgedKept DEF RootOK
<1> QED
  BY <1>2, <1>4, <1>5 DEF RootOK

LEMMA BringUpRoot ==
  ASSUME NEW s, Ready(s), NEW c \in Managed(s), IsMain(c)
  PROVE  RootOK(BringUp(s, c))
<1> DEFINE t == IF c \in s.full THEN s ELSE PanelsAbove(s, c)
<1>1. Type[c] # "panel" /\ c # None
  BY WmFields DEF IsMain, Ready
<1>2. Moved(s, t, NonMains)
  BY <1>1, MovedSame, PanelsAboveMoved DEF Ready
<1>3. BringUp(s, c) = StackDialogs(t, c)
  BY DEF BringUp
<1> HIDE DEF t
<1>4. Ready(t)
  BY <1>2, MovedReady
<1> QED
  BY <1>1, <1>3, <1>4, StackDialogsRoot

LEMMA ActivateMainRoot ==
  ASSUME NEW s, Ready(s), NEW c \in Managed(s), IsMain(c)
  PROVE  RootOK(ActivateMain(s, c))
<1> DEFINE s1 == IF s.top \in {None, c} THEN s ELSE MainHide(s, s.top)
           s2 == BringUp(s1, c)
           s3 == MakeVisible(s2, c)
           t == SetFocus(s3, FocusWith(s1, c))
<1>0. ActivateMain(s, c) = t
  BY DEF ActivateMain, Switch
<1>1. Kept(s, s1)
  <2>1. s.top # None => s.top \in Clients
    BY WmFields DEF Ready
  <2> QED
    BY <2>1, KeptSame, MainHideSteady DEF Ready, Steady
<1> HIDE DEF s1
<1>2. Ready(s1) /\ WmOK(s1) /\ Managed(s1) = Managed(s)
  BY <1>1, KeptReady DEF Kept
<1>3. RootOK(s2)
  BY <1>2, BringUpRoot
<1>4. WmOK(s2) /\ Managed(s2) = Managed(s)
  BY <1>2, <1>3, BringUpMoved, MovedOK
<1> HIDE DEF s2
<1>5. Kept(s2, s3) /\ SameStack(s2, s3)
  BY <1>4, MakeVisibleFact, MakeVisibleStack DEF Switched
<1>6. RootOK(s3) /\ WmOK(s3)
  BY <1>3, <1>5, SameRoot DEF SameStack, Kept
<1> HIDE DEF s3
<1>7. FocusWith(s1, c) \in Pointer
  <2>1. c \in Clients /\ c \in Pointer /\ s1.focus \in Pointer /\ s1.next[c] \in Pointer
    BY <1>2, WmFields DEF Pointer
  <2> QED
    BY <2>1 DEF FocusWith
<1> HIDE DEF FocusWith
<1>8. Kept(s3, t) /\ SameStack(s3, t)
  BY <1>6, <1>7, SetFocusSteady, SetFocusStack DEF Steady
<1> HIDE DEF t
<1> QED
  BY <1>0, <1>6, <1>8, SameRoot DEF SameStack

LEMMA ActivateDialogRoot ==
  ASSUME NEW s, RootOK(s), NEW c \in Managed(s)
  PROVE  RootOK(ActivateDialog(s, c))
<1> DEFINE v == Visible(s)
           s1 == IF s.raised THEN StackDialogs(s, v)
                 ELSE IF v \in s.full THEN s ELSE PanelsAbove(s, v)
           d == IF OfHidden(s, c) THEN None ELSE c
           t == SetFocus(s1, d)
<1>0. ActivateDialog(s, c) = t
  BY DEF ActivateDialog
<1>1. Ready(s) /\ WmOK(s)
  BY DEF RootOK, Ready
<1>2. v \in Managed(s) \union {None} /\ (v # None => Type[v] # "panel")
  BY <1>1, VisibleFact DEF IsMain
<1>3. StackDialogs(s, None) = s
  BY DEF StackDialogs
<1> HIDE DEF v
<1>4. RootOK(StackDialogs(s, v))
  BY <1>1, <1>3, StackDialogsRoot
<1>5. RootOK(PanelsAbove(s, v))
  <2>1. Moved(s, PanelsAbove(s, v), Mapped(s, {"panel"}))
    BY <1>1, <1>2, PanelsAboveMoved
  <2>2. \A p \in Mapped(s, {"panel"}) : ~IsMain(p) /\ ~IsDialog(p)
    BY DEF Mapped, IsMain, IsDialog
  <2> QED
    BY <2>1, <2>2, PanelsRoot
<1>6. RootOK(s1)
  BY <1>4, <1>5
<1> HIDE DEF s1
<1>7. WmOK(s1)
  BY <1>6 DEF RootOK, Ready
<1>8. d \in Pointer
  BY <1>1, WmFields DEF Pointer
<1> HIDE DEF d
<1>9. Kept(s1, t) /\ SameStack(s1, t)
  BY <1>7, <1>8, SetFocusSteady, SetFocusStack DEF Steady
<1> HIDE DEF t
<1> QED
  BY <1>0, <1>6, <1>9, SameRoot DEF SameStack

LEMMA AfterShowRoot ==
  ASSUME NEW s, Ready(s), NEW c \in Managed(s), IsMain(c) \/ RootOK(s)
  PROVE  RootOK(AfterShow(s, c))
<1>1. CASE IsMain(c)
  BY <1>1, ActivateMainRoot DEF AfterShow
<1>2. CASE ~IsMain(c) /\ IsDialog(c)
  BY <1>2, ActivateDialogRoot DEF AfterShow
<1>3. CASE ~IsMain(c) /\ ~IsDialog(c)
  <2>1. AfterShow(s, c) = SetFocus(s, c)
    BY <1>3 DEF AfterShow
  <2>2. WmOK(s) /\ c \in Pointer
    BY WmFields DEF Pointer, Ready
  <2>3. Kept(s, SetFocus(s, c)) /\ SameStack(s, SetFocus(s, c))
    BY <2>2, SetFocusSteady, SetFocusStack DEF Steady
  <2> QED
    BY <1>3, <2>1, <2>3, SameRoot DEF SameStack
<1> QED
  BY <1>1, <1>2, <1>3

(* The insurance brings up the urgent ones. *)
LEMMA RaiseFlaggedRoot ==
  ASSUME NEW s, Ready(s),
         NEW D \in SUBSET Managed(s), NEW M \in SUBSET Managed(s), Topped(s, D, M)
  PROVE  LET t == RaiseFlagged(s) IN Topped(t, D, M) /\ Urged(t, Managed(s))
<1> DEFINE s1 == IF Visible(s) = None THEN s ELSE TransientsToTop(s, Visible(s), s.above)
           s2 == TransientsToTop(s1, None, s.above)
           t == TransientsToTop(s2, None, Urgent)
<1>1. s.above \in SUBSET Clients /\ Urgent \in SUBSET Clients /\ WmOK(s)
  BY WmFields, WmAssumption DEF Ready
<1>2. RaiseFlagged(s) = t
  BY DEF RaiseFlagged
<1>3. Moved(s, s1, NonMains)
  BY <1>1, TransientsToTopMoved, MovedSame
<1>4. Topped(s1, D, M)
  BY <1>1, ToppedTransients
<1> HIDE DEF s1
<1>5. Ready(s1) /\ WmOK(s1) /\ Managed(s1) = Managed(s)
  BY <1>3, MovedReady DEF Ready
<1>6. Ready(s2) /\ WmOK(s2) /\ Managed(s2) = Managed(s)
  BY <1>1, <1>5, TransientsToTopMoved, MovedReady DEF Ready
<1>7. Topped(s2, D, M)
  BY <1>1, <1>4, <1>5, ToppedTransients
<1> HIDE DEF s2
<1>8. Topped(t, D, M) /\ Urged(t, Managed(s))
  BY <1>1, <1>6, <1>7, ToppedTransients, UrgentToTop
<1> QED
  BY <1>2, <1>8

(* A dialog that is shown is over the main clients, too, if it belongs to  *)
(* none: only then is it raised.                                           *)
LEMMA PlacedRoot ==
  ASSUME NEW s, Ready(s), Topped(s, s.mapped, s.mapped), NEW c \in Managed(s), IsDialog(c)
  PROVE  LET t == IF s.trans[c] = None THEN Raise(s, c) ELSE PlaceDialog(s, c)
         IN Moved(s, t, {c}) /\ Topped(t, s.mapped \union {c}, s.mapped)
<1> DEFINE t == IF s.trans[c] = None THEN Raise(s, c) ELSE PlaceDialog(s, c)
<1>1. WmOK(s) /\ s.mapped \in SUBSET Managed(s) /\ Managed(s) = Members(s.order) /\ IsStack(s.order)
  BY WmFields DEF Ready
<1>2. Moved(s, t, {c})
  BY <1>1, RaiseMoved, PlaceDialogMoved
<1>3. /\ IsStack(t.order) /\ InOrder(s.order, t.order, {c})
      /\ Members(t.order) = Members(s.order)
  BY <1>2 DEF Moved, Rearranged
<1>4. c \in Rooted => \A d \in Managed(s) : Place(t.order, d) <= Place(t.order, c)
  <2> SUFFICES ASSUME c \in Rooted PROVE t = Raise(s, c)
    BY <1>1, RaiseMoved
  <2> QED
    BY DEF Ready
<1> HIDE DEF t
<1>5. ASSUME NEW d \in Rooted \intersect (s.mapped \union {c}), NEW m \in s.mapped, IsMain(m)
      PROVE  Place(t.order, m) < Place(t.order, d)
  <2>1. m # c /\ m \in Members(s.order) /\ d \in Members(s.order)
    BY <1>1, <1>5 DEF IsMain, IsDialog
  <2>2. CASE d = c
    <3>1. Place(t.order, m) <= Place(t.order, c)
      BY <1>1, <1>4, <1>5, <2>1, <2>2
    <3>2. /\ Place(t.order, m) \in Nat /\ Place(t.order, c) \in Nat
          /\ t.order[Place(t.order, m)] = m /\ t.order[Place(t.order, c)] = c
      BY <1>3, <2>1, <2>2, StackMembers
    <3> QED
      BY <2>1, <2>2, <3>1, <3>2
  <2>3. CASE d # c
    <3>1. Place(s.order, m) < Place(s.order, d)
      BY <1>5, <2>3 DEF Topped
    <3> QED
      BY <1>1, <1>3, <2>1, <2>3, <3>1, StrictOrder
  <2> QED
    BY <2>2, <2>3
<1>6. Topped(t, s.mapped \union {c}, s.mapped)
  BY <1>5 DEF Topped
<1> QED
  BY <1>2, <1>6 DEF t

LEMMA DialogMovesRoot ==
  ASSUME NEW s, Ready(s), Topped(s, s.mapped, s.mapped), NEW c \in Managed(s), IsDialog(c)
  PROVE  LET t == DialogMoves(s, c)
         IN Topped(t, s.mapped \union {c}, s.mapped) /\ Urged(t, Managed(s))
<1> DEFINE placed == IF s.trans[c] = None THEN Raise(s, c) ELSE PlaceDialog(s, c)
           S == Transients(placed, c, Clients)
           t == Regroup(placed, S, c)
           D == s.mapped \union {c}
           M == s.mapped
<1>1. M \in SUBSET Managed(s) /\ D \in SUBSET Managed(s) /\ c \in Clients /\ c # None
  BY WmFields DEF Ready
<1>2. Moved(s, placed, {c}) /\ Topped(placed, D, M)
  BY PlacedRoot
<1>3. DialogMoves(s, c) = RaiseFlagged(t)
  BY DEF DialogMoves
<1> HIDE DEF placed
<1>4. Ready(placed) /\ WmOK(placed) /\ Managed(placed) = Managed(s)
  BY <1>2, MovedReady DEF Ready
<1>5. \A p \in S : ~IsMain(p) /\ p \notin Rooted /\ p # c
  <2> SUFFICES ASSUME NEW p \in S PROVE ~IsMain(p) /\ p \notin Rooted /\ p # c
    OBVIOUS
  <2>1. Type[p] = "dialog" /\ p # c /\ TransientFor(placed, p, c)
    BY DEF Transients
  <2>2. p \notin Rooted
    <3> SUFFICES ASSUME p \in Rooted PROVE FALSE
      OBVIOUS
    <3>1. p \in Clients /\ placed.trans[p] = None
      BY <1>4 DEF Rooted, Ready
    <3>2. Ancestors(placed, p) = {}
      BY <1>4, <3>1, RootSelf
    <3> QED
      BY <1>1, <2>1, <3>1, <3>2 DEF TransientFor
  <2> QED
    BY <2>1, <2>2 DEF IsMain
<1>6. c \in (Managed(placed) \ S) \union {None}
  BY <1>4, <1>5
<1> HIDE DEF S, D, M
<1>7. Moved(placed, t, S)
  BY <1>4, <1>6, RegroupMoved
<1>8. Topped(t, D, M)
  BY <1>1, <1>2, <1>4, <1>5, <1>7, ToppedKept
<1> HIDE DEF t
<1>9. Ready(t) /\ Managed(t) = Managed(s)
  BY <1>4, <1>7, MovedReady
<1>10. Topped(RaiseFlagged(t), D, M) /\ Urged(RaiseFlagged(t), Managed(s))
  BY <1>1, <1>8, <1>9, RaiseFlaggedRoot
<1> QED
  BY <1>3, <1>10 DEF D, M

(* A client is mapped where it is. *)
LEMMA MapInRoot ==
  ASSUME NEW s, Ready(s), NEW c \in Managed(s), IsDialog(c),
         Topped(s, s.mapped \union {c}, s.mapped), Urged(s, Managed(s))
  PROVE  RootOK([s EXCEPT !.mapped = @ \union {c}])
<1> DEFINE t == [s EXCEPT !.mapped = @ \union {c}]
<1>1. WmOK(s) /\ s.mapped \subseteq Managed(s)
  BY WmFields DEF Ready
<1>2. Kept(s, t) /\ t.order = s.order /\ t.mapped = s.mapped \union {c}
  BY <1>1, MapIn
<1> HIDE DEF t
<1>3. Ready(t)
  BY <1>2, KeptReady
<1>4. Topped(t, t.mapped, t.mapped)
  BY <1>2 DEF Topped, IsMain, IsDialog
<1>5. Urged(t, t.mapped)
  BY <1>1, <1>2 DEF Urged
<1>6. RootOK(t)
  BY <1>3, <1>4, <1>5 DEF RootOK
<1> QED
  BY <1>6 DEF t

LEMMA EditRoot ==
  ASSUME NEW s, RootOK(s), NEW t \in WmState,
         t.order = s.order, t.top = s.top, t.desktop = s.desktop, t.trans = s.trans,
         t.mapped \subseteq s.mapped
  PROVE  RootOK(t) /\ Kept(s, t)
<1>1. WmOK(s)
  BY DEF RootOK, Ready
<1>2. Managed(t) = Managed(s)
  BY DEF Managed
<1>3. WmOK(t)
  BY <1>1, <1>2 DEF WmOK, Sound
<1>4. Kept(s, t)
  BY <1>2, <1>3 DEF Kept
<1> QED
  BY <1>4, SameRoot

-----------------------------------------------------------------------------
(* The loops keep it, when what they call does.                            *)

RootCalls == {f \in Outcomes : \A x \in Calls : RootOK(x.s) => RootOK(f[x])}

LEMMA EachTransientRoot ==
  ASSUME NEW call \in RootCalls, NEW s, RootOK(s), NEW c \in Clients,
         NEW method \in {"show", "iconize"}
  PROVE  RootOK(EachTransient(call, s, c, method))
<1>1. WmOK(s)
  BY DEF RootOK, Ready
<1>2. \/ EachTransient(call, s, c, method) = s
      \/ \E x \in Calls : x.s = s /\ EachTransient(call, s, c, method) = call[x]
  BY <1>1, EachTransientCall
<1> QED
  BY <1>2 DEF RootCalls

LEMMA RestoreRoot ==
  ASSUME NEW call \in RootCalls, NEW s, RootOK(s), NEW c \in Clients
  PROVE  RootOK(Restore(call, s, c))
<1> DEFINE t == [s EXCEPT !.minimized = @ \ {c}]
<1>1. s \in WmState /\ s.minimized \subseteq Clients
  BY WmFields DEF RootOK, Ready, WmOK
<1>2. t \in WmState
  BY <1>1 DEF WmState
<1>3. /\ t.order = s.order /\ t.top = s.top /\ t.desktop = s.desktop /\ t.trans = s.trans
      /\ t.mapped = s.mapped
  BY <1>1 DEF WmState
<1>4. Restore(call, s, c) = s \/ Restore(call, s, c) = EachTransient(call, t, c, "show")
  BY DEF Restore
<1> HIDE DEF t
<1>5. RootOK(t)
  BY <1>2, <1>3, EditRoot
<1>6. RootOK(EachTransient(call, t, c, "show"))
  BY <1>5, EachTransientRoot
<1> QED
  BY <1>4, <1>6

LEMMA DialogShowRoot ==
  ASSUME NEW call \in RootCalls, NEW s, RootOK(s), NEW c \in Managed(s), IsDialog(c)
  PROVE  RootOK(DialogShow(call, s, c))
<1> DEFINE s1 == Restore(call, s, c)
           r == [s1 EXCEPT !.modals = @ + 1]
           s2 == WithModal(s, s1, c)
           s3 == DialogMoves(s2, c)
           t == [s3 EXCEPT !.mapped = @ \union {c}]
<1>0. DialogShow(call, s, c) = t /\ WmOK(s) /\ c \in Clients /\ call \in Outcomes
  BY WmFields DEF DialogShow, RootOK, Ready, RootCalls
<1>1. RootOK(s1)
  BY <1>0, RestoreRoot
<1>2. WmOK(s1) /\ Managed(s1) = Managed(s)
  BY <1>0, RestoreFact DEF ResultOK, Kept
<1> HIDE DEF s1
<1>3. s1 \in WmState /\ s1.modals \in Int
  BY <1>2, WmFields DEF WmOK
<1>4. r \in WmState
  BY <1>3 DEF WmState
<1>5. /\ r.order = s1.order /\ r.top = s1.top /\ r.desktop = s1.desktop /\ r.trans = s1.trans
      /\ r.mapped = s1.mapped
  BY <1>3 DEF WmState
<1>6. s2 = r \/ s2 = s1
  BY DEF WithModal
<1> HIDE DEF r, s2
<1>7. RootOK(r) /\ Kept(s1, r)
  BY <1>1, <1>4, <1>5, EditRoot
<1>8. RootOK(s2) /\ WmOK(s2) /\ Managed(s2) = Managed(s)
  BY <1>1, <1>2, <1>6, <1>7 DEF Kept
<1>9. Ready(s2) /\ Topped(s2, s2.mapped, s2.mapped)
  BY <1>8 DEF RootOK
<1>10. Moved(s2, s3, NonMains)
  BY <1>8, DialogMovesMoved
<1>11. Topped(s3, s2.mapped \union {c}, s2.mapped) /\ Urged(s3, Managed(s))
  BY <1>8, <1>9, DialogMovesRoot
<1> HIDE DEF s3
<1>12. Ready(s3) /\ Managed(s3) = Managed(s) /\ s3.mapped = s2.mapped
  BY <1>8, <1>9, <1>10, MovedReady
<1> QED
  BY <1>0, <1>11, <1>12, MapInRoot

LEMMA PanelShowRoot ==
  ASSUME NEW s, RootOK(s), NEW c \in Managed(s), Type[c] = "panel"
  PROVE  RootOK(PanelShow(s, c))
<1> DEFINE mains == Mapped(s, {"app", "desktop"})
           moved == IF mains = {} THEN s ELSE Restack(s, c, Highest(s, mains))
           t == [moved EXCEPT !.mapped = @ \union {c}, !.docked = @ \union {c}]
<1>0. (PanelShow(s, c) = IF c \in s.docked THEN s ELSE t) /\ WmOK(s)
  BY DEF PanelShow, RootOK, Ready
<1>1. ~IsMain(c) /\ ~IsDialog(c) /\ c \in Clients /\ c \notin Rooted
  BY <1>0, WmFields DEF IsMain, IsDialog, Rooted
<1>2. Moved(s, moved, {c})
  <2>1. CASE mains = {}
    BY <1>0, <2>1, MovedSame
  <2>2. CASE mains # {}
    <3>1. mains \in SUBSET Managed(s)
      BY DEF Mapped
    <3>2. IsStack(s.order) /\ Managed(s) = Members(s.order)
      BY <1>0, WmFields
    <3> HIDE DEF mains
    <3>3. Highest(s, mains) \in Managed(s)
      BY <2>2, <3>1, <3>2, HighestFact
    <3>4. Moved(s, Restack(s, c, Highest(s, mains)), {c})
      BY <1>0, <3>3, RestackMoved
    <3> QED
      BY <2>2, <3>4
  <2> QED
    BY <2>1, <2>2
<1> HIDE DEF moved
<1>3. RootOK(moved) /\ WmOK(moved) /\ Managed(moved) = Managed(s)
  BY <1>0, <1>1, <1>2, PanelsRoot, MovedOK
<1>4. moved \in WmState /\ moved.mapped \subseteq Managed(s) /\ moved.mapped \subseteq Clients /\ moved.docked \subseteq Clients
  BY <1>3, WmFields DEF WmOK
<1>5. t \in WmState
  <2> DEFINE P == moved.mapped \union {c}
             Q == moved.docked \union {c}
  <2>1. P \in SUBSET Clients /\ Q \in SUBSET Clients
    BY <1>1, <1>4
  <2>2. t = [moved EXCEPT !.mapped = P, !.docked = Q]
    BY <1>4 DEF WmState
  <2> HIDE DEF t, P, Q
  <2> QED
    BY <1>4, <2>1, <2>2 DEF WmState
<1>6. /\ t.order = moved.order /\ t.top = moved.top /\ t.desktop = moved.desktop
      /\ t.trans = moved.trans /\ t.mapped = moved.mapped \union {c}
  BY <1>4 DEF WmState
<1> HIDE DEF t
<1>7. Managed(t) = Managed(s) /\ Managed(moved) = Managed(s)
  BY <1>3, <1>6 DEF Managed
<1>8. t.mapped \subseteq Managed(t)
  BY <1>4, <1>6, <1>7
<1>9. WmOK(t)
  BY <1>3, <1>5, <1>6, <1>7, <1>8 DEF WmOK, Sound
<1>10. Ready(t)
  BY <1>3, <1>6, <1>9 DEF RootOK, Ready, DialogTrans
<1>11. Topped(t, t.mapped, t.mapped) /\ Urged(t, t.mapped)
  BY <1>1, <1>3, <1>6 DEF RootOK, Topped, Urged, Rooted
<1> QED
  BY <1>0, <1>10, <1>11 DEF RootOK

LEMMA ActivateRoot ==
  ASSUME NEW call \in RootCalls, NEW s, Ready(s), NEW c \in Managed(s) \union {None},
         RootOK(s) \/ (c # None /\ IsMain(c) /\ ~s.hung)
  PROVE  RootOK(Activate(call, s, c))
<1> DEFINE t == Show(call, s, c)
<1>0. WmOK(s) /\ call \in Outcomes
  BY DEF Ready, RootCalls
<1>1. CASE c = None \/ s.hung
  BY <1>1 DEF Activate
<1>2. CASE ~ (c = None \/ s.hung)
  <2>1. Activate(call, s, c) = AfterShow(t, c) /\ c \in Managed(s)
    BY <1>2 DEF Activate
  <2>2. Kept(s, t)
    BY <1>0, <2>1, ShowFact
  <2>3. Ready(t) /\ c \in Managed(t)
    BY <2>1, <2>2, KeptReady DEF Kept
  <2>4. IsMain(c) \/ RootOK(t)
    <3>1. Type[c] \in {"app", "dialog", "desktop", "panel"}
      BY <1>0, <2>1, WmFields, TypeFact
    <3>2. CASE Type[c] = "dialog"
      <4>1. t = DialogShow(call, s, c) /\ IsDialog(c) /\ RootOK(s)
        BY <3>2 DEF Show, IsDialog, IsMain
      <4> HIDE DEF t
      <4> QED
        BY <2>1, <4>1, DialogShowRoot
    <3>3. CASE Type[c] = "panel"
      <4>1. t = PanelShow(s, c) /\ RootOK(s)
        BY <3>3 DEF Show, IsMain
      <4> HIDE DEF t
      <4> QED
        BY <2>1, <3>3, <4>1, PanelShowRoot
    <3> QED
      BY <3>1, <3>2, <3>3 DEF IsMain
  <2> QED
    BY <2>1, <2>3, <2>4, AfterShowRoot
<1> QED
  BY <1>1, <1>2

LEMMA MainUnmapRoot ==
  ASSUME NEW call \in RootCalls, NEW s, RootOK(s), NEW c \in Managed(s), Type[c] = "app"
  PROVE  RootOK(MainUnmap(call, s, c))
<1> DEFINE t == Unmapped(s, c)
           d == Successor(s, c)
<1>1. WmOK(s)
  BY DEF RootOK, Ready
<1>2. /\ Kept(s, t) /\ t.mapped = s.mapped \ {c} /\ t.order = s.order
      /\ d \in Managed(s) \union {None}
  BY <1>1, UnmappedFact
<1>3. MainUnmap(call, s, c) = Activate(call, t, d)
  BY DEF MainUnmap, Unmapped
<1> HIDE DEF t, d
<1>4. RootOK(t)
  BY <1>2, SameRoot
<1>5. Ready(t) /\ d \in Managed(t) \union {None}
  BY <1>2, <1>4 DEF RootOK, Kept
<1> QED
  BY <1>3, <1>4, <1>5, ActivateRoot

LEMMA FocusNextRoot ==
  ASSUME NEW call \in RootCalls, NEW s, RootOK(s), NEW c \in Clients
  PROVE  RootOK(FocusNext(call, s, c))
<1> DEFINE t == PassFocus(s, c)
           d == FocusCandidate(s, c)
<1>1. WmOK(s)
  BY DEF RootOK, Ready
<1>2. Kept(s, t) /\ SameStack(s, t)
  BY <1>1, PassFocusSteady, PassFocusStack DEF Steady
<1>3. d \in Managed(s) \union {None}
  BY <1>1, CandidateManaged
<1>4. FocusNext(call, s, c) = Activate(call, t, d)
  BY DEF FocusNext
<1> HIDE DEF t, d
<1>5. RootOK(t)
  BY <1>2, SameRoot DEF SameStack
<1>6. Ready(t) /\ d \in Managed(t) \union {None}
  BY <1>2, <1>3, <1>5 DEF RootOK, Kept
<1> QED
  BY <1>4, <1>5, <1>6, ActivateRoot

LEMMA DialogIconizeRoot ==
  ASSUME NEW call \in RootCalls, NEW s, RootOK(s), NEW c \in Managed(s), IsDialog(c)
  PROVE  RootOK(DialogIconize(call, s, c))
<1> DEFINE gone == [s EXCEPT !.minimized = @ \union {c}, !.mapped = @ \ {c},
                             !.modals = IF c \in Modal THEN @ - 1 ELSE @]
           t == EachTransient(call, gone, c, "iconize")
<1>0. DialogIconize(call, s, c) = FocusNext(call, t, c) /\ WmOK(s)
  BY DEF DialogIconize, RootOK, Ready
<1>1. /\ s \in WmState /\ s.mapped \subseteq Clients /\ c \in Clients
      /\ s.minimized \subseteq Clients /\ s.modals \in Int
  BY <1>0, WmFields DEF WmOK
<1>2. gone \in WmState
  <2> DEFINE m == IF c \in Modal THEN s.modals - 1 ELSE s.modals
             M == s.minimized \union {c}
             P == s.mapped \ {c}
  <2>1. m \in Int /\ M \in SUBSET Clients /\ P \in SUBSET Clients
    BY <1>1
  <2>2. gone = [s EXCEPT !.minimized = M, !.mapped = P, !.modals = m]
    BY <1>1 DEF WmState
  <2> HIDE DEF gone, m, M, P
  <2> QED
    BY <1>1, <2>1, <2>2 DEF WmState
<1>3. /\ gone.order = s.order /\ gone.top = s.top /\ gone.desktop = s.desktop
      /\ gone.trans = s.trans /\ gone.mapped = s.mapped \ {c}
  BY <1>1 DEF WmState
<1> HIDE DEF gone
<1>4. RootOK(gone)
  BY <1>2, <1>3, EditRoot
<1>5. RootOK(t)
  BY <1>1, <1>4, EachTransientRoot
<1> HIDE DEF t
<1> QED
  BY <1>0, <1>1, <1>5, FocusNextRoot

LEMMA IconizeRoot ==
  ASSUME NEW call \in RootCalls, NEW s, RootOK(s), NEW c \in Managed(s)
  PROVE  RootOK(Iconize(call, s, c))
<1>0. /\ Type[c] \in {"app", "dialog", "desktop", "panel"} /\ c \in Clients
      /\ WmOK(s) /\ s \in WmState /\ call \in Outcomes
  BY WmFields, TypeFact DEF RootOK, Ready, WmOK, RootCalls
<1>1. CASE Type[c] = "app"
  <2> DEFINE r == [s EXCEPT !.minimized = @ \union {c}]
             t == EachTransient(call, r, c, "iconize")
  <2>1. Iconize(call, s, c) = IF t.hung THEN t ELSE MainUnmap(call, t, c)
    BY <1>1 DEF Iconize, MainIconize, UnmapUnlessHung
  <2>2. r \in WmState
    <3>1. s.minimized \union {c} \in SUBSET Clients
      BY <1>0 DEF WmState
    <3> QED
      BY <1>0, <3>1 DEF WmState
  <2>3. /\ r.order = s.order /\ r.top = s.top /\ r.desktop = s.desktop /\ r.trans = s.trans
        /\ r.mapped = s.mapped
    BY <1>0 DEF WmState
  <2> HIDE DEF r
  <2>4. RootOK(r) /\ Kept(s, r)
    BY <2>2, <2>3, EditRoot
  <2>5. RootOK(t)
    BY <1>0, <2>4, EachTransientRoot
  <2>6. c \in Managed(t)
    BY <1>0, <2>4, EachTransientFact DEF Kept, ResultOK
  <2> HIDE DEF t
  <2> QED
    BY <1>1, <2>1, <2>5, <2>6, MainUnmapRoot
<1>2. CASE Type[c] = "dialog"
  BY <1>2, DialogIconizeRoot DEF Iconize, IsDialog
<1>3. CASE Type[c] = "desktop"
  <2>1. Kept(s, MainHide(s, c)) /\ SameStack(s, MainHide(s, c))
    BY <1>0, MainHideSteady, MainHideStack DEF Steady
  <2> QED
    BY <1>3, <2>1, SameRoot DEF Iconize, SameStack
<1>4. CASE Type[c] = "panel"
  <2> DEFINE t == [s EXCEPT !.docked = @ \ {c}]
  <2>1. t \in WmState
    BY <1>0 DEF WmState
  <2>2. /\ t.order = s.order /\ t.top = s.top /\ t.desktop = s.desktop /\ t.trans = s.trans
        /\ t.mapped = s.mapped
    BY <1>0 DEF WmState
  <2>3. Iconize(call, s, c) = t
    BY <1>4 DEF Iconize
  <2> HIDE DEF t
  <2> QED
    BY <2>1, <2>2, <2>3, EditRoot
<1> QED
  BY <1>0, <1>1, <1>2, <1>3, <1>4

LEMMA TurnRoot ==
  ASSUME NEW call \in RootCalls, NEW x \in Calls, x.p # None, RootOK(x.s)
  PROVE  RootOK(Turn(call, x))
<1> DEFINE s == x.s
           p == x.p
           t == IF s.trans[p] # x.c THEN s
                ELSE IF x.method = "show" THEN Show(call, s, p) ELSE Iconize(call, s, p)
           y == [x EXCEPT !.s = t, !.p = Above(t, p)]
<1>1. /\ x.c \in Clients /\ p \in Managed(s) /\ p \in Clients /\ x.c # None
      /\ WmOK(s) /\ DialogTrans(s) /\ call \in Outcomes
  BY StackAssumption, WmFields DEF Calls, WmOK, RootOK, Ready, RootCalls
<1>2. Turn(call, x) = call[y]
  BY DEF Turn
<1>3. RootOK(t)
  <2>1. CASE s.trans[p] # x.c
    BY <2>1
  <2>2. CASE s.trans[p] = x.c /\ x.method = "show"
    <3>1. IsDialog(p)
      BY <1>1, <2>2 DEF DialogTrans
    <3>2. t = DialogShow(call, s, p)
      BY <2>2, <3>1 DEF Show, IsDialog
    <3> QED
      BY <1>1, <3>1, <3>2, DialogShowRoot
  <2>3. CASE s.trans[p] = x.c /\ x.method # "show"
    <3>1. t = Iconize(call, s, p)
      BY <2>3
    <3> QED
      BY <1>1, <3>1, IconizeRoot
  <2> QED
    BY <2>1, <2>2, <2>3
<1>4. Kept(s, t)
  <2>1. CASE s.trans[p] # x.c
    BY <1>1, <2>1, KeptSame
  <2>2. CASE s.trans[p] = x.c /\ x.method = "show"
    BY <1>1, <2>2, ShowFact
  <2>3. CASE s.trans[p] = x.c /\ x.method # "show"
    BY <1>1, <2>3, IconizeFact
  <2> QED
    BY <2>1, <2>2, <2>3
<1> HIDE DEF t
<1>5. WmOK(t) /\ p \in Managed(t)
  BY <1>1, <1>4 DEF Kept
<1>6. y \in Calls /\ y.s = t
  BY <1>5, NextCall
<1> HIDE DEF y
<1> QED
  BY <1>2, <1>3, <1>6 DEF RootCalls

(* However the loops end, they leave these dialogs in their place. *)
LEMMA LoopRoot == Loop \in RootCalls
<1>1. Exhausted \in RootCalls
  <2> DEFINE f == Exhausted
  <2>1. ASSUME NEW x \in Calls, RootOK(x.s) PROVE RootOK(f[x])
    <3> DEFINE s == x.s
               t == [s EXCEPT !.hung = TRUE]
    <3>1. f[x] = s \/ f[x] = t
      BY DEF Exhausted
    <3>2. s \in WmState
      BY CallFact
    <3> HIDE DEF s, f
    <3>3. /\ t \in WmState /\ t.order = s.order /\ t.top = s.top /\ t.desktop = s.desktop
          /\ t.trans = s.trans /\ t.mapped = s.mapped
      <4>1. t \in WmState
        BY <3>2 DEF WmState
      <4>2. /\ t.order = s.order /\ t.top = s.top /\ t.desktop = s.desktop
            /\ t.trans = s.trans /\ t.mapped = s.mapped
        BY <3>2 DEF WmState
      <4> QED
        BY <4>1, <4>2
    <3> HIDE DEF t
    <3>4. RootOK(t)
      BY <2>1, <3>3, EditRoot DEF s
    <3> QED
      BY <2>1, <3>1, <3>4 DEF s
  <2> QED
    BY <2>1, ExhaustedFact DEF RootCalls
<1>2. ASSUME NEW h \in RootCalls PROVE Begun(h) \in RootCalls
  <2>0. h \in Outcomes
    BY <1>2 DEF RootCalls
  <2>1. ASSUME NEW x \in Calls, RootOK(x.s) PROVE RootOK(Begun(h)[x])
    <3>1. Begun(h)[x] = IF x.p = None \/ x.s.hung THEN x.s ELSE Turn(h, x)
      BY DEF Begun
    <3> QED
      BY <2>1, <3>1, TurnRoot
  <2> QED
    BY <2>0, <2>1, BegunFact DEF RootCalls
<1> QED
  BY <1>1, <1>2, LoopInduction

LEMMA ForgetRoot ==
  ASSUME NEW s, RootOK(s), Acyclic(s.trans), NEW c \in Managed(s), s.top # c
  PROVE  LET t == Forget(s, c)
         IN /\ t \in WmState /\ DialogTrans(t) /\ \A d \in Rooted : t.trans[d] = None
            /\ Topped(t, t.mapped, t.mapped) /\ Urged(t, t.mapped)
            /\ s.desktop # c => RootOK(t)
<1> DEFINE t == Forget(s, c)
<1>0. WmOK(s) /\ s \in WmState /\ Sound(s) /\ DialogTrans(s) /\ c \in Clients
  BY WmFields DEF RootOK, Ready, WmOK
<1>1. /\ t \in WmState /\ InOrder(s.order, t.order, {c}) /\ t.mapped = s.mapped \ {c}
      /\ DialogTrans(t) /\ (s.desktop # c => WmOK(t))
  BY <1>0, ForgetFact DEF WmInv
<1>2. \A d \in Clients : t.trans[d] \in {None, s.trans[c], s.trans[d]}
                          /\ (s.trans[d] = None => t.trans[d] = None)
  <2> DEFINE tr == [p \in Clients |-> IF p = c THEN None ELSE IF s.trans[p] = c THEN s.trans[c] ELSE s.trans[p]]
  <2>1. t.trans = tr
    BY <1>0 DEF Forget, WmState
  <2> QED
    BY <1>0, <2>1, StackAssumption
<1>3. \A d \in Rooted : t.trans[d] = None
  BY <1>2 DEF RootOK, Ready, Rooted
<1>4. \A a, b \in t.mapped : Place(s.order, a) < Place(s.order, b) => Place(t.order, a) < Place(t.order, b)
  <2>1. IsStack(s.order) /\ t.mapped \subseteq Members(s.order) \ {c}
    BY <1>0, <1>1, WmFields DEF Managed
  <2>2. Managed(t) = Managed(s) \ {c} /\ Distinct(t.order)
    BY <1>0, ForgetFact
  <2>3. IsStack(t.order)
    BY <1>1, <2>2 DEF IsStack, WmState
  <2>4. t.mapped \subseteq Members(t.order)
    BY <2>1, <2>2 DEF Managed
  <2> HIDE DEF t
  <2> QED
    BY <1>1, <2>1, <2>3, <2>4, StrictOrder
<1> HIDE DEF t
<1>5. Topped(t, t.mapped, t.mapped) /\ Urged(t, t.mapped)
  BY <1>1, <1>4 DEF RootOK, Topped, Urged
<1> QED
  BY <1>1, <1>3, <1>5 DEF RootOK, Ready, t

LEMMA ActivateLoopRoot ==
  ASSUME NEW s, RootOK(s), NEW c \in Managed(s) \union {None}
  PROVE  RootOK(Activate(Loop, s, c))
BY LoopRoot, ActivateRoot DEF RootOK

(* wm_remove_client of an app *)
LEMMA AppDestroyRoot ==
  ASSUME NEW s, RootOK(s), Acyclic(s.trans), NEW c \in Managed(s), Type[c] = "app"
  PROVE  RootOK(Forget(MainUnmap(Loop, s, c), c))
<1> DEFINE t == MainUnmap(Loop, s, c)
<1>0. WmOK(s)
  BY DEF RootOK, Ready
<1>1. Kept(s, t) /\ t.top # c
  BY <1>0, LoopFact, MainUnmapFact
<1>2. RootOK(t)
  BY LoopRoot, MainUnmapRoot
<1> HIDE DEF t
<1>3. WmOK(t) /\ Acyclic(t.trans) /\ c \in Managed(t) /\ c # None
  BY <1>0, <1>1, WmFields DEF Kept
<1>4. t.desktop # c
  BY <1>3, WmFields
<1>5. RootOK(Forget(t, c))
  BY <1>1, <1>2, <1>3, <1>4, ForgetRoot
<1> QED
  BY <1>5 DEF t

(* wm_remove_client of a dialog *)
LEMMA DialogDestroyRoot ==
  ASSUME NEW s, RootOK(s), Acyclic(s.trans), NEW c \in Managed(s), IsDialog(c)
  PROVE  RootOK(DialogDestroy(Loop, s, c))
<1> DEFINE p == PassFocus(s, c)
           m == IF c \in Modal THEN p.modals - 1 ELSE p.modals
           gone == [p EXCEPT !.modals = m]
           f == Forget(gone, c)
           d == FocusCandidate(s, c)
<1>0. c \in Clients /\ c # None /\ ~IsMain(c) /\ WmOK(s)
  BY WmFields DEF IsDialog, IsMain, RootOK, Ready
<1>1. Kept(s, p) /\ p.order = s.order /\ p.mapped = s.mapped
  <2>1. Steady(s, p)
    BY <1>0, PassFocusSteady
  <2> QED
    BY <1>0, <2>1, PassFocusStack DEF Steady, SameStack
<1>2. RootOK(p) /\ p \in WmState
  BY <1>1, SameRoot DEF Kept, WmOK
<1> HIDE DEF p, d
<1>3. DialogDestroy(Loop, s, c) = Activate(Loop, f, d)
  <2>1. gone = [p EXCEPT !.modals = IF c \in Modal THEN @ - 1 ELSE @]
    BY <1>2 DEF WmState
  <2> QED
    BY <2>1 DEF DialogDestroy, p, d
<1>4. m \in Int
  <2>1. p.modals \in Int
    BY <1>2 DEF WmState
  <2> QED
    BY <2>1
<1> HIDE DEF m
<1>5. /\ gone \in WmState /\ gone.order = p.order /\ gone.top = p.top /\ gone.desktop = p.desktop
      /\ gone.trans = p.trans /\ gone.mapped = p.mapped
  <2>1. gone \in WmState
    BY <1>2, <1>4 DEF WmState
  <2>2. /\ gone.order = p.order /\ gone.top = p.top /\ gone.desktop = p.desktop
        /\ gone.trans = p.trans /\ gone.mapped = p.mapped
    BY <1>2, <1>4 DEF WmState
  <2> QED
    BY <2>1, <2>2
<1> HIDE DEF gone
<1>6. RootOK(gone) /\ Kept(p, gone)
  BY <1>2, <1>5, EditRoot
<1>7. WmOK(gone) /\ Managed(gone) = Managed(s) /\ Acyclic(gone.trans)
  BY <1>1, <1>6 DEF Kept
<1>8. gone.top # c /\ gone.desktop # c
  <2>1. \A x \in {gone.top, gone.desktop} : x # None => IsMain(x)
    BY <1>7, WmFields DEF IsMain
  <2> QED
    BY <1>0, <2>1
<1>9. RootOK(f)
  BY <1>6, <1>7, <1>8, ForgetRoot
<1>10. Managed(f) = Managed(s) \ {c}
  <2>1. gone \in WmState /\ Sound(gone)
    BY <1>7 DEF WmOK
  <2>2. Managed(f) = Managed(gone) \ {c}
    BY <1>7, <1>8, <2>1, ForgetFact
  <2> QED
    BY <1>7, <2>2
<1>11. d \in Managed(f) \union {None}
  <2>1. \/ d = None
        \/ d = Visible(s) /\ Visible(s) # None
        \/ d \in Managed(s) \ {c}
    BY <1>0, FocusCandidateFact DEF d
  <2>2. Visible(s) # None => Visible(s) \in Managed(s) /\ IsMain(Visible(s))
    BY <1>0, VisibleFact
  <2> QED
    BY <1>0, <1>10, <2>1, <2>2
<1> HIDE DEF f
<1> QED
  BY <1>3, <1>9, <1>11, ActivateLoopRoot

(* wm_remove_client of the desktop *)
LEMMA DesktopDestroyRoot ==
  ASSUME NEW s, RootOK(s), Acyclic(s.trans), ~s.hung, NEW c \in Managed(s), Type[c] = "desktop"
  PROVE  RootOK(DesktopDestroy(Loop, s, c))
<1> DEFINE mapped == s.mapped \ {c}
           s0 == [s EXCEPT !.mapped = mapped]
           back == Activate(Loop, s0, s.top)
           b1 == [back EXCEPT !.raised = FALSE]
           f == Forget(b1, c)
           r == [f EXCEPT !.desktop = None]
<1>0. /\ WmOK(s) /\ s \in WmState /\ mapped \in SUBSET Clients /\ None \in Pointer
      /\ s.top \in Managed(s) \union {None} /\ s.top # c
  BY WmFields DEF WmOK, Pointer, RootOK, Ready
<1>1. DesktopDestroy(Loop, s, c) = r
  <2>1. s0 = [s EXCEPT !.mapped = @ \ {c}]
    BY <1>0 DEF WmState
  <2> QED
    BY <2>1 DEF DesktopDestroy
<1>2. Keeps(s, DesktopDestroy(Loop, s, c))
  BY <1>0, DesktopDestroyKeeps
<1> HIDE DEF mapped
<1>3. /\ s0 \in WmState /\ s0.order = s.order /\ s0.top = s.top /\ s0.desktop = s.desktop
      /\ s0.trans = s.trans /\ s0.mapped = mapped
  <2>1. s0 \in WmState
    BY <1>0 DEF WmState
  <2>2. /\ s0.order = s.order /\ s0.top = s.top /\ s0.desktop = s.desktop
        /\ s0.trans = s.trans /\ s0.mapped = mapped
    BY <1>0 DEF WmState
  <2> QED
    BY <2>1, <2>2
<1> HIDE DEF s0
<1>4. RootOK(s0) /\ Kept(s, s0)
  BY <1>3, EditRoot DEF mapped
<1>5. s.top \in Managed(s0) \union {None} /\ WmOK(s0)
  BY <1>0, <1>4 DEF Kept
<1>6. RootOK(back)
  BY <1>4, <1>5, ActivateLoopRoot
<1>7. Kept(s0, back) /\ back.top = s.top
  BY <1>0, <1>3, <1>5, LoopFact, ActivateFact
<1> HIDE DEF back
<1>8. back \in WmState
  BY <1>7 DEF Kept, WmOK
<1>9. /\ b1 \in WmState /\ b1.order = back.order /\ b1.top = back.top /\ b1.desktop = back.desktop
      /\ b1.trans = back.trans /\ b1.mapped = back.mapped
  <2>1. b1 \in WmState
    BY <1>8 DEF WmState
  <2>2. /\ b1.order = back.order /\ b1.top = back.top /\ b1.desktop = back.desktop
        /\ b1.trans = back.trans /\ b1.mapped = back.mapped
    BY <1>8 DEF WmState
  <2> QED
    BY <2>1, <2>2
<1> HIDE DEF b1
<1>10. RootOK(b1) /\ Kept(back, b1)
  BY <1>6, <1>9, EditRoot
<1>11. c \in Managed(b1) /\ Acyclic(b1.trans) /\ b1.top # c
  BY <1>0, <1>4, <1>7, <1>9, <1>10 DEF Kept
<1>12. /\ f \in WmState /\ DialogTrans(f) /\ \A d \in Rooted : f.trans[d] = None
       /\ Topped(f, f.mapped, f.mapped) /\ Urged(f, f.mapped)
  BY <1>10, <1>11, ForgetRoot
<1> HIDE DEF f
<1>13. r.order = f.order /\ r.trans = f.trans /\ r.mapped = f.mapped
  BY <1>12 DEF WmState
<1> HIDE DEF r
<1>14. DialogTrans(r) /\ (\A d \in Rooted : r.trans[d] = None)
  BY <1>12, <1>13 DEF DialogTrans
<1>15. Topped(r, r.mapped, r.mapped) /\ Urged(r, r.mapped)
  BY <1>12, <1>13 DEF Topped, Urged
<1>16. WmOK(r)
  BY <1>1, <1>2 DEF Keeps, WmInv
<1>17. RootOK(r)
  BY <1>14, <1>15, <1>16 DEF RootOK, Ready
<1> QED
  BY <1>1, <1>17

LEMMA DestroyRoot ==
  ASSUME NEW s, RootOK(s), Acyclic(s.trans), ~s.hung, NEW c \in Managed(s)
  PROVE  RootOK(Destroy(Loop, s, c))
<1>0. c \in Clients /\ c # None /\ WmOK(s)
  BY WmFields DEF RootOK, Ready
<1>1. CASE Type[c] = "app"
  <2>1. Destroy(Loop, s, c) = Forget(MainUnmap(Loop, s, c), c)
    BY <1>1 DEF Destroy
  <2> QED
    BY <1>1, <2>1, AppDestroyRoot
<1>2. CASE Type[c] = "dialog"
  <2>1. Destroy(Loop, s, c) = DialogDestroy(Loop, s, c)
    BY <1>2 DEF Destroy
  <2> QED
    BY <1>2, <2>1, DialogDestroyRoot DEF IsDialog
<1>3. CASE Type[c] = "desktop"
  <2>1. Destroy(Loop, s, c) = DesktopDestroy(Loop, s, c)
    BY <1>3 DEF Destroy
  <2> QED
    BY <1>3, <2>1, DesktopDestroyRoot
<1>4. CASE Type[c] = "panel"
  <2>1. Destroy(Loop, s, c) = Forget(s, c)
    BY <1>4 DEF Destroy
  <2>2. s.top # c /\ s.desktop # c
    BY <1>0, <1>4, WmFields
  <2> QED
    BY <2>1, <2>2, ForgetRoot
<1> QED
  BY <1>0, <1>1, <1>2, <1>3, <1>4, WmAssumption

LEMMA NewClientRoot ==
  ASSUME NEW s, Idle(s), RootOK(s), NEW c \in Clients \ Managed(s), NEW hint \in Hints[c] \ {c}
  PROVE  RootOK(NewClient(s, c, hint))
<1> DEFINE t == NewClient(s, c, hint)
           stack == PutAbove(s.order, c, None)
           parent == IF hint = None \/ ~IsDialog(c) THEN None
                     ELSE IF hint \in Members(stack) THEN hint
                     ELSE IF Group[c] \in Members(stack) THEN Group[c]
                     ELSE None
<1>0. WmOK(s) /\ s \in WmState /\ DialogTrans(s) /\ s.trans \in [Clients -> Pointer]
  BY IdleFacts, WmFields DEF RootOK, Ready
<1>1. /\ WmOK(t) /\ InOrder(s.order, t.order, {}) /\ t.mapped = s.mapped /\ DialogTrans(t)
      /\ Managed(t) = Managed(s) \union {c}
  <2>1. /\ WmOK(t) /\ InOrder(s.order, t.order, {}) /\ t.mapped = s.mapped
        /\ Managed(t) = Managed(s) \union {c} /\ (DialogTrans(s) => DialogTrans(t))
    BY IdleFacts, NewClientFact
  <2> QED
    BY <1>0, <2>1
<1>2. t.trans = [s.trans EXCEPT ![c] = parent]
  BY <1>0 DEF NewClient, WmState
<1>3. \A d \in Rooted : t.trans[d] = None
  <2>1. c \in Rooted => hint = None
    BY DEF Rooted
  <2>2. c \in Rooted => parent = None
    BY <2>1
  <2> HIDE DEF t, parent
  <2> QED
    BY <1>0, <1>2, <2>2 DEF RootOK, Ready, Rooted
<1> HIDE DEF t
<1>4. \A a, b \in s.mapped : Place(s.order, a) < Place(s.order, b) => Place(t.order, a) < Place(t.order, b)
  <2>1. /\ IsStack(s.order) /\ IsStack(t.order)
        /\ s.mapped \subseteq Members(s.order) \ {} /\ s.mapped \subseteq Members(t.order)
    BY <1>0, <1>1, WmFields DEF Managed
  <2> QED
    BY <1>1, <2>1, StrictOrder
<1>5. Topped(t, t.mapped, t.mapped) /\ Urged(t, t.mapped)
  BY <1>1, <1>4 DEF RootOK, Topped, Urged
<1> QED
  BY <1>1, <1>3, <1>5 DEF RootOK, Ready, t

LEMMA MapNewRoot ==
  ASSUME Idle(wm), RootOK(wm), NEW c \in Clients, NEW hint \in Hints[c] \ {c}, MapNew(Loop, c, hint)
  PROVE  RootOK(wm')
<1> DEFINE new == NewClient(wm, c, hint)
           loop == [new EXCEPT !.hung = TRUE]
           brief == [new EXCEPT !.minimized = @ \ {c}]
<1>1. c \in Clients \ Managed(wm) /\ c # None
  BY StackAssumption DEF MapNew
<1>2. RootOK(new)
  BY <1>1, NewClientRoot
<1>3. WmOK(new) /\ Managed(new) = Managed(wm) \union {c}
  BY <1>1, IdleFacts, NewClientFact
<1>4. wm' = IF new.trans[c] = c THEN loop
            ELSE IF c \in StartIconic /\ Type[c] = "app" THEN Iconize(Loop, brief, c)
            ELSE Activate(Loop, new, c)
  BY DEF MapNew, Handle
<1> HIDE DEF new
<1>5. new \in WmState /\ new.minimized \subseteq Clients /\ c \in Managed(new)
  BY <1>3, WmFields DEF WmOK
<1>6. CASE new.trans[c] = c
  <2>1. /\ loop \in WmState /\ loop.order = new.order /\ loop.top = new.top
        /\ loop.desktop = new.desktop /\ loop.trans = new.trans /\ loop.mapped = new.mapped
    <3>1. loop \in WmState
      BY <1>5 DEF WmState
    <3>2. /\ loop.order = new.order /\ loop.top = new.top
          /\ loop.desktop = new.desktop /\ loop.trans = new.trans /\ loop.mapped = new.mapped
      BY <1>5 DEF WmState
    <3> QED
      BY <3>1, <3>2
  <2>2. wm' = loop
    BY <1>4, <1>6
  <2> HIDE DEF loop
  <2> QED
    BY <1>2, <2>1, <2>2, EditRoot
<1>7. CASE new.trans[c] # c /\ c \in StartIconic /\ Type[c] = "app"
  <2>1. /\ brief \in WmState /\ brief.order = new.order /\ brief.top = new.top
        /\ brief.desktop = new.desktop /\ brief.trans = new.trans /\ brief.mapped = new.mapped
    <3>1. brief \in WmState
      BY <1>5 DEF WmState
    <3>2. /\ brief.order = new.order /\ brief.top = new.top
          /\ brief.desktop = new.desktop /\ brief.trans = new.trans /\ brief.mapped = new.mapped
      BY <1>5 DEF WmState
    <3> QED
      BY <3>1, <3>2
  <2>2. wm' = Iconize(Loop, brief, c)
    BY <1>4, <1>7
  <2> HIDE DEF brief
  <2>3. RootOK(brief) /\ Kept(new, brief)
    BY <1>2, <2>1, EditRoot
  <2>4. c \in Managed(brief)
    BY <1>5, <2>3 DEF Kept
  <2> QED
    BY <2>2, <2>3, <2>4, LoopRoot, IconizeRoot
<1>8. CASE new.trans[c] # c /\ ~(c \in StartIconic /\ Type[c] = "app")
  BY <1>2, <1>4, <1>5, <1>8, ActivateLoopRoot
<1> QED
  BY <1>6, <1>7, <1>8

LEMMA MapAgainRoot ==
  ASSUME RootOK(wm), NEW c, MapAgain(Loop, c)
  PROVE  RootOK(wm')
BY ActivateLoopRoot DEF MapAgain, Handle

LEMMA RemoveClientRoot ==
  ASSUME Idle(wm), RootOK(wm), NEW c, RemoveClient(Loop, c)
  PROVE  RootOK(wm')
BY IdleFacts, DestroyRoot DEF RemoveClient, Handle

LEMMA ChangeStateRoot ==
  ASSUME RootOK(wm), NEW c, ChangeState(Loop, c)
  PROVE  RootOK(wm')
BY LoopRoot, IconizeRoot DEF ChangeState, Handle

(* The app that is shown brings these dialogs above the one moved before. *)
LEMMA RestackedRoot ==
  ASSUME NEW s, RootOK(s), ~s.hung, NEW S, NEW t, Moved(s, t, S),
         NEW c \in Managed(s), Type[c] = "app"
  PROVE  RootOK(Activate(Loop, t, c))
<1>1. Ready(t) /\ Managed(t) = Managed(s)
  BY MovedReady DEF RootOK
<1>2. ~t.hung
  BY DEF Moved, SameButOrder
<1>3. c # None /\ IsMain(c)
  BY WmFields DEF IsMain, RootOK, Ready
<1> QED
  BY <1>1, <1>2, <1>3, LoopRoot, ActivateRoot

LEMMA NextClientRoot ==
  ASSUME Idle(wm), RootOK(wm), NextClient(Loop)
  PROVE  RootOK(wm')
<1> DEFINE apps == Mapped(wm, {"app"})
           c == Lowest(wm, apps)
           t == Restack(wm, c, Highest(wm, apps))
<1>1. apps # {} /\ wm' = Activate(Loop, t, c)
  BY DEF NextClient, Handle
<1>2. c \in apps /\ Highest(wm, apps) \in apps /\ apps \subseteq Managed(wm)
  BY <1>1, IdleFacts, MappedApps
<1>3. c \in Managed(wm) /\ Type[c] = "app"
  BY <1>2 DEF Mapped
<1> HIDE DEF apps, c
<1>4. Moved(wm, t, {c})
  BY <1>2, <1>3, IdleFacts, RestackMoved
<1> QED
  BY <1>1, <1>3, <1>4, IdleFacts, RestackedRoot

LEMMA PrevClientRoot ==
  ASSUME Idle(wm), RootOK(wm), PrevClient(Loop)
  PROVE  RootOK(wm')
<1> DEFINE apps == Mapped(wm, {"app"})
           c == Highest(wm, apps)
           t == Restack(wm, c, None)
           d == Highest(t, apps)
<1>1. apps # {} /\ wm' = Activate(Loop, t, d)
  BY DEF PrevClient, Handle
<1>2. c \in apps /\ apps \subseteq Managed(wm)
  BY <1>1, IdleFacts, MappedApps
<1> HIDE DEF c
<1>3. Moved(wm, t, {c})
  BY <1>2, IdleFacts, RestackMoved
<1> HIDE DEF t
<1>4. WmOK(t) /\ Managed(t) = Managed(wm) /\ t.mapped = wm.mapped
  BY <1>3, IdleFacts, MovedOK DEF Moved, SameButOrder
<1>5. Mapped(t, {"app"}) = apps
  BY <1>4 DEF Mapped
<1>6. d \in apps
  BY <1>1, <1>4, <1>5, MappedApps
<1>7. d \in Managed(wm) /\ Type[d] = "app"
  BY <1>6 DEF Mapped
<1> HIDE DEF d
<1> QED
  BY <1>1, <1>3, <1>7, IdleFacts, RestackedRoot

LEMMA ToggleDesktopRoot ==
  ASSUME Idle(wm), RootOK(wm), ToggleDesktop(Loop)
  PROVE  RootOK(wm')
<1> DEFINE c == IF wm.raised THEN wm.top ELSE wm.desktop
<1>1. wm' = Activate(Loop, wm, c)
  BY DEF ToggleDesktop, Handle
<1>2. c \in Managed(wm) \union {None}
  BY IdleFacts, WmFields
<1> HIDE DEF c
<1> QED
  BY <1>1, <1>2, ActivateLoopRoot

LEMMA NetActiveWindowRoot ==
  ASSUME Idle(wm), RootOK(wm), NEW c, NetActiveWindow(Loop, c)
  PROVE  RootOK(wm')
<1> DEFINE r == Root(wm, c)
           first == IF IsDialog(c) /\ r \notin {c, Visible(wm)} THEN Activate(Loop, wm, r) ELSE wm
<1>1. c \in Managed(wm) /\ wm' = Activate(Loop, first, c)
  BY DEF NetActiveWindow, Handle
<1>2. r \in Managed(wm)
  BY <1>1, IdleFacts, RootManaged
<1> HIDE DEF r
<1>3. Kept(wm, first) /\ RootOK(first)
  <2>1. Kept(wm, Activate(Loop, wm, r)) /\ RootOK(Activate(Loop, wm, r))
    BY <1>2, IdleFacts, LoopFact, ActivateFact, ActivateLoopRoot
  <2> QED
    BY <2>1, IdleFacts, KeptSame
<1> HIDE DEF first
<1>4. c \in Managed(first)
  BY <1>1, <1>3 DEF Kept
<1> QED
  BY <1>1, <1>3, <1>4, ActivateLoopRoot

LEMMA EditActivateRoot ==
  ASSUME RootOK(wm), NEW t \in WmState,
         t.order = wm.order, t.top = wm.top, t.desktop = wm.desktop, t.trans = wm.trans,
         t.mapped = wm.mapped, NEW c \in Managed(wm)
  PROVE  RootOK(Activate(Loop, t, c))
<1>1. RootOK(t) /\ Kept(wm, t)
  BY EditRoot
<1>2. c \in Managed(t)
  BY <1>1 DEF Kept
<1> QED
  BY <1>1, <1>2, ActivateLoopRoot

LEMMA NetWmStateAboveRoot ==
  ASSUME Idle(wm), RootOK(wm), NEW c, NetWmStateAbove(Loop, c)
  PROVE  RootOK(wm')
<1>1. PICK S \in {wm.above \union {c}, wm.above \ {c}} :
        wm' = Activate(Loop, [wm EXCEPT !.above = S], c)
  BY DEF NetWmStateAbove, Handle
<1>2. c \in Managed(wm) /\ c \in Clients
  BY IdleFacts, WmFields DEF NetWmStateAbove
<1>3. S \in SUBSET Clients
  BY <1>2, IdleFacts, WmFields
<1> DEFINE t == [wm EXCEPT !.above = S]
<1>4. /\ t \in WmState /\ t.order = wm.order /\ t.top = wm.top /\ t.desktop = wm.desktop
      /\ t.trans = wm.trans /\ t.mapped = wm.mapped
  <2>1. t \in WmState
    BY <1>3, IdleFacts DEF WmState
  <2>2. /\ t.order = wm.order /\ t.top = wm.top /\ t.desktop = wm.desktop
        /\ t.trans = wm.trans /\ t.mapped = wm.mapped
    BY <1>3, IdleFacts DEF WmState
  <2> QED
    BY <2>1, <2>2
<1> HIDE DEF t
<1> QED
  BY <1>1, <1>2, <1>4, EditActivateRoot DEF t

LEMMA ToggleFullscreenRoot ==
  ASSUME Idle(wm), RootOK(wm), NEW c, ToggleFullscreen(Loop, c)
  PROVE  RootOK(wm')
<1> DEFINE S == IF c \in wm.full THEN wm.full \ {c} ELSE wm.full \union {c}
           t == [wm EXCEPT !.full = S]
<1>1. wm' = Activate(Loop, t, c)
  <2>1. wm' = Activate(Loop, [wm EXCEPT !.full = IF c \in @ THEN @ \ {c} ELSE @ \union {c}], c)
    BY DEF ToggleFullscreen, Handle
  <2>2. t = [wm EXCEPT !.full = IF c \in @ THEN @ \ {c} ELSE @ \union {c}]
    BY IdleFacts DEF WmState
  <2> QED
    BY <2>1, <2>2
<1>2. c \in Managed(wm) /\ c \in Clients
  BY IdleFacts, WmFields DEF ToggleFullscreen
<1>3. S \in SUBSET Clients
  BY <1>2, IdleFacts, WmFields
<1> HIDE DEF S
<1>4. /\ t \in WmState /\ t.order = wm.order /\ t.top = wm.top /\ t.desktop = wm.desktop
      /\ t.trans = wm.trans /\ t.mapped = wm.mapped
  <2>1. t \in WmState
    BY <1>3, IdleFacts DEF WmState
  <2>2. /\ t.order = wm.order /\ t.top = wm.top /\ t.desktop = wm.desktop
        /\ t.trans = wm.trans /\ t.mapped = wm.mapped
    BY <1>3, IdleFacts DEF WmState
  <2> QED
    BY <2>1, <2>2
<1> HIDE DEF t
<1> QED
  BY <1>1, <1>2, <1>4, EditActivateRoot

(* A dialog whose hint is always None never becomes transient. *)
LEMMA TransientForChangeRoot ==
  ASSUME DialogsRetarget, Idle(wm), RootOK(wm), NEW c \in Clients, NEW hint \in Hints[c] \ {c},
         TransientForChange(c, hint)
  PROVE  RootOK(wm')
<1> DEFINE b == IF hint \in Managed(wm) /\ c \notin {hint} \union Ancestors(wm, hint) THEN hint ELSE None
           t == [wm EXCEPT !.trans[c] = b]
<1>1. wm' = t /\ c \in Retarget
  BY DEF TransientForChange, Handle
<1>2. WmOK(t)
  <2>1. Keeps(wm, wm')
    BY TransientForChangeKeeps
  <2> QED
    BY <1>1, <2>1 DEF Keeps, WmInv
<1>3. wm \in WmState /\ wm.trans \in [Clients -> Pointer] /\ DialogTrans(wm)
  BY IdleFacts, WmFields DEF RootOK, Ready
<1>4. c \in Rooted => b = None
  <2>1. c \in Rooted => hint = None
    BY DEF Rooted
  <2> QED
    BY <2>1
<1> HIDE DEF b
<1>5. /\ t.order = wm.order /\ t.mapped = wm.mapped /\ t.trans = [wm.trans EXCEPT ![c] = b]
  BY <1>3 DEF WmState
<1> HIDE DEF t
<1>6. t.trans[c] = b /\ \A p \in Clients \ {c} : t.trans[p] = wm.trans[p]
  BY <1>3, <1>5
<1>7. DialogTrans(t)
  BY <1>1, <1>3, <1>6 DEF DialogTrans, DialogsRetarget
<1>8. \A d \in Rooted : t.trans[d] = None
  BY <1>4, <1>6 DEF RootOK, Ready, Rooted
<1>9. Topped(t, t.mapped, t.mapped) /\ Urged(t, t.mapped)
  BY <1>5 DEF RootOK, Topped, Urged
<1> QED
  BY <1>1, <1>2, <1>7, <1>8, <1>9 DEF RootOK, Ready

LEMMA ButtonPressRoot ==
  ASSUME Idle(wm), RootOK(wm), NEW c, ButtonPress(Loop, c)
  PROVE  RootOK(wm')
<1> DEFINE focused == SetFocus(wm, c)
           t == [focused EXCEPT !.next[c] = None]
<1>1. /\ c \in Managed(wm)
      /\ wm' = IF IsDialog(c) THEN (IF c = wm.focus THEN wm ELSE Activate(Loop, wm, c))
               ELSE IF IsMain(c) THEN t ELSE focused
  BY DEF ButtonPress, Handle
<1>2. c \in Clients /\ c \in Pointer /\ None \in Pointer
  BY <1>1, IdleFacts, WmFields DEF Pointer
<1>3. Steady(wm, focused) /\ SameStack(wm, focused)
  BY <1>2, IdleFacts, SetFocusSteady, SetFocusStack
<1>4. RootOK(focused)
  BY <1>3, SameRoot DEF Steady, SameStack
<1> HIDE DEF focused
<1>5. focused \in WmState /\ focused.next \in [Clients -> Pointer]
  BY <1>3, WmFields DEF Steady, Kept, WmOK
<1>6. /\ t \in WmState /\ t.order = focused.order /\ t.top = focused.top
      /\ t.desktop = focused.desktop /\ t.trans = focused.trans /\ t.mapped = focused.mapped
  <2>1. t \in WmState
    BY <1>2, <1>5 DEF WmState
  <2>2. /\ t.order = focused.order /\ t.top = focused.top
        /\ t.desktop = focused.desktop /\ t.trans = focused.trans /\ t.mapped = focused.mapped
    BY <1>2, <1>5 DEF WmState
  <2> QED
    BY <2>1, <2>2
<1> HIDE DEF t
<1>7. RootOK(t)
  BY <1>4, <1>6, EditRoot
<1>8. RootOK(Activate(Loop, wm, c))
  BY <1>1, ActivateLoopRoot
<1> QED
  BY <1>1, <1>4, <1>7, <1>8

(* The invariant with what keeps these dialogs on top *)
RootIInv == WmIInv /\ RootOK(wm)

LEMMA WmInitRoot ==
  ASSUME WmInit
  PROVE  RootIInv
<1>1. WmIInv
  BY WmInitInv
<1>2. WmOK(wm)
  BY <1>1 DEF WmIInv, WmInv
<1>3. wm.mapped = {} /\ wm.trans = [c \in Clients |-> None]
  BY DEF WmInit
<1>4. Ready(wm)
  BY <1>2, <1>3 DEF Ready, DialogTrans, Rooted
<1>5. Topped(wm, wm.mapped, wm.mapped) /\ Urged(wm, wm.mapped)
  BY <1>3 DEF Topped, Urged
<1> QED
  BY <1>1, <1>4, <1>5 DEF RootIInv, RootOK

LEMMA WmNextRoot ==
  ASSUME DialogsRetarget, RootIInv, [WmNext]_wm
  PROVE  RootIInv'
<1>0. WmIInv' /\ RootOK(wm)
  BY WmNextInv DEF RootIInv
<1>1. SUFFICES RootOK(wm')
  BY <1>0 DEF RootIInv
<1>2. CASE UNCHANGED wm
  BY <1>0, <1>2
<1>3. CASE WmNext
  <2>1. Intact(wm)
    BY <1>3 DEF WmNext, MapNew, TransientForChange, MapAgain, RemoveClient, ChangeState,
                NetActiveWindow, NetWmStateAbove, ToggleFullscreen, ButtonPress, NextClient,
                PrevClient, ToggleDesktop, Handle
  <2>2. Idle(wm)
    BY <2>1 DEF Intact, Idle, RootIInv, WmIInv
  <2>3. ASSUME NEW c \in Clients, NEW hint \in Hints[c] \ {c},
               MapNew(Loop, c, hint) \/ TransientForChange(c, hint)
        PROVE  RootOK(wm')
    BY <1>0, <2>2, <2>3, MapNewRoot, TransientForChangeRoot
  <2>4. ASSUME NEW c \in Clients,
               \/ MapAgain(Loop, c)
               \/ RemoveClient(Loop, c)
               \/ ChangeState(Loop, c)
               \/ NetActiveWindow(Loop, c)
               \/ NetWmStateAbove(Loop, c)
               \/ ToggleFullscreen(Loop, c)
               \/ ButtonPress(Loop, c)
        PROVE  RootOK(wm')
    <3>1. CASE MapAgain(Loop, c)
      BY <1>0, <3>1, MapAgainRoot
    <3>2. CASE RemoveClient(Loop, c)
      BY <1>0, <2>2, <3>2, RemoveClientRoot
    <3>3. CASE ChangeState(Loop, c)
      BY <1>0, <3>3, ChangeStateRoot
    <3>4. CASE NetActiveWindow(Loop, c)
      BY <1>0, <2>2, <3>4, NetActiveWindowRoot
    <3>5. CASE NetWmStateAbove(Loop, c)
      BY <1>0, <2>2, <3>5, NetWmStateAboveRoot
    <3>6. CASE ToggleFullscreen(Loop, c)
      BY <1>0, <2>2, <3>6, ToggleFullscreenRoot
    <3>7. CASE ButtonPress(Loop, c)
      BY <1>0, <2>2, <3>7, ButtonPressRoot
    <3> QED
      BY <2>4, <3>1, <3>2, <3>3, <3>4, <3>5, <3>6, <3>7
  <2>5. CASE NextClient(Loop) \/ PrevClient(Loop) \/ ToggleDesktop(Loop)
    BY <1>0, <2>2, <2>5, NextClientRoot, PrevClientRoot, ToggleDesktopRoot
  <2> QED
    BY <1>3, <2>3, <2>4, <2>5 DEF WmNext
<1> QED
  BY <1>2, <1>3

LEMMA InvRootDialogs ==
  ASSUME RootIInv
  PROVE  RootDialogsOnTop
<1>1. RootOK(wm) /\ IsStack(wm.order)
  BY WmFields DEF RootIInv, RootOK, Ready
<1>2. \A d \in Mapped(wm, {"dialog"}) : IsDialog(d) /\ d \in wm.mapped /\ d \in Managed(wm)
  BY DEF Mapped, IsDialog
<1>3. \A c \in Mapped(wm, {"app", "desktop"}) : IsMain(c) /\ c \in wm.mapped /\ c \in Managed(wm)
  BY DEF Mapped, IsMain
<1>4. Managed(wm) \subseteq Clients /\ \A c \in Managed(wm) : Place(wm.order, c) \in Nat
  BY <1>1, StackMembers DEF Managed
<1>5. ASSUME NEW d \in Mapped(wm, {"dialog"}), Hints[d] = {None}
      PROVE  d \in Rooted \intersect wm.mapped
  BY <1>2, <1>4, <1>5 DEF Rooted
<1>6. ASSUME NEW d \in Mapped(wm, {"dialog"}), Hints[d] = {None},
             NEW c \in Mapped(wm, {"app", "desktop"})
      PROVE  Place(wm.order, d) > Place(wm.order, c)
  <2>1. Place(wm.order, c) < Place(wm.order, d)
    BY <1>1, <1>3, <1>5, <1>6 DEF RootOK, Topped
  <2> QED
    BY <1>2, <1>3, <1>4, <2>1
<1>7. ASSUME NEW d \in Mapped(wm, {"dialog"}), Hints[d] = {None},
             NEW e \in Mapped(wm, {"dialog"}) \ Urgent, d \in Urgent
      PROVE  Place(wm.order, d) > Place(wm.order, e)
  <2>1. Place(wm.order, e) < Place(wm.order, d)
    BY <1>1, <1>2, <1>5, <1>7 DEF RootOK, Urged
  <2> QED
    BY <1>2, <1>4, <2>1
<1> QED
  BY <1>6, <1>7 DEF RootDialogsOnTop

(* For any windows of which only dialogs change what they are transient for: *)
(* dialogs that never belong to a window, such as those of the system, are   *)
(* above all apps and the desktop, and urgent ones above the dialogs that    *)
(* are not urgent, whatever the handlers restack on the way and wherever     *)
(* their loops stop.                                                         *)
THEOREM RootDialogsSafe ==
  ASSUME DialogsRetarget
  PROVE  WmSpec => []RootDialogsOnTop
<1>1. WmInit => RootIInv
  BY WmInitRoot
<1>2. RootIInv /\ [WmNext]_wm => RootIInv'
  BY WmNextRoot
<1>3. RootIInv => RootDialogsOnTop
  BY InvRootDialogs
<1> QED
  BY <1>1, <1>2, <1>3, PTL DEF WmSpec
=============================================================================
