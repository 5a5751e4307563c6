---------------------------- MODULE Lists_proofs ----------------------------
(***************************************************************************)
(* What the operators on lists return, for any elements; and that a        *)
(* recursion over the numbers up to a bound defines a function.            *)
(***************************************************************************)
EXTENDS Lists, NaturalsInduction, FunctionTheorems, FiniteSetTheorems, SequenceTheorems, TLAPS

Smallest(S) == CHOOSE n \in S : \A m \in S : n <= m

(* A set of naturals that is not empty has a least element. *)
LEMMA SmallestFact ==
  ASSUME NEW S \in SUBSET Nat, S # {}
  PROVE  Smallest(S) \in S /\ \A m \in S : Smallest(S) <= m
<1> DEFINE R == {ss \in Nat \X Nat : ss[1] < ss[2]}
<1>1. IsWellFoundedOn(R, Nat)
  BY NatLessThanWellFounded DEF OpToRel
<1>2. PICK n \in S : \A m \in S : ~ (<<m, n>> \in R)
  <2> HIDE DEF R
  <2> QED
    BY <1>1, WFMin
<1>3. \A m \in S : n <= m
  <2>1. ASSUME NEW m \in S, ~ (n <= m)
        PROVE  FALSE
    <3>1. m \in Nat /\ n \in Nat /\ m < n
      BY <2>1
    <3>2. <<m, n>> \in R
      BY <3>1
    <3> QED
      BY <1>2, <3>2
  <2> QED
    BY <2>1
<1> QED
  BY <1>3 DEF Smallest

(* Induction over the numbers up to L. *)
LEMMA StepsFact ==
  ASSUME NEW L \in Nat, NEW S, 0 \in S, \A n \in 0 .. L : n \in S /\ n < L => n + 1 \in S
  PROVE  0 .. L \subseteq S
<1> SUFFICES ASSUME (0 .. L) \ S # {} PROVE FALSE
  OBVIOUS
<1> DEFINE B == (0 .. L) \ S
           b == Smallest(B)
<1>1. b \in B /\ \A m \in B : b <= m
  BY SmallestFact
<1> HIDE DEF b
<1>2. b \in 0 .. L /\ b # 0 /\ b \notin S
  BY <1>1
<1>3. b - 1 \in 0 .. L /\ b - 1 < b /\ b - 1 < L /\ b - 1 + 1 = b
  BY <1>2
<1>4. b - 1 \in S
  BY <1>1, <1>2, <1>3
<1> QED
  BY <1>2, <1>3, <1>4

(* g_list_index gives the first place of an element. *)
LEMMA AtFact ==
  ASSUME NEW S, NEW s \in Seq(S), NEW i, \E n \in DOMAIN s : s[n] = i
  PROVE  At(s, i) \in DOMAIN s /\ s[At(s, i)] = i
<1> DEFINE places == {n \in DOMAIN s : s[n] = i}
           k == Smallest(places)
<1>1. places \in SUBSET Nat /\ places # {}
  OBVIOUS
<1> HIDE DEF places
<1>2. k \in places /\ \A n \in places : k <= n
  BY <1>1, SmallestFact
<1> HIDE DEF k
<1>3. k \in DOMAIN s /\ s[k] = i /\ \A n \in DOMAIN s : s[n] = i => k <= n
  BY <1>2 DEF places
<1> QED
  BY <1>3 DEF At

LEMMA TakenOutFact ==
  ASSUME NEW S, NEW s \in Seq(S), Once(s), NEW i
  PROVE  LET t == TakenOut(s, i)
         IN /\ t \in Seq(S) /\ Once(t) /\ Entries(t) = Entries(s) \ {i}
            /\ \A m, n \in DOMAIN t : m < n =>
                 \E j, k \in DOMAIN s : j < k /\ t[m] = s[j] /\ t[n] = s[k]
<1> DEFINE t == TakenOut(s, i)
<1>1. Len(s) \in Nat /\ DOMAIN s = 1 .. Len(s)
  OBVIOUS
<1>2. CASE \A n \in DOMAIN s : s[n] # i
  <2>1. t = s /\ i \notin Entries(s)
    BY <1>2 DEF TakenOut, Entries
  <2> QED
    BY <2>1
<1>3. CASE \E n \in DOMAIN s : s[n] = i
  <2>21. At(s, i) \in DOMAIN s /\ s[At(s, i)] = i
    BY <1>3, AtFact
  <2>22. TakenOut(s, i) = [n \in 1 .. Len(s) - 1 |-> IF n < At(s, i) THEN s[n] ELSE s[n + 1]]
    BY <1>3 DEF TakenOut
  <2> DEFINE k == At(s, i)
             from(n) == IF n < k THEN n ELSE n + 1
  <2>1. k \in 1 .. Len(s) /\ s[k] = i
    BY <1>1, <2>21
  <2>2. t = [n \in 1 .. Len(s) - 1 |-> IF n < k THEN s[n] ELSE s[n + 1]]
    BY <2>22
  <2> HIDE DEF k, t
  <2>3. Len(s) - 1 \in Nat /\ \A n \in 1 .. Len(s) - 1 : (IF n < k THEN s[n] ELSE s[n + 1]) \in S
    BY <1>1, <2>1
  <2>4. t \in Seq(S) /\ Len(t) = Len(s) - 1 /\ DOMAIN t = 1 .. Len(s) - 1
    BY <2>2, <2>3
  <2>5. \A n \in DOMAIN t : from(n) \in 1 .. Len(s) /\ from(n) # k /\ t[n] = s[from(n)]
    <3>1. TAKE n \in DOMAIN t
    <3>2. n \in 1 .. Len(s) - 1 /\ t[n] = IF n < k THEN s[n] ELSE s[n + 1]
      BY <2>2, <2>4
    <3> QED
      BY <1>1, <2>1, <3>2
  <2>6. \A m, n \in DOMAIN t : m < n => from(m) < from(n)
    BY <1>1, <2>1, <2>4
  <2>7. \A j \in 1 .. Len(s) : j # k => \E n \in DOMAIN t : from(n) = j
    <3> SUFFICES ASSUME NEW j \in 1 .. Len(s), j # k PROVE \E n \in DOMAIN t : from(n) = j
      OBVIOUS
    <3>1. CASE j < k
      <4>1. j \in DOMAIN t /\ from(j) = j
        BY <1>1, <2>1, <2>4, <3>1
      <4> QED
        BY <4>1
    <3>2. CASE ~(j < k)
      <4>1. j - 1 \in DOMAIN t /\ from(j - 1) = j
        BY <1>1, <2>1, <2>4, <3>2
      <4> QED
        BY <4>1
    <3> QED
      BY <3>1, <3>2
  <2> HIDE DEF from
  <2>8. \A m, n \in 1 .. Len(s) : m # n => s[m] # s[n]
    BY <1>1 DEF Once
  <2>9. Once(t)
    <3> SUFFICES ASSUME NEW m \in DOMAIN t, NEW n \in DOMAIN t, m # n PROVE t[m] # t[n]
      BY DEF Once
    <3>1. from(m) # from(n)
      <4>1. m < n \/ n < m
        BY <1>1, <2>4
      <4>2. from(m) \in Int /\ from(n) \in Int
        BY <1>1, <2>5
      <4> QED
        BY <2>6, <4>1, <4>2
    <3> QED
      BY <2>5, <2>8, <3>1
  <2>10. Entries(t) \subseteq Entries(s) \ {i}
    BY <1>1, <2>1, <2>5, <2>8 DEF Entries
  <2>11. Entries(s) \ {i} \subseteq Entries(t)
    <3> SUFFICES ASSUME NEW c \in Entries(s), c # i PROVE c \in Entries(t)
      OBVIOUS
    <3>1. PICK j \in 1 .. Len(s) : c = s[j]
      BY <1>1 DEF Entries
    <3>2. PICK n \in DOMAIN t : from(n) = j
      BY <2>1, <2>7, <3>1
    <3> QED
      BY <2>5, <3>1, <3>2 DEF Entries
  <2>12. \A m, n \in DOMAIN t : m < n =>
           \E j, l \in DOMAIN s : j < l /\ t[m] = s[j] /\ t[n] = s[l]
    BY <1>1, <2>5, <2>6
  <2> QED
    BY <2>4, <2>9, <2>10, <2>11, <2>12 DEF t
<1> QED
  BY <1>2, <1>3

LEMMA AppendFact ==
  ASSUME NEW S, NEW s \in Seq(S), Once(s), NEW i \in S \ Entries(s)
  PROVE  LET t == Append(s, i)
         IN /\ t \in Seq(S) /\ Once(t) /\ Entries(t) = Entries(s) \union {i}
            /\ DOMAIN t = 1 .. Len(s) + 1 /\ t[Len(s) + 1] = i
            /\ \A n \in 1 .. Len(s) : t[n] = s[n]
<1> DEFINE t == Append(s, i)
           l == Len(s)
<1>1. /\ l \in Nat /\ DOMAIN s = 1 .. l /\ t \in Seq(S) /\ DOMAIN t = 1 .. l + 1
      /\ t[l + 1] = i /\ \A n \in 1 .. l : t[n] = s[n]
  OBVIOUS
<1>2. \A n \in 1 .. l : s[n] # i
  BY <1>1 DEF Entries
<1>3. \A m, n \in 1 .. l : m # n => s[m] # s[n]
  BY <1>1 DEF Once
<1> HIDE DEF t, l
<1>4. \A n \in 1 .. l + 1 : n = l + 1 \/ n \in 1 .. l
  BY <1>1
<1>5. Once(t)
  BY <1>1, <1>2, <1>3, <1>4 DEF Once
<1>6. Entries(t) = Entries(s) \union {i}
  <2>1. l + 1 \in 1 .. l + 1 /\ \A n \in 1 .. l : n \in 1 .. l + 1
    BY <1>1
  <2>2. Entries(t) \subseteq Entries(s) \union {i}
    BY <1>1, <1>4 DEF Entries
  <2>3. Entries(s) \union {i} \subseteq Entries(t)
    BY <1>1, <2>1 DEF Entries
  <2> QED
    BY <2>2, <2>3
<1> QED
  BY <1>1, <1>5, <1>6 DEF t, l

LEMMA TakenOutTypeFact ==
  ASSUME NEW S, NEW s \in Seq(S), NEW i
  PROVE  TakenOut(s, i) \in Seq(S)
<1>1. CASE \A n \in DOMAIN s : s[n] # i
  BY <1>1 DEF TakenOut
<1>2. CASE \E n \in DOMAIN s : s[n] = i
  <2> DEFINE k == At(s, i)
  <2>1. TakenOut(s, i) = [n \in 1 .. Len(s) - 1 |-> IF n < k THEN s[n] ELSE s[n + 1]]
    BY <1>2 DEF TakenOut
  <2>2. k \in 1 .. Len(s) /\ Len(s) \in Nat
    BY <1>2, AtFact
  <2> HIDE DEF k
  <2>3. Len(s) - 1 \in Nat /\ \A n \in 1 .. Len(s) - 1 : (IF n < k THEN s[n] ELSE s[n + 1]) \in S
    BY <2>2
  <2> QED
    BY <2>1, <2>3
<1> QED
  BY <1>1, <1>2

(* A recursion over the numbers up to L defines a function. *)
Steps(L, T) == [1 .. L -> [T -> T]]

Recurs(L, T, b, f) ==
  \E g \in [0 .. L -> T] : g[0] = b /\ \A n \in 1 .. L : g[n] = f[n][g[n - 1]]

LEMMA RecursionFact ==
  ASSUME NEW L \in Nat, NEW T, NEW b \in T, NEW f \in Steps(L, T)
  PROVE  Recurs(L, T, b, f)
<1> USE DEF Steps
<1> DEFINE Begun(k, g) == g \in [0 .. k -> T] /\ g[0] = b /\ \A n \in 1 .. k : g[n] = f[n][g[n - 1]]
           S == {k \in 0 .. L : \E g : Begun(k, g)}
<1>1. 0 \in S
  <2>1. Begun(0, [n \in 0 .. 0 |-> b])
    OBVIOUS
  <2> HIDE DEF Begun
  <2> QED
    BY <2>1
<1>2. ASSUME NEW k \in 0 .. L, k \in S, k < L PROVE k + 1 \in S
  <2>1. PICK g : Begun(k, g)
    BY <1>2
  <2> DEFINE h == [n \in 0 .. k + 1 |-> IF n = k + 1 THEN f[k + 1][g[k]] ELSE g[n]]
  <2>2. g[k] \in T /\ k + 1 \in 1 .. L /\ k \in 0 .. k
    BY <2>1, <1>2
  <2>3. f[k + 1][g[k]] \in T
    BY <2>2
  <2>4. h \in [0 .. k + 1 -> T]
    BY <2>1, <2>3
  <2>5. /\ h[k + 1] = f[k + 1][g[k]] /\ \A n \in 0 .. k : h[n] = g[n]
        /\ 0 \in 0 .. k /\ \A n \in 1 .. k : n - 1 \in 0 .. k /\ n \in 0 .. k
    BY <1>2
  <2> HIDE DEF h
  <2>6. \A n \in 1 .. k + 1 : h[n] = f[n][h[n - 1]]
    <3> SUFFICES ASSUME NEW n \in 1 .. k + 1 PROVE h[n] = f[n][h[n - 1]]
      OBVIOUS
    <3>1. CASE n = k + 1
      <4>1. n - 1 = k
        BY <1>2, <3>1
      <4> QED
        BY <2>2, <2>5, <3>1, <4>1
    <3>2. CASE n # k + 1
      <4>1. n \in 1 .. k
        BY <1>2, <3>2
      <4> QED
        BY <2>1, <2>5, <4>1
    <3> QED
      BY <3>1, <3>2
  <2>7. Begun(k + 1, h)
    BY <2>1, <2>4, <2>5, <2>6
  <2>8. k + 1 \in 0 .. L
    BY <1>2
  <2> HIDE DEF Begun
  <2> QED
    BY <2>7, <2>8
<1> HIDE DEF S, Begun
<1>3. 0 .. L \subseteq S
  BY <1>1, <1>2, StepsFact
<1>4. PICK g : Begun(L, g)
  BY <1>3 DEF S
<1> QED
  BY <1>4 DEF Begun, Recurs

(* The elements at some places of a list. *)
Extended(s, i) == Append(s, i)

PicksOK(S, list, L, I, p) ==
  /\ p[0] = <<>>
  /\ \A n \in 1 .. L : p[n] = IF n \in I THEN Extended(p[n - 1], list[n]) ELSE p[n - 1]
  /\ \A n \in 0 .. L : p[n] \in Seq(S)

LEMMA PicksFact ==
  ASSUME NEW S, NEW list \in Seq(S), NEW L \in Nat, Len(list) = L, NEW I
  PROVE  PicksOK(S, list, L, I, Picks(list, I))
<1> DEFINE Step(x, n) == IF n \in I THEN Append(x, list[n]) ELSE x
           F(g) == [n \in 0 .. L |-> IF n = 0 THEN <<>> ELSE Step(g[n - 1], n)]
           picked == CHOOSE g : g = F(g)
<1>1. Picks(list, I) = picked
  BY DEF Picks
<1>2. \A x \in Seq(S) : \A n \in 1 .. L : Step(x, n) \in Seq(S)
  OBVIOUS
<1> HIDE DEF Step
<1>3. \E g : g = F(g)
  <2> DEFINE T == Seq(S)
             f == [n \in 1 .. L |-> [x \in T |-> Step(x, n)]]
             b == <<>>
  <2>0. L \in Nat /\ b \in T /\ \A x \in T : \A n \in 1 .. L : Step(x, n) \in T
    BY <1>2
  <2> HIDE DEF T, b
  <2>1. f \in Steps(L, T)
    BY <2>0 DEF Steps
  <2>2. \A x \in T : \A n \in 1 .. L : f[n][x] = Step(x, n)
    OBVIOUS
  <2> HIDE DEF f
  <2>3. PICK g \in [0 .. L -> T] : g[0] = b /\ \A n \in 1 .. L : g[n] = f[n][g[n - 1]]
    <3>1. Recurs(L, T, b, f)
      BY <2>0, <2>1, RecursionFact
    <3> QED
      BY <3>1 DEF Recurs
  <2>4. \A n \in 1 .. L : g[n] = Step(g[n - 1], n)
    <3> SUFFICES ASSUME NEW n \in 1 .. L PROVE g[n] = Step(g[n - 1], n)
      OBVIOUS
    <3>1. g[n - 1] \in T
      BY <2>3
    <3> QED
      BY <2>2, <2>3, <3>1
  <2>5. g = F(g)
    BY <2>3, <2>4 DEF b
  <2> QED
    BY <2>5
<1>4. picked = F(picked)
  BY <1>3
<1> HIDE DEF picked
<1>5. picked[0] = <<>> /\ \A n \in 1 .. L : picked[n] = Step(picked[n - 1], n)
  BY <1>4
<1>6. 0 .. L \subseteq {n \in 0 .. L : picked[n] \in Seq(S)}
  <2> DEFINE T == Seq(S)
             D == {n \in 0 .. L : picked[n] \in T}
  <2>1. 0 \in D
    <3>1. <<>> \in T /\ 0 \in 0 .. L
      OBVIOUS
    <3> HIDE DEF T
    <3> QED
      BY <1>5, <3>1
  <2>2. ASSUME NEW n \in 0 .. L, n \in D, n < L PROVE n + 1 \in D
    <3>1. n + 1 \in 1 .. L /\ n + 1 - 1 = n /\ n + 1 \in 0 .. L
      BY <2>2
    <3>2. Step(picked[n], n + 1) \in T
      BY <1>2, <2>2, <3>1
    <3> HIDE DEF T
    <3> QED
      BY <1>5, <3>1, <3>2
  <2> HIDE DEF D
  <2>3. 0 .. L \subseteq D
    BY <2>1, <2>2, StepsFact
  <2> QED
    BY <2>3 DEF D
<1> QED
  <2>1. \A x, n : Step(x, n) = IF n \in I THEN Extended(x, list[n]) ELSE x
    BY DEF Step, Extended
  <2> QED
    BY <1>1, <1>5, <1>6, <2>1 DEF PicksOK

(* The places that are picked of a list hold different elements. *)
Apart(list, I) == \A m, n \in DOMAIN list : m \in I /\ n \in I /\ m # n => list[m] # list[n]

PickedTo(S, list, I, n, y) ==
  /\ y \in Seq(S) /\ Once(y)
  /\ \A c : c \in Entries(y) <=> \E m \in 1 .. n : m \in I /\ list[m] = c

LEMMA PicksOnceFact ==
  ASSUME NEW S, NEW list \in Seq(S), NEW L \in Nat, Len(list) = L, NEW I, Apart(list, I)
  PROVE  \A n \in 0 .. L : PickedTo(S, list, I, n, Picks(list, I)[n])
<1> DEFINE p == Picks(list, I)
           OK(n) == /\ p[n] \in Seq(S) /\ Once(p[n])
                    /\ \A c : c \in Entries(p[n]) <=> \E m \in 1 .. n : m \in I /\ list[m] = c
           D == {n \in 0 .. L : OK(n)}
<1>1. /\ p[0] = <<>>
      /\ \A n \in 1 .. L : p[n] = IF n \in I THEN Extended(p[n - 1], list[n]) ELSE p[n - 1]
      /\ \A n \in 0 .. L : p[n] \in Seq(S)
  BY PicksFact DEF PicksOK
<1> HIDE DEF p
<1>2. 0 \in D
  <2>1. OK(0)
    BY <1>1 DEF Once, Entries
  <2> HIDE DEF OK
  <2> QED
    BY <2>1
<1>3. ASSUME NEW n \in 0 .. L, n \in D, n < L PROVE n + 1 \in D
  <2>1. /\ n + 1 \in 1 .. L /\ n + 1 - 1 = n /\ n + 1 \in 0 .. L /\ DOMAIN list = 1 .. L
        /\ \A m \in 1 .. n : m \in 1 .. L /\ m # n + 1 /\ m \in 1 .. n + 1
        /\ \A m \in 1 .. n + 1 : m = n + 1 \/ m \in 1 .. n
    BY <1>3
  <2>2. OK(n)
    BY <1>3
  <2>3. CASE n + 1 \notin I
    <3>1. p[n + 1] = p[n]
      BY <1>1, <2>1, <2>3
    <3>2. \A c : (\E m \in 1 .. n + 1 : m \in I /\ list[m] = c) <=> \E m \in 1 .. n : m \in I /\ list[m] = c
      BY <2>1, <2>3
    <3>3. OK(n + 1)
      BY <2>2, <3>1, <3>2
    <3> HIDE DEF OK
    <3> QED
      BY <2>1, <3>3
  <2>4. CASE n + 1 \in I
    <3> DEFINE i == list[n + 1]
               t == Append(p[n], i)
    <3>0. i \in S
      BY <2>1
    <3>1. p[n + 1] = t /\ i \in S
      <4>1. p[n + 1] = Extended(p[n], list[n + 1])
        BY <1>1, <2>1, <2>4
      <4> QED
        BY <3>0, <4>1 DEF Extended
    <3>2. i \notin Entries(p[n])
      <4>0. i \in Entries(p[n]) => \E m \in 1 .. n : m \in I /\ list[m] = i
        <5> HIDE DEF i
        <5> QED
          BY <2>2
      <4> SUFFICES ASSUME NEW m \in 1 .. n, m \in I, list[m] = i PROVE FALSE
        BY <4>0
      <4>1. m \in DOMAIN list /\ n + 1 \in DOMAIN list /\ m # n + 1
        BY <2>1
      <4> QED
        BY <2>4, <4>1 DEF Apart
    <3>3. t \in Seq(S) /\ Once(t) /\ Entries(t) = Entries(p[n]) \union {i}
      BY <2>2, <3>1, <3>2, AppendFact
    <3>4. n + 1 \in 1 .. n + 1 /\ list[n + 1] = i
      BY <2>1
    <3> HIDE DEF t, i
    <3>5. \A c : (\E m \in 1 .. n + 1 : m \in I /\ list[m] = c) <=>
                   c = i \/ \E m \in 1 .. n : m \in I /\ list[m] = c
      BY <2>1, <2>4, <3>4
    <3>6. OK(n + 1)
      BY <2>2, <3>1, <3>3, <3>5
    <3> HIDE DEF OK
    <3> QED
      BY <2>1, <3>6
  <2> QED
    BY <2>3, <2>4
<1> HIDE DEF D
<1>4. 0 .. L \subseteq D
  BY <1>2, <1>3, StepsFact
<1>5. \A n \in 0 .. L : OK(n)
  BY <1>4 DEF D
<1> QED
  BY <1>5 DEF PickedTo, p

LEMMA PickedTypeFact ==
  ASSUME NEW S, NEW list \in Seq(S), NEW I
  PROVE  Picked(list, I) \in Seq(S)
<1> DEFINE L == Len(list)
           p == Picks(list, I)
<1>1. L \in Nat /\ Len(list) = L
  OBVIOUS
<1> HIDE DEF L
<1>2. PicksOK(S, list, L, I, p)
  BY <1>1, PicksFact
<1> QED
  BY <1>1, <1>2 DEF Picked, PicksOK

PickedOK(S, list, I, y) ==
  /\ y \in Seq(S) /\ Once(y)
  /\ \A c : c \in Entries(y) <=> \E m \in DOMAIN list : m \in I /\ list[m] = c

LEMMA PickedFact ==
  ASSUME NEW S, NEW list \in Seq(S), NEW I, Apart(list, I)
  PROVE  PickedOK(S, list, I, Picked(list, I))
<1> DEFINE L == Len(list)
           p == Picks(list, I)
<1>1. L \in Nat /\ Len(list) = L /\ DOMAIN list = 1 .. L
  OBVIOUS
<1> HIDE DEF L
<1>2. \A n \in 0 .. L : PickedTo(S, list, I, n, p[n])
  BY <1>1, PicksOnceFact
<1>3. L \in 0 .. L
  BY <1>1
<1> QED
  BY <1>1, <1>2, <1>3 DEF Picked, PickedOK, PickedTo

LEMMA AmongFact ==
  ASSUME NEW S, NEW list \in Seq(S), Once(list), NEW A
  PROVE  /\ Among(list, A) \in Seq(S) /\ Once(Among(list, A))
         /\ Entries(Among(list, A)) = Entries(list) \intersect A
<1> DEFINE I == {n \in DOMAIN list : list[n] \in A}
<1>1. Apart(list, I)
  BY DEF Apart, Once
<1>2. \A m \in DOMAIN list : m \in I <=> list[m] \in A
  OBVIOUS
<1>3. Among(list, A) = Picked(list, I)
  BY DEF Among
<1> HIDE DEF I
<1>4. PickedOK(S, list, I, Picked(list, I))
  BY <1>1, PickedFact
<1>5. \A c : c \in Entries(Picked(list, I)) <=> c \in Entries(list) \intersect A
  BY <1>2, <1>4 DEF Entries, PickedOK
<1> QED
  BY <1>3, <1>4, <1>5 DEF PickedOK

(* The elements picked keep their order. *)
OrderedTo(list, n, y) ==
  /\ \A b \in DOMAIN y : \E k \in 1 .. n : y[b] = list[k]
  /\ \A a, b \in DOMAIN y : a < b => \E j, k \in 1 .. n : j < k /\ y[a] = list[j] /\ y[b] = list[k]

LEMMA PicksOrderFact ==
  ASSUME NEW S, NEW list \in Seq(S), NEW L \in Nat, Len(list) = L, NEW I
  PROVE  \A n \in 0 .. L : OrderedTo(list, n, Picks(list, I)[n])
<1> DEFINE p == Picks(list, I)
           D == {n \in 0 .. L : OrderedTo(list, n, p[n])}
<1>1. /\ p[0] = <<>>
      /\ \A n \in 1 .. L : p[n] = IF n \in I THEN Extended(p[n - 1], list[n]) ELSE p[n - 1]
      /\ \A n \in 0 .. L : p[n] \in Seq(S)
  BY PicksFact DEF PicksOK
<1> HIDE DEF p
<1>2. 0 \in D
  BY <1>1 DEF OrderedTo
<1>3. ASSUME NEW n \in 0 .. L, n \in D, n < L PROVE n + 1 \in D
  <2> DEFINE x == p[n]
             y == p[n + 1]
  <2>1. /\ n + 1 \in 1 .. L /\ n + 1 - 1 = n /\ n + 1 \in 0 .. L /\ DOMAIN list = 1 .. L
        /\ \A m \in 1 .. n : m \in 1 .. n + 1 /\ m < n + 1
        /\ n + 1 \in 1 .. n + 1
    BY <1>3
  <2>2. OrderedTo(list, n, x) /\ x \in Seq(S)
    BY <1>1, <1>3
  <2>3. y = IF n + 1 \in I THEN Extended(x, list[n + 1]) ELSE x
    BY <1>1, <2>1
  <2>4. SUFFICES OrderedTo(list, n + 1, y)
    BY <2>1
  <2> HIDE DEF x, y
  <2>5. CASE n + 1 \notin I
    BY <2>1, <2>2, <2>3, <2>5 DEF OrderedTo
  <2>6. CASE n + 1 \in I
    <3> DEFINE l == Len(x)
    <3>1. y = Append(x, list[n + 1])
      BY <2>3, <2>6 DEF Extended
    <3>2. list[n + 1] \in S
      BY <2>1
    <3>3. /\ l \in Nat /\ DOMAIN x = 1 .. l /\ DOMAIN y = 1 .. l + 1
          /\ y[l + 1] = list[n + 1] /\ \A m \in 1 .. l : y[m] = x[m]
      BY <2>2, <3>1, <3>2
    <3> HIDE DEF l
    <3>4. \A b \in 1 .. l : \E k \in 1 .. n : y[b] = list[k]
      BY <2>2, <3>3 DEF OrderedTo
    <3>5. ASSUME NEW a \in 1 .. l, NEW b \in 1 .. l, a < b
          PROVE  \E j, k \in 1 .. n : j < k /\ y[a] = list[j] /\ y[b] = list[k]
      <4>1. \E j, k \in 1 .. n : j < k /\ x[a] = list[j] /\ x[b] = list[k]
        <5>1. a \in DOMAIN x /\ b \in DOMAIN x
          BY <3>3
        <5> QED
          BY ZenonT(30), <2>2, <3>5, <5>1 DEF OrderedTo
      <4> QED
        BY <3>3, <4>1
    <3>6. \A b \in 1 .. l + 1 : b \in 1 .. l \/ b = l + 1
      BY <3>3
    <3>7. ASSUME NEW b \in DOMAIN y PROVE \E k \in 1 .. n + 1 : y[b] = list[k]
      <4>1. CASE b \in 1 .. l
        <5>1. PICK k \in 1 .. n : y[b] = list[k]
          BY <3>4, <4>1
        <5> QED
          BY <2>1, <5>1
      <4>2. CASE b = l + 1
        BY <2>1, <3>3, <4>2
      <4> QED
        BY <3>3, <3>6, <4>1, <4>2
    <3>8. ASSUME NEW a \in DOMAIN y, NEW b \in DOMAIN y, a < b
          PROVE  \E j, k \in 1 .. n + 1 : j < k /\ y[a] = list[j] /\ y[b] = list[k]
      <4>1. a \in 1 .. l
        BY <3>3, <3>8
      <4>2. CASE b \in 1 .. l
        BY <2>1, <3>5, <3>8, <4>1, <4>2
      <4>3. CASE b = l + 1
        BY <2>1, <3>3, <3>4, <4>1, <4>3
      <4> QED
        BY <3>3, <3>6, <4>2, <4>3
    <3> QED
      BY <3>7, <3>8 DEF OrderedTo
  <2> QED
    BY <2>5, <2>6
<1> HIDE DEF D
<1>4. 0 .. L \subseteq D
  BY <1>2, <1>3, StepsFact
<1> QED
  BY <1>4 DEF D, p

LEMMA AmongOrderFact ==
  ASSUME NEW S, NEW list \in Seq(S), NEW A
  PROVE  OrderedTo(list, Len(list), Among(list, A))
<1> DEFINE L == Len(list)
           I == {n \in DOMAIN list : list[n] \in A}
<1>1. L \in Nat /\ L \in 0 .. L /\ Len(list) = L
  OBVIOUS
<1>2. Among(list, A) = Picks(list, I)[L]
  BY DEF Among, Picked
<1> HIDE DEF L, I
<1>3. \A n \in 0 .. L : OrderedTo(list, n, Picks(list, I)[n])
  BY <1>1, PicksOrderFact
<1> QED
  BY <1>1, <1>2, <1>3 DEF L

(* A list of which every place is picked. *)
LEMMA WholeFact ==
  ASSUME NEW S, NEW list \in Seq(S)
  PROVE  Picked(list, DOMAIN list) = list
<1> DEFINE L == Len(list)
           I == DOMAIN list
           p == Picks(list, I)
           OK(n) == p[n] \in Seq(S) /\ Len(p[n]) = n /\ \A m \in 1 .. n : p[n][m] = list[m]
           D == {n \in 0 .. L : OK(n)}
<1>0. L \in Nat /\ Len(list) = L /\ I = 1 .. L
  OBVIOUS
<1> HIDE DEF L, I
<1>00. PicksOK(S, list, L, I, p)
  BY <1>0, PicksFact
<1>1. /\ p[0] = <<>>
      /\ \A n \in 1 .. L : p[n] = IF n \in I THEN Extended(p[n - 1], list[n]) ELSE p[n - 1]
      /\ \A n \in 0 .. L : p[n] \in Seq(S)
  BY <1>00 DEF PicksOK
<1> HIDE DEF p
<1>2. 0 \in D
  <2>1. OK(0)
    BY <1>1
  <2> HIDE DEF OK
  <2> QED
    BY <1>0, <2>1
<1>3. ASSUME NEW n \in 0 .. L, n \in D, n < L PROVE n + 1 \in D
  <2>1. n + 1 \in 1 .. L /\ n + 1 - 1 = n /\ n + 1 \in 0 .. L
    BY <1>0, <1>3
  <2>11. p[n + 1] = Extended(p[n], list[n + 1])
    BY <1>0, <1>1, <2>1
  <2>2. p[n + 1] = Append(p[n], list[n + 1]) /\ list[n + 1] \in S
    BY <1>0, <2>1, <2>11 DEF Extended
  <2>3. OK(n)
    BY <1>3
  <2>4. Len(p[n + 1]) = n + 1 /\ \A m \in 1 .. n + 1 : p[n + 1][m] = list[m]
    BY <2>2, <2>3
  <2>5. OK(n + 1)
    BY <1>1, <2>1, <2>4
  <2> HIDE DEF OK
  <2> QED
    BY <2>1, <2>5
<1> HIDE DEF D
<1>4. 0 .. L \subseteq D
  BY <1>0, <1>2, <1>3, StepsFact
<1>5. OK(L)
  BY <1>0, <1>4 DEF D
<1>6. p[L] = list
  BY <1>0, <1>5
<1> QED
  BY <1>0, <1>6 DEF Picked, I, p

(* A list whose elements are there once, with a new element in front. *)
LEMMA PrependFact ==
  ASSUME NEW S, NEW s \in Seq(S), Once(s), NEW i \in S \ Entries(s)
  PROVE  LET t == <<i>> \o s
         IN t \in Seq(S) /\ Once(t) /\ Entries(t) = Entries(s) \union {i} /\ t # <<>>
<1> DEFINE t == <<i>> \o s
           l == Len(s)
<1>1. /\ l \in Nat /\ DOMAIN s = 1 .. l /\ t \in Seq(S) /\ DOMAIN t = 1 .. l + 1
      /\ t[1] = i /\ \A n \in 1 .. l : t[n + 1] = s[n]
  OBVIOUS
<1>2. \A n \in 1 .. l : s[n] # i
  BY <1>1 DEF Entries
<1>3. \A m, n \in 1 .. l : m # n => s[m] # s[n]
  BY <1>1 DEF Once
<1> HIDE DEF t, l
<1>4. \A n \in 1 .. l + 1 : n = 1 \/ (n - 1 \in 1 .. l /\ t[n] = s[n - 1])
  <2> SUFFICES ASSUME NEW n \in 1 .. l + 1, n # 1 PROVE n - 1 \in 1 .. l /\ t[n] = s[n - 1]
    OBVIOUS
  <2>1. n - 1 \in 1 .. l /\ n - 1 + 1 = n
    BY <1>1
  <2> QED
    BY <1>1, <2>1
<1>5. Once(t)
  <2> SUFFICES ASSUME NEW m \in 1 .. l + 1, NEW n \in 1 .. l + 1, m # n PROVE t[m] # t[n]
    BY <1>1 DEF Once
  <2>1. CASE m = 1
    BY <1>1, <1>2, <1>4, <2>1
  <2>2. CASE n = 1
    BY <1>1, <1>2, <1>4, <2>2
  <2>3. CASE m # 1 /\ n # 1
    <3>1. /\ m - 1 \in 1 .. l /\ n - 1 \in 1 .. l /\ m - 1 # n - 1
          /\ t[m] = s[m - 1] /\ t[n] = s[n - 1]
      BY <1>1, <1>4, <2>3
    <3> QED
      BY <1>3, <3>1
  <2> QED
    BY <2>1, <2>2, <2>3
<1>6. Entries(t) = Entries(s) \union {i}
  <2>1. Entries(t) \subseteq Entries(s) \union {i}
    <3> SUFFICES ASSUME NEW n \in 1 .. l + 1, n # 1 PROVE t[n] \in Entries(s)
      BY <1>1 DEF Entries
    <3>1. n - 1 \in DOMAIN s /\ t[n] = s[n - 1]
      BY <1>1, <1>4
    <3> QED
      BY <3>1 DEF Entries
  <2>2. 1 \in 1 .. l + 1 /\ \A n \in 1 .. l : n + 1 \in 1 .. l + 1
    BY <1>1
  <2>3. i \in Entries(t)
    <3>1. 1 \in DOMAIN t /\ t[1] = i
      BY <1>1, <2>2
    <3> QED
      BY <3>1 DEF Entries
  <2>4. Entries(s) \subseteq Entries(t)
    <3> SUFFICES ASSUME NEW n \in 1 .. l PROVE s[n] \in Entries(t)
      BY <1>1 DEF Entries
    <3>1. n + 1 \in DOMAIN t /\ t[n + 1] = s[n]
      BY <1>1, <2>2
    <3> QED
      BY <3>1 DEF Entries
  <2> QED
    BY <2>1, <2>3, <2>4
<1>7. t # <<>>
  BY <1>1
<1> QED
  BY <1>1, <1>5, <1>6, <1>7 DEF t

=============================================================================
