------------------------ MODULE Desktop_proofs ------------------------
(***************************************************************************)
(* What the user confirmed as the background is there after a restart, for *)
(* any images, looks, names of cache files and number of calls, until the  *)
(* user does not wait for an answer or the file cannot be written, and     *)
(* again after a start.  What the home area keeps of its applets is in     *)
(* step, for any applets, sizes, places and points to drag them to.  The   *)
(* button of the switcher's menu and its items are right, for any          *)
(* notifications, applications and limits of the menu.  And the task       *)
(* navigator shows the window manager's windows and keeps what hibernates, *)
(* for any applications, windows and buttons and however late the library  *)
(* handles what the window manager says.                                   *)
(***************************************************************************)
EXTENDS HomeBackground, HomeArea, SwitcherMenu, HdWm, Lists_proofs, NaturalsInduction,
  FunctionTheorems, FiniteSetTheorems, SequenceTheorems, TLAPS

(* The names of cache files that are in use: as long as a call is to write a *)
(* file, nobody else knows its name.                                        *)
NamesInUse ==
  {background.cache, conf.cache} \union {calls[i].background.cache : i \in DOMAIN calls}
    \union (IF chooser = None THEN {} ELSE {chooser.previous.cache, chooser.chosen.cache})

NamesApart ==
  \A i \in DOMAIN calls :
    calls[i].fresh # None =>
      calls[i].fresh \notin NamesInUse
        /\ \A j \in DOMAIN calls : calls[j].fresh = calls[i].fresh => j = i

(* The background a call brings about. *)
Outcome(c) == IF c.fresh = None THEN c.background ELSE [c.background EXCEPT !.cache = c.fresh]

(* The file a background names may be lost, but is no other one. *)
Owned(b) == b.cache # None => cacheDir[b.cache] \in {None, WholeFile(b.image)}
Usable(b) == b.cache # None => cacheDir[b.cache] = WholeFile(b.image)

CallSound(c) ==
  /\ c.fresh # None <=> RequiresCaching(c.background)
  /\ Owned(c.background)
  /\ ~c.dropped /\ c.done = "ok" =>
       /\ Owned(Outcome(c))
       /\ c.painted = [image |-> c.background.image, look |-> c.background.look]

CallsSound == \A i \in DOMAIN calls : CallSound(calls[i])

(* The dialog's own row is that of the background it was opened with. *)
RowSound ==
  chooser # None /\ chooser.row # None /\ chooser.row.cache # None =>
    /\ chooser.row.cache = chooser.previous.cache
    /\ chooser.row.image = chooser.previous.image

BoundsKept == Len(calls) <= MaxCalls /\ Cardinality(waiting.timers) <= MaxCalls

(* What holds whether or not the user waits. *)
BackgroundSound ==
  /\ BackgroundTypeOK
  /\ BoundsKept
  /\ CacheOwn
  /\ PictureOfBackground
  /\ NamesApart
  /\ CallsSound
  /\ RowSound

AnswersUsable ==
  ~crossed => \A i \in Pending : calls[i].done = "ok" => Usable(Outcome(calls[i]))

OnePending == ~crossed => \A i, j \in Pending : i = j

(* What the answer that is awaited is for. *)
PendingMeant ==
  ~crossed =>
    \A i \in Pending :
      LET c == calls[i]
      IN /\ c.kind = "preview" <=> chooser # None
         /\ c.kind \in {"start", "restore"} /\ ~undone => Equal(c.background, conf)
         /\ c.kind = "start" /\ ~undone => Equal(background, conf)

ChooserMeant ==
  chooser # None /\ ~undone /\ ~crossed => Equal(chooser.previous, conf)

WaitingSound ==
  ~crossed =>
    /\ waiting.timers \subseteq {waiting.timeout}
    /\ waiting.note # None => waiting.timers = {}
    /\ \A n \in waiting.timers \union ({waiting.note} \ {None}) :
         \E i \in Pending : calls[i].id = n /\ calls[i].kind \in {"preview", "confirm"}

(* What holds until the user does not wait. *)
BackgroundCalm ==
  /\ CacheUsable
  /\ SavedIsShown
  /\ AnswersUsable
  /\ OnePending
  /\ PendingMeant
  /\ ChooserMeant
  /\ WaitingSound

BackgroundIInv == BackgroundSound /\ BackgroundCalm

LEMMA BackgroundIInvImpliesInv == BackgroundIInv => BackgroundInv
<1> SUFFICES ASSUME BackgroundIInv
             PROVE  NoteHasReason
  BY DEF BackgroundIInv, BackgroundSound, BackgroundCalm, BackgroundInv
<1> QED
  BY DEF BackgroundIInv, BackgroundCalm, WaitingSound, NoteHasReason

(* A set of naturals that is not empty has a least element. *)
LEMMA LeastFact ==
  ASSUME NEW S \in SUBSET Nat, S # {}
  PROVE  Least(S) \in S /\ \A m \in S : Least(S) <= m
BY SmallestFact DEF Smallest, Least

(* The timers are no more when some end. *)
LEMMA TimersFact ==
  ASSUME BackgroundTypeOK, BoundsKept
  PROVE  /\ IsFiniteSet(waiting.timers) /\ Cardinality(waiting.timers) \in Nat
         /\ \A T \in SUBSET waiting.timers : Cardinality(T) <= MaxCalls
<1>1. IsFiniteSet(CallIds) /\ waiting.timers \subseteq CallIds
  BY BackgroundAssumption, FS_Interval DEF CallIds, BackgroundTypeOK
<1>2. IsFiniteSet(waiting.timers)
  BY <1>1, FS_Subset
<1>3. ASSUME NEW T \in SUBSET waiting.timers PROVE Cardinality(T) <= MaxCalls
  <2>1. IsFiniteSet(T) /\ Cardinality(T) <= Cardinality(waiting.timers)
    BY <1>2, FS_Subset
  <2>2. Cardinality(T) \in Nat /\ Cardinality(waiting.timers) \in Nat /\ MaxCalls \in Nat
    BY <1>2, <2>1, FS_CardinalityType, BackgroundAssumption
  <2> QED
    BY <2>1, <2>2 DEF BoundsKept
<1> QED
  BY <1>2, <1>3, FS_CardinalityType

(* There are more ids than calls and timers. *)
LEMMA NewIdFact ==
  ASSUME BackgroundSound
  PROVE  NewId \in CallIds
<1> DEFINE ids == {calls[i].id : i \in DOMAIN calls}
           used == waiting.timers \union {waiting.note} \union ids
<1>1. /\ calls \in Seq(Calls) /\ DOMAIN calls = 1 .. Len(calls) /\ Len(calls) \in Nat
      /\ BackgroundTypeOK /\ BoundsKept
  BY DEF BackgroundSound, BackgroundTypeOK
<1>2. IsFiniteSet(1 .. Len(calls)) /\ Cardinality(1 .. Len(calls)) = Len(calls)
  <2> HIDE DEF ids, used
  <2>1. 1 \in Int /\ Len(calls) \in Int /\ Len(calls) >= 0
    BY <1>1
  <2>2. /\ IsFiniteSet(1 .. Len(calls))
        /\ Cardinality(1 .. Len(calls)) = IF 1 > Len(calls) THEN 0 ELSE Len(calls) - 1 + 1
    BY <2>1, FS_Interval
  <2> QED
    BY <2>1, <2>2
<1>3. IsFiniteSet(ids) /\ Cardinality(ids) <= Len(calls) /\ Cardinality(ids) \in Nat
  <2> DEFINE f == [i \in 1 .. Len(calls) |-> calls[i].id]
  <2>1. f \in Surjection(1 .. Len(calls), ids)
    BY <1>1 DEF Surjection
  <2> HIDE DEF f, ids
  <2> QED
    BY <1>2, <2>1, FS_Surjection, FS_CardinalityType
<1>4. IsFiniteSet(waiting.timers) /\ Cardinality(waiting.timers) \in Nat
  BY <1>1, TimersFact
<1>5. IsFiniteSet(used) /\ Cardinality(used) <= 2 * MaxCalls + 1 /\ Cardinality(used) \in Nat
  <2> HIDE DEF ids
  <2> DEFINE both == waiting.timers \union ids
  <2>1. /\ IsFiniteSet(both)
        /\ Cardinality(both) = Cardinality(waiting.timers) + Cardinality(ids)
                                 - Cardinality(waiting.timers \intersect ids)
    BY <1>3, <1>4, FS_Union
  <2>2. Cardinality(waiting.timers \intersect ids) \in Nat
    BY <1>4, FS_Intersection, FS_CardinalityType
  <2>3. used = both \union {waiting.note}
    OBVIOUS
  <2> HIDE DEF used, both
  <2>4. /\ IsFiniteSet(used)
        /\ Cardinality(used) = IF waiting.note \in both THEN Cardinality(both) ELSE Cardinality(both) + 1
    BY <2>1, <2>3, FS_AddElement
  <2>5. Cardinality(used) \in Nat /\ Cardinality(both) \in Nat
    BY <2>1, <2>4, FS_CardinalityType
  <2>6. Len(calls) <= MaxCalls /\ Cardinality(waiting.timers) <= MaxCalls /\ MaxCalls \in Nat
    BY <1>1, BackgroundAssumption DEF BoundsKept
  <2> QED
    BY <1>1, <1>3, <1>4, <2>1, <2>2, <2>4, <2>5, <2>6
<1>7. IsFiniteSet(CallIds) /\ Cardinality(CallIds) = 2 * MaxCalls + 2
  BY BackgroundAssumption, FS_Interval DEF CallIds
<1>8. CallIds \ used # {}
  <2> SUFFICES ASSUME CallIds \subseteq used PROVE FALSE
    OBVIOUS
  <2> HIDE DEF used
  <2>1. Cardinality(CallIds) <= Cardinality(used)
    BY <1>5, FS_Subset
  <2> QED
    BY <1>5, <1>7, <2>1, BackgroundAssumption
<1>9. CallIds \ used \in SUBSET Nat
  BY BackgroundAssumption DEF CallIds
<1> HIDE DEF used
<1>10. Least(CallIds \ used) \in CallIds \ used
  BY <1>8, <1>9, LeastFact
<1> QED
  BY <1>10 DEF NewId, used

(* What is appended to the calls. *)
LEMMA ApplyAsyncFact ==
  ASSUME BackgroundSound, NEW before \in Seq(Calls), NEW b \in Backgrounds,
         NEW kind \in {"start", "preview", "confirm", "restore"}, ApplyAsync(before, b, kind)
  PROVE  /\ NewId \in CallIds
         /\ Len(before) + 1 <= MaxCalls
         /\ calls' \in Seq(Calls) /\ Len(calls') = Len(before) + 1
         /\ DOMAIN calls' = 1 .. Len(calls')
         /\ \A i \in 1 .. Len(before) : calls'[i] = before[i]
         /\ \E c \in Calls :
              /\ calls'[Len(before) + 1] = c
              /\ c.id = NewId /\ c.background = b /\ c.kind = kind
              /\ c.done = "no" /\ ~c.dropped
              /\ c.fresh # None <=> RequiresCaching(b)
              /\ c.fresh # None => c.fresh \in UnusedNames
<1> DEFINE name == IF RequiresCaching(b) THEN Least(UnusedNames) ELSE None
           c == [id |-> NewId, background |-> b, kind |-> kind, done |-> "no",
                 dropped |-> FALSE, painted |-> None, fresh |-> name]
<1>1. Len(before) < MaxCalls /\ calls' = Append(before, c) /\ Len(before) \in Nat
  BY DEF ApplyAsync
<1>2. NewId \in CallIds
  BY <1>1, NewIdFact
<1>3. /\ name # None <=> RequiresCaching(b)
      /\ name # None => name \in UnusedNames
      /\ name \in CacheNames \union {None}
  <2>1. CASE RequiresCaching(b)
    <3>1. UnusedNames # {}
      BY <2>1 DEF ApplyAsync
    <3>2. UnusedNames \in SUBSET CacheNames /\ UnusedNames \in SUBSET Nat
      BY BackgroundAssumption DEF UnusedNames
    <3>3. Least(UnusedNames) \in UnusedNames
      BY <3>1, <3>2, LeastFact
    <3> QED
      BY <2>1, <3>2, <3>3, BackgroundAssumption
  <2>2. CASE ~RequiresCaching(b)
    BY <2>2
  <2> QED
    BY <2>1, <2>2
<1> HIDE DEF name
<1>4. c \in Calls
  BY <1>2, <1>3 DEF Calls
<1>5. /\ c.id = NewId /\ c.background = b /\ c.kind = kind
      /\ c.done = "no" /\ ~c.dropped /\ c.fresh = name
  OBVIOUS
<1> HIDE DEF c
<1>6. /\ calls' \in Seq(Calls) /\ Len(calls') = Len(before) + 1
      /\ \A i \in 1 .. Len(before) : calls'[i] = before[i]
      /\ calls'[Len(before) + 1] = c
  BY <1>1, <1>4, AppendProperties
<1> QED
  BY <1>1, <1>2, <1>3, <1>4, <1>5, <1>6, BackgroundAssumption

LEMMA CallsFact ==
  ASSUME BackgroundTypeOK
  PROVE  /\ DOMAIN calls = 1 .. Len(calls) /\ Len(calls) \in Nat
         /\ \A i \in 1 .. Len(calls) : calls[i] \in Calls /\ calls[i].dropped \in BOOLEAN
         /\ Pending \subseteq 1 .. Len(calls)
<1>1. calls \in Seq(Calls)
  BY DEF BackgroundTypeOK
<1>2. \A c \in Calls : c.dropped \in BOOLEAN
  BY DEF Calls
<1> QED
  BY <1>1, <1>2 DEF Pending

LEMMA OutcomeFact ==
  ASSUME NEW c \in Calls
  PROVE  /\ Outcome(c) \in Backgrounds
         /\ Outcome(c).image = c.background.image /\ Outcome(c).look = c.background.look
         /\ Outcome(c).cache = IF c.fresh = None THEN c.background.cache ELSE c.fresh
         /\ c.background \in Backgrounds
<1>1. c.background \in Backgrounds /\ c.fresh \in CacheNames \union {None}
  BY DEF Calls
<1> QED
  BY <1>1 DEF Outcome, Backgrounds

(* The manager writes one file at most, whose name nobody else knows. *)
LEMMA ServedFact ==
  ASSUME BackgroundIInv, ManagerServes
  PROVE  BackgroundIInv'
<1> USE CallsFact
<1>1. /\ BackgroundTypeOK /\ NamesApart /\ CallsSound /\ CacheUsable /\ CacheOwn /\ AnswersUsable
  BY DEF BackgroundIInv, BackgroundSound, BackgroundCalm
<1>2. PICK i \in DOMAIN calls :
         /\ calls[i].done = "no"
         /\ LET b == calls[i].background
                new == calls[i].fresh
                source == IF b.cache = None THEN WholeFile(b.image) ELSE cacheDir[b.cache]
            IN  \/ /\ source # None /\ source.whole
                   /\ calls' = [calls EXCEPT ![i].done = "ok",
                                  ![i].painted = [image |-> source.image, look |-> b.look]]
                   /\ cacheDir' = IF new = None THEN cacheDir ELSE [cacheDir EXCEPT ![new] = source]
                \/ /\ calls' = [calls EXCEPT ![i].done = "failed"]
                   /\ \/ UNCHANGED cacheDir
                      \/ /\ new # None
                         /\ cacheDir' =
                              [cacheDir EXCEPT ![new] = [image |-> b.image, whole |-> FALSE]]
  BY DEF ManagerServes
<1>3. UNCHANGED <<background, picture, conf, chooser, waiting, undone, unsaved, crossed>>
  BY DEF ManagerServes
<1> DEFINE b == calls[i].background
           new == calls[i].fresh
           source == IF b.cache = None THEN WholeFile(b.image) ELSE cacheDir[b.cache]
<1>4. /\ calls[i] \in Calls /\ b \in Backgrounds /\ new \in CacheNames \union {None}
      /\ CallSound(calls[i])
  BY <1>1 DEF CallsSound, Calls
<1>5. source # None => source = WholeFile(b.image)
  BY <1>4 DEF CallSound, Owned
<1>6. WholeFile(b.image) \in CacheFiles /\ WholeFile(b.image).image = b.image
      /\ [image |-> b.image, whole |-> FALSE] \in CacheFiles
  BY <1>4 DEF WholeFile, CacheFiles, Backgrounds
<1>7. [image |-> b.image, look |-> b.look] \in Pictures
  BY <1>4 DEF Pictures, Backgrounds
<1>8. \/ /\ calls' = [calls EXCEPT ![i].done = "ok",
                         ![i].painted = [image |-> b.image, look |-> b.look]]
         /\ source # None
         /\ cacheDir' = IF new = None THEN cacheDir
                        ELSE [cacheDir EXCEPT ![new] = WholeFile(b.image)]
      \/ /\ calls' = [calls EXCEPT ![i].done = "failed"]
         /\ \/ cacheDir' = cacheDir
            \/ /\ new # None
               /\ cacheDir' = [cacheDir EXCEPT ![new] = [image |-> b.image, whole |-> FALSE]]
  <2> HIDE DEF b, new
  <2>1. source.image = b.image \/ source = None
    BY <1>5, <1>6
  <2> HIDE DEF source
  <2> QED
    BY <1>2, <1>5, <2>1 DEF b, new, source
<1> HIDE DEF b, new, source
<1>9. cacheDir' \in [CacheNames -> CacheFiles \union {None}]
  BY <1>1, <1>4, <1>6, <1>8 DEF BackgroundTypeOK
<1>10. /\ cacheDir \in [CacheNames -> CacheFiles \union {None}]
       /\ \A n \in CacheNames : n # new => cacheDir'[n] = cacheDir[n]
  BY <1>1, <1>4, <1>8 DEF BackgroundTypeOK
<1>11. /\ calls' \in Seq(Calls) /\ Len(calls') = Len(calls) /\ DOMAIN calls' = DOMAIN calls
       /\ \A j \in DOMAIN calls : j # i => calls'[j] = calls[j]
       /\ \A j \in DOMAIN calls :
            /\ calls'[j].fresh = calls[j].fresh /\ calls'[j].background = calls[j].background
            /\ calls'[j].dropped = calls[j].dropped
            /\ calls'[j].id = calls[j].id /\ calls'[j].kind = calls[j].kind
  <2>1. CASE calls' = [calls EXCEPT ![i].done = "ok",
                         ![i].painted = [image |-> b.image, look |-> b.look]]
    <3>1. [calls[i] EXCEPT !.done = "ok", !.painted = [image |-> b.image, look |-> b.look]] \in Calls
      BY <1>4, <1>7 DEF Calls
    <3>2. calls' = [calls EXCEPT ![i] =
             [calls[i] EXCEPT !.done = "ok", !.painted = [image |-> b.image, look |-> b.look]]]
      BY <1>1, <2>1
    <3> QED
      BY <1>1, <1>4, <3>1, <3>2 DEF BackgroundTypeOK, Calls
  <2>2. CASE calls' = [calls EXCEPT ![i].done = "failed"]
    <3>1. [calls[i] EXCEPT !.done = "failed"] \in Calls
      BY <1>4 DEF Calls
    <3>2. calls' = [calls EXCEPT ![i] = [calls[i] EXCEPT !.done = "failed"]]
      BY <1>1, <2>2
    <3> QED
      BY <1>1, <1>4, <3>1, <3>2 DEF BackgroundTypeOK, Calls
  <2> QED
    BY <1>8, <2>1, <2>2
<1>12. Pending' = Pending
  BY <1>11 DEF Pending
<1>13. NamesInUse' = NamesInUse
  BY <1>3, <1>11 DEF NamesInUse
<1>14. new # None => new \notin NamesInUse
  BY <1>1 DEF NamesApart, new
<1>15. \A d \in {background, conf} \union InTheDialog :
         d.cache # None =>
           d.cache \in NamesInUse /\ d.cache \in CacheNames /\ cacheDir'[d.cache] = cacheDir[d.cache]
  <2>1. conf \in Backgrounds /\ background \in Backgrounds
        /\ (chooser # None => chooser.previous \in Backgrounds /\ chooser.chosen \in Backgrounds)
    BY <1>1 DEF BackgroundTypeOK, Choosers
  <2>2. \A d \in {background, conf} \union InTheDialog :
          d.cache # None => d.cache \in NamesInUse /\ d.cache \in CacheNames
    BY <2>1 DEF NamesInUse, Backgrounds, InTheDialog
  <2> QED
    BY <1>10, <1>14, <2>2
<1>16. CacheUsable' /\ CacheOwn'
  <2>1. InTheDialog' = InTheDialog
    BY <1>3 DEF InTheDialog
  <2>2. CacheUsable'
    BY <1>1, <1>3, <1>15, <2>1 DEF CacheUsable
  <2>3. CacheOwn'
    BY <1>1, <1>3, <1>15, <2>1 DEF CacheOwn
  <2> QED
    BY <2>2, <2>3
<1>17. ASSUME NEW j \in DOMAIN calls
       PROVE  /\ CallSound(calls[j])'
              /\ ~crossed /\ j \in Pending /\ calls'[j].done = "ok" => Usable(Outcome(calls[j]))'
  <2> DEFINE c == calls[j]
  <2>1. /\ c \in Calls /\ CallSound(c) /\ c.background \in Backgrounds
        /\ c.background.cache \in NamesInUse
        /\ c.background.cache \in CacheNames \union {None}
        /\ c.fresh \in CacheNames \union {None}
    BY <1>1 DEF CallsSound, Calls, NamesInUse, Backgrounds
  <2>2. c.background.cache # None => cacheDir'[c.background.cache] = cacheDir[c.background.cache]
    BY <1>10, <1>14, <2>1
  <2>3. CASE j # i
    <3>1. calls'[j] = c
      BY <1>11, <2>3
    <3>2. new # None => c.fresh # new
      BY <1>1, <2>3 DEF NamesApart, new
    <3>3. Outcome(c).cache # None =>
            Outcome(c).cache \in CacheNames /\ cacheDir'[Outcome(c).cache] = cacheDir[Outcome(c).cache]
      BY <1>10, <2>1, <2>2, <3>2, OutcomeFact
    <3>4. ~crossed /\ j \in Pending /\ c.done = "ok" => Usable(Outcome(c))
      BY <1>1 DEF AnswersUsable
    <3> HIDE DEF c
    <3>5. PICK e \in Calls : e = c
      BY <2>1
    <3>6. Owned(e.background)' /\ (Owned(Outcome(e)) => Owned(Outcome(e))')
          /\ (Usable(Outcome(e)) => Usable(Outcome(e))')
      BY <2>1, <2>2, <3>3, <3>5 DEF CallSound, Owned, Usable, Outcome
    <3>7. CallSound(e)' /\ (~crossed /\ j \in Pending /\ e.done = "ok" => Usable(Outcome(e))')
      BY <2>1, <3>4, <3>5, <3>6 DEF CallSound
    <3> QED
      BY <3>1, <3>5, <3>7 DEF CallSound, Owned, Usable, Outcome
  <2>4. CASE j = i
    <3> DEFINE d == calls'[i]
    <3>1. /\ d \in Calls /\ d.fresh = new /\ d.background = b
          /\ d.done = "ok" => d.painted = [image |-> b.image, look |-> b.look]
          /\ d.done = "ok" => /\ source # None
                              /\ cacheDir' = IF new = None THEN cacheDir
                                             ELSE [cacheDir EXCEPT ![new] = WholeFile(b.image)]
      <4>1. d \in Calls /\ d.fresh = new /\ d.background = b
        BY <1>11 DEF b, new
      <4>2. calls \in Seq(Calls) /\ i \in 1 .. Len(calls) /\ calls[i] \in Calls
        BY <1>1, <1>4 DEF BackgroundTypeOK
      <4>3. CASE calls' = [calls EXCEPT ![i].done = "ok",
                             ![i].painted = [image |-> b.image, look |-> b.look]]
        <5>1. d = [calls[i] EXCEPT !.done = "ok", !.painted = [image |-> b.image, look |-> b.look]]
          BY <4>2, <4>3
        <5>2. d.painted = [image |-> b.image, look |-> b.look]
          BY <4>2, <5>1 DEF Calls
        <5>3. "ok" # "failed"
          OBVIOUS
        <5>4. calls' # [calls EXCEPT ![i].done = "failed"]
          <6>1. d.done = "ok"
            BY <4>2, <5>1 DEF Calls
          <6>2. [calls EXCEPT ![i].done = "failed"][i].done = "failed"
            BY <4>2 DEF Calls
          <6> QED
            BY <6>1, <6>2
        <5> QED
          BY <1>8, <4>1, <5>2, <5>4
      <4>4. CASE calls' = [calls EXCEPT ![i].done = "failed"]
        <5>1. d.done = "failed"
          BY <4>2, <4>4 DEF Calls
        <5> QED
          BY <4>1, <5>1
      <4> QED
        BY <1>8, <4>3, <4>4
    <3>2. c = calls[i] /\ c.background = b /\ c.fresh = new
      BY <2>4 DEF b, new
    <3> HIDE DEF c, d
    <3>3. d.fresh # None <=> RequiresCaching(d.background)
      BY <2>1, <3>1, <3>2 DEF CallSound
    <3>4. d.background.cache # None =>
            cacheDir'[d.background.cache] \in {None, WholeFile(d.background.image)}
      BY <2>1, <2>2, <3>1, <3>2 DEF CallSound, Owned
    <3>5. ASSUME d.done = "ok", Outcome(d).cache # None
          PROVE  cacheDir'[Outcome(d).cache] = WholeFile(Outcome(d).image)
      <4>1. CASE new = None
        <5>1. Outcome(d).cache = b.cache /\ Outcome(d).image = b.image
          BY <3>1, <4>1, OutcomeFact
        <5>2. source = cacheDir[b.cache] /\ source = WholeFile(b.image)
          BY <1>5, <3>1, <3>5, <5>1 DEF source
        <5> QED
          BY <3>1, <3>5, <4>1, <5>1, <5>2
      <4>2. CASE new # None
        <5>1. Outcome(d).cache = new /\ Outcome(d).image = b.image
          BY <3>1, <4>2, OutcomeFact
        <5> QED
          BY <1>4, <1>10, <3>1, <3>5, <4>2, <5>1
      <4> QED
        BY <4>1, <4>2
    <3> QED
      BY <2>4, <3>1, <3>3, <3>4, <3>5 DEF CallSound, Owned, Usable, d
  <2> QED
    BY <2>3, <2>4
<1>18. CallsSound' /\ AnswersUsable'
  BY <1>3, <1>11, <1>12, <1>17 DEF CallsSound, AnswersUsable, Pending
<1>19. NamesApart'
  BY <1>1, <1>11, <1>13 DEF NamesApart
<1>20. OnePending' /\ PendingMeant' /\ WaitingSound' /\ SavedIsShown'
  <2>1. OnePending' /\ SavedIsShown'
    BY <1>3, <1>12 DEF BackgroundIInv, BackgroundCalm, OnePending, SavedIsShown, Equal
  <2>2. PendingMeant'
    BY <1>1, <1>3, <1>11, <1>12 DEF BackgroundIInv, BackgroundCalm, PendingMeant, Equal
  <2>3. WaitingSound'
    BY <1>1, <1>3, <1>11, <1>12 DEF BackgroundIInv, BackgroundCalm, WaitingSound
  <2> QED
    BY <2>1, <2>2, <2>3
<1>21. ChooserMeant' /\ RowSound' /\ PictureOfBackground' /\ BoundsKept'
  BY <1>3, <1>11 DEF BackgroundIInv, BackgroundSound, BackgroundCalm, ChooserMeant, RowSound,
                     PictureOfBackground, BoundsKept, Equal
<1>22. BackgroundTypeOK'
  BY <1>1, <1>3, <1>9, <1>11 DEF BackgroundTypeOK
<1> QED
  BY <1>16, <1>18, <1>19, <1>20, <1>21, <1>22 DEF BackgroundIInv, BackgroundSound, BackgroundCalm

(* A save keeps the file of the background that is saved, and no other; if it *)
(* fails the file still names what it did.                                  *)
Shrinks == \A n \in CacheNames : cacheDir'[n] \in {cacheDir[n], None}

LEMMA SaveFact ==
  ASSUME BackgroundTypeOK, NEW b \in Backgrounds, SaveBackground(b)
  PROVE  /\ conf' \in {conf, b} /\ undone' \in BOOLEAN /\ unsaved' = undone'
         /\ ~undone' => conf' = b
         /\ cacheDir' \in [CacheNames -> CacheFiles \union {None}]
         /\ Shrinks
         /\ b.cache # None => b.cache \in CacheNames /\ cacheDir'[b.cache] = cacheDir[b.cache]
<1>1. /\ conf' \in {conf, b} /\ undone' \in BOOLEAN /\ unsaved' = undone'
      /\ ~undone' => conf' = b
      /\ cacheDir' = CleanUpCache(b)
  <2>1. PICK written \in BOOLEAN : /\ conf' = IF written THEN b ELSE conf
                                   /\ cacheDir' = CleanUpCache(b)
                                   /\ undone' = ~written /\ unsaved' = ~written
    BY DEF SaveBackground
  <2>2. CASE written = TRUE
    BY <2>1, <2>2
  <2>3. CASE written = FALSE
    BY <2>1, <2>3
  <2> QED
    BY <2>2, <2>3
<1>2. cacheDir \in [CacheNames -> CacheFiles \union {None}] /\ b.cache \in CacheNames \union {None}
  BY DEF BackgroundTypeOK, Backgrounds
<1> QED
  BY <1>1, <1>2 DEF CleanUpCache, Shrinks

LEMMA OwnedKept ==
  ASSUME NEW b \in Backgrounds, Owned(b), cacheDir' = cacheDir \/ Shrinks
  PROVE  Owned(b)'
<1>1. b.cache \in CacheNames \union {None}
  BY DEF Backgrounds
<1> QED
  BY <1>1 DEF Owned, Shrinks

LEMMA CallSoundKept ==
  ASSUME NEW c \in Calls, CallSound(c), cacheDir' = cacheDir \/ Shrinks
  PROVE  CallSound(c)'
<1>1. c.background \in Backgrounds /\ Outcome(c) \in Backgrounds
  BY OutcomeFact
<1>2. Owned(c.background)' /\ (Owned(Outcome(c)) => Owned(Outcome(c))')
  BY <1>1, OwnedKept DEF CallSound
<1> QED
  BY <1>2 DEF CallSound

LEMMA ReplyFact ==
  ASSUME BackgroundIInv, AsyncReply
  PROVE  BackgroundIInv'
<1> USE CallsFact
<1>1. /\ BackgroundTypeOK /\ NamesApart /\ CallsSound /\ CacheOwn /\ BoundsKept /\ RowSound
      /\ PictureOfBackground
      /\ CacheUsable /\ OnePending /\ PendingMeant /\ AnswersUsable /\ WaitingSound
  BY DEF BackgroundIInv, BackgroundSound, BackgroundCalm
<1> DEFINE c == calls[1]
           b == Outcome(c)
<1>2. /\ calls # <<>> /\ Head(calls) = c /\ 1 \in DOMAIN calls
      /\ c \in Calls /\ CallSound(c) /\ c.done # "no" /\ c.dropped \in BOOLEAN
      /\ b \in Backgrounds /\ b.image = c.background.image /\ b.look = c.background.look
      /\ b.cache = IF c.fresh = None THEN c.background.cache ELSE c.fresh
  <2>1. calls # <<>> /\ calls \in Seq(Calls) /\ Head(calls).done # "no"
    BY <1>1 DEF AsyncReply, BackgroundTypeOK
  <2>2. Head(calls) = c /\ 1 \in DOMAIN calls
    BY <2>1
  <2>3. c \in Calls /\ CallSound(c) /\ c.dropped \in BOOLEAN
    BY <1>1, <2>2 DEF CallsSound
  <2> QED
    BY <2>1, <2>2, <2>3, OutcomeFact
<1>3. /\ calls' \in Seq(Calls) /\ Len(calls') = Len(calls) - 1
      /\ DOMAIN calls' = 1 .. Len(calls')
      /\ \A k \in DOMAIN calls' : k + 1 \in DOMAIN calls /\ calls'[k] = calls[k + 1]
  <2>1. calls' = Tail(calls) /\ calls \in Seq(Calls)
    BY <1>1 DEF AsyncReply, BackgroundTypeOK
  <2>2. /\ calls' \in Seq(Calls) /\ Len(calls') = Len(calls) - 1
        /\ \A k \in 1 .. Len(calls') : calls'[k] = calls[k + 1]
    BY <1>2, <2>1, HeadTailProperties
  <2> QED
    BY <1>1, <2>2
<1>4. chooser' = chooser /\ crossed' = crossed /\ InTheDialog' = InTheDialog
  BY DEF AsyncReply, InTheDialog
<1>5. \/ c.dropped /\ UNCHANGED <<background, picture, conf, cacheDir, waiting, undone, unsaved>>
      \/ /\ ~c.dropped
         /\ waiting' = [NotWaiting EXCEPT !.timers = waiting.timers \ {waiting.timeout}]
         /\ \/ /\ c.done = "failed"
               /\ undone' = (undone \/ c.kind \in {"confirm", "restore"})
               /\ UNCHANGED <<background, picture, conf, cacheDir, unsaved>>
            \/ /\ c.done = "ok"
               /\ background' = b /\ picture' = c.painted
               /\ IF c.kind = "confirm" THEN SaveBackground(b)
                                        ELSE UNCHANGED <<conf, cacheDir, undone, unsaved>>
  <2> HIDE DEF c
  <2> QED
    BY <1>2 DEF AsyncReply, Outcome
<1> HIDE DEF b
<1>6. Pending' = {k \in DOMAIN calls' : k + 1 \in Pending}
  BY <1>3 DEF Pending
(* The names stay apart whatever of the first call is kept. *)
<1>7. ASSUME background'.cache \in {background.cache, b.cache},
             conf'.cache \in {conf.cache, b.cache}
      PROVE  NamesApart'
  <2> SUFFICES ASSUME NEW k \in DOMAIN calls', calls'[k].fresh # None
               PROVE  /\ calls'[k].fresh \notin NamesInUse'
                      /\ \A j \in DOMAIN calls' : calls'[j].fresh = calls'[k].fresh => j = k
    BY DEF NamesApart
  <2> DEFINE n == calls[k + 1].fresh
  <2>1. k + 1 \in DOMAIN calls /\ calls'[k].fresh = n /\ n # None
    BY <1>3
  <2>2. n \notin NamesInUse /\ \A j \in DOMAIN calls : calls[j].fresh = n => j = k + 1
    BY <1>1, <2>1 DEF NamesApart
  <2>3. n # c.fresh
    BY <1>2, <1>3, <2>2
  <2>4. n # c.background.cache
    BY <1>2, <2>2 DEF NamesInUse
  <2>5. n # b.cache
    BY <1>2, <2>3, <2>4
  <2>6. n \notin NamesInUse'
    <3>1. \A j \in DOMAIN calls' : n # calls'[j].background.cache
      BY <1>3, <2>2 DEF NamesInUse
    <3>2. n \notin {background'.cache, conf'.cache}
      BY <1>7, <2>2, <2>5 DEF NamesInUse
    <3>3. chooser # None => n # chooser.previous.cache /\ n # chooser.chosen.cache
      BY <2>2 DEF NamesInUse
    <3> QED
      BY <1>4, <3>1, <3>2, <3>3 DEF NamesInUse
  <2>7. ASSUME NEW j \in DOMAIN calls', calls'[j].fresh = n
        PROVE  j = k
    <3>1. j + 1 = k + 1
      BY <1>3, <2>2, <2>7
    <3> QED
      BY <1>3, <3>1
  <2> HIDE DEF n
  <2> QED
    BY <2>1, <2>6, <2>7
<1>8. ASSUME cacheDir' = cacheDir \/ Shrinks
      PROVE  CallsSound'
  <2>1. ASSUME NEW k \in DOMAIN calls'
        PROVE  CallSound(calls[k])'
    <3>1. PICK d \in Calls : d = calls[k + 1] /\ d = calls'[k] /\ CallSound(d)
      BY <1>1, <1>3 DEF CallsSound
    <3>2. CallSound(d)'
      BY <1>8, <3>1, CallSoundKept
    <3> QED
      BY <3>1, <3>2 DEF CallSound, Owned, Outcome
  <2> QED
    BY <2>1 DEF CallsSound
(* Of the background that is shown the file is its own. *)
<1>8a. ASSUME background' = background \/ (background' = b /\ Owned(b)),
              conf' = conf \/ (conf' = b /\ Owned(b)),
              cacheDir' = cacheDir \/ Shrinks
       PROVE  CacheOwn'
  <2>1. \A d \in {background', conf'} \union InTheDialog : Owned(d) /\ d \in Backgrounds
    BY <1>1, <1>2, <1>8a DEF CacheOwn, Owned, BackgroundTypeOK, InTheDialog, Choosers
  <2>2. ASSUME NEW d \in {background', conf'} \union InTheDialog
        PROVE  d.cache # None => cacheDir'[d.cache] \in {None, WholeFile(d.image)}
    <3>1. PICK e \in Backgrounds : e = d /\ Owned(e)
      BY <2>1
    <3>2. Owned(e)'
      BY <1>8a, <3>1, OwnedKept
    <3> QED
      BY <3>1, <3>2 DEF Owned
  <2> QED
    BY <1>4, <2>2 DEF CacheOwn
<1>8b. BoundsKept' /\ RowSound'
  <2>1. waiting'.timers \in SUBSET waiting.timers
    BY <1>1, <1>5 DEF NotWaiting
  <2>2. Cardinality(waiting'.timers) <= MaxCalls
    BY <1>1, <2>1, TimersFact
  <2>3. Len(calls') <= MaxCalls
    BY <1>1, <1>3, BackgroundAssumption DEF BoundsKept
  <2> QED
    BY <1>1, <1>4, <2>2, <2>3 DEF BoundsKept, RowSound
<1>9. CASE c.dropped
  <2>1. UNCHANGED <<background, picture, conf, cacheDir, chooser, waiting, undone, unsaved, crossed>>
    BY <1>4, <1>5, <1>9
  <2>2. 1 \notin Pending
    BY <1>2, <1>9 DEF Pending
  <2>3. \A i \in Pending : i - 1 \in Pending' /\ calls'[i - 1] = calls[i]
    <3> SUFFICES ASSUME NEW i \in Pending
                 PROVE  i - 1 \in Pending' /\ calls'[i - 1] = calls[i]
      OBVIOUS
    <3>1. i \in 2 .. Len(calls)
      BY <1>1, <2>2
    <3>2. i - 1 \in DOMAIN calls' /\ (i - 1) + 1 = i
      BY <1>3, <3>1
    <3> QED
      BY <1>3, <1>6, <3>2
  <2>4. \A k \in Pending' : k + 1 \in Pending /\ calls'[k] = calls[k + 1] /\ k \in Nat
    BY <1>3, <1>6
  <2>5. NamesApart' /\ CallsSound' /\ CacheOwn'
    BY <1>7, <1>8, <1>8a, <2>1
  <2>6. OnePending' /\ AnswersUsable'
    BY <1>1, <2>1, <2>4 DEF OnePending, AnswersUsable, Usable, Outcome
  <2>7. PendingMeant'
    BY <1>1, <2>1, <2>4 DEF PendingMeant, Equal
  <2>8. WaitingSound'
    BY <1>1, <2>1, <2>3 DEF WaitingSound
  <2>9. SavedIsShown'
    <3>1. Pending' = {} => Pending = {}
      BY <2>3
    <3> QED
      BY <2>1, <3>1 DEF BackgroundIInv, BackgroundCalm, SavedIsShown, Equal
  <2>10. CacheUsable' /\ PictureOfBackground' /\ ChooserMeant' /\ BackgroundTypeOK'
    BY <1>3, <1>4, <2>1 DEF BackgroundIInv, BackgroundSound, BackgroundCalm, BackgroundTypeOK,
                      CacheUsable, PictureOfBackground, ChooserMeant, Equal
  <2> QED
    BY <1>8b, <2>5, <2>6, <2>7, <2>8, <2>9, <2>10 DEF BackgroundIInv, BackgroundSound, BackgroundCalm
<1>10. CASE ~c.dropped
  <2>1. 1 \in Pending /\ c = calls[1]
    BY <1>2, <1>10 DEF Pending
  <2>2. ~crossed => Pending = {1}
    BY <1>1, <2>1 DEF OnePending
  <2>3. ~crossed => Pending' = {}
    <3>1. \A k \in DOMAIN calls' : k + 1 # 1
      BY <1>3
    <3> QED
      BY <1>6, <2>2, <3>1
  <2>4. OnePending' /\ PendingMeant' /\ AnswersUsable'
    BY <1>4, <2>3 DEF OnePending, PendingMeant, AnswersUsable
  <2>5. /\ waiting' = [timers |-> waiting.timers \ {waiting.timeout}, timeout |-> None, note |-> None]
        /\ waiting' \in [timers : SUBSET CallIds, timeout : CallIds \union {None},
                          note : CallIds \union {None}]
    BY <1>1, <1>5, <1>10 DEF NotWaiting, BackgroundTypeOK
  <2>6. WaitingSound'
    <3>1. ~crossed => waiting.timers \ {waiting.timeout} = {}
      BY <1>1 DEF WaitingSound
    <3> QED
      BY <1>4, <2>5, <3>1 DEF WaitingSound
  <2>8. /\ ~crossed =>
             /\ c.kind = "preview" <=> chooser # None
             /\ c.kind \in {"start", "restore"} /\ ~undone => Equal(c.background, conf)
             /\ c.kind = "start" /\ ~undone => Equal(background, conf)
        /\ c.kind \in {"start", "preview", "confirm", "restore"}
        /\ c.painted \in Pictures \union {None}
    <3>1. c.kind \in {"start", "preview", "confirm", "restore"}
          /\ c.painted \in Pictures \union {None}
      BY <1>2 DEF Calls
    <3> QED
      BY <1>1, <2>1, <3>1 DEF PendingMeant
  <2>9. CASE c.done = "failed"
    <3>1. /\ undone' = (undone \/ c.kind \in {"confirm", "restore"})
          /\ UNCHANGED <<background, picture, conf, cacheDir, unsaved>>
      BY <1>5, <1>10, <2>9
    <3>2. SavedIsShown'
      BY <1>4, <2>8, <3>1 DEF SavedIsShown, Equal
    <3>3. ChooserMeant'
      BY <1>4, <2>8, <3>1 DEF BackgroundIInv, BackgroundCalm, ChooserMeant, Equal
    <3>4. CacheUsable' /\ PictureOfBackground'
      BY <1>1, <1>4, <3>1 DEF CacheUsable, PictureOfBackground, Equal
    <3>5. BackgroundTypeOK'
      BY <1>1, <1>3, <1>4, <2>5, <3>1 DEF BackgroundTypeOK
    <3>6. NamesApart' /\ CallsSound' /\ CacheOwn'
      BY <1>7, <1>8, <1>8a, <3>1
    <3> QED
      BY <1>8b, <2>4, <2>6, <3>2, <3>3, <3>4, <3>5, <3>6
      DEF BackgroundIInv, BackgroundSound, BackgroundCalm
  <2>10. CASE c.done = "ok"
    <3>1. /\ background' = b /\ picture' = c.painted
          /\ IF c.kind = "confirm" THEN SaveBackground(b)
                                   ELSE UNCHANGED <<conf, cacheDir, undone, unsaved>>
      BY <1>5, <1>10, <2>10
    <3>2. /\ Owned(b) /\ (~crossed => Usable(b))
          /\ b.cache # None => b.cache \in CacheNames
          /\ c.painted = [image |-> c.background.image, look |-> c.background.look]
      <4>1. Owned(b) /\ c.painted = [image |-> c.background.image, look |-> c.background.look]
        BY <1>2, <1>10, <2>10 DEF CallSound, b
      <4>2. ~crossed => Usable(b)
        BY <1>1, <2>1, <2>10 DEF AnswersUsable, b
      <4> QED
        BY <1>2, <4>1, <4>2 DEF Backgrounds
    <3>3. PictureOfBackground'
      BY <1>2, <3>1, <3>2 DEF PictureOfBackground, Equal
    <3>4. CASE c.kind = "confirm"
      <4>1. /\ conf' \in {conf, b} /\ undone' \in BOOLEAN /\ unsaved' = undone'
            /\ ~undone' => conf' = b
            /\ cacheDir' \in [CacheNames -> CacheFiles \union {None}]
            /\ Shrinks
            /\ b.cache # None => cacheDir'[b.cache] = cacheDir[b.cache]
        BY <1>1, <1>2, <3>1, <3>4, SaveFact
      <4>2. ~crossed => chooser = None
        BY <2>8, <3>4
      <4>3. CacheUsable' /\ ChooserMeant' /\ SavedIsShown'
        <5>1. ~crossed /\ b.cache # None => cacheDir'[b.cache] = WholeFile(b.image)
          BY <3>2, <4>1 DEF Usable
        <5>2. ~crossed' => InTheDialog' = {} /\ chooser' = None
          BY <1>4, <4>2 DEF InTheDialog
        <5>3. ~unsaved' => conf' = b
          BY <4>1
        <5> QED
          BY <1>4, <3>1, <4>1, <5>1, <5>2, <5>3 DEF CacheUsable, ChooserMeant, SavedIsShown, Equal
      <4>4. BackgroundTypeOK'
        BY <1>1, <1>2, <1>3, <1>4, <2>5, <2>8, <3>1, <4>1 DEF BackgroundTypeOK
      <4>5. NamesApart' /\ CallsSound' /\ CacheOwn'
        BY <1>7, <1>8, <1>8a, <3>1, <3>2, <4>1
      <4> QED
        BY <1>8b, <2>4, <2>6, <3>3, <4>3, <4>4, <4>5
        DEF BackgroundIInv, BackgroundSound, BackgroundCalm
    <3>5. CASE c.kind # "confirm"
      <4>1. UNCHANGED <<conf, cacheDir, undone, unsaved>>
        BY <3>1, <3>5
      <4>2. CacheUsable'
        BY <1>1, <1>4, <3>1, <3>2, <4>1 DEF CacheUsable, Usable
      <4>3. ChooserMeant'
        BY <1>4, <4>1 DEF BackgroundIInv, BackgroundCalm, ChooserMeant, Equal
      <4>4. SavedIsShown'
        BY <1>2, <1>4, <2>8, <3>1, <3>5, <4>1 DEF SavedIsShown, Equal
      <4>5. BackgroundTypeOK'
        BY <1>1, <1>2, <1>3, <1>4, <2>5, <2>8, <3>1, <4>1 DEF BackgroundTypeOK
      <4>6. NamesApart' /\ CallsSound' /\ CacheOwn'
        BY <1>7, <1>8, <1>8a, <3>1, <3>2, <4>1
      <4> QED
        BY <1>8b, <2>4, <2>6, <3>3, <4>2, <4>3, <4>4, <4>5, <4>6
        DEF BackgroundIInv, BackgroundSound, BackgroundCalm
    <3> QED
      BY <3>4, <3>5
  <2> QED
    BY <1>5, <1>10, <2>9, <2>10
<1> QED
  BY <1>2, <1>9, <1>10

(* The dialog asks for a background. *)
LEMMA CallAdded ==
  ASSUME BackgroundSound, chooser # None,
         NEW b \in {chooser.previous, chooser.chosen},
         NEW kind \in {"preview", "confirm", "restore"}, ApplyAsync(calls, b, kind),
         UNCHANGED <<background, conf, cacheDir>>, chooser' \in {None, chooser}
  PROVE  /\ NamesApart' /\ CallsSound'
         /\ calls' \in Seq(Calls) /\ Len(calls') <= MaxCalls
         /\ Pending' = Pending \union {Len(calls) + 1} /\ NewId \in CallIds
         /\ \A i \in Pending : calls'[i] = calls[i]
         /\ calls'[Len(calls) + 1].kind = kind
         /\ calls'[Len(calls) + 1].background = b
         /\ calls'[Len(calls) + 1].id = NewId
         /\ calls'[Len(calls) + 1].done = "no"
<1> USE CallsFact
<1>1. BackgroundTypeOK /\ NamesApart /\ CallsSound /\ CacheOwn
  BY DEF BackgroundSound
<1>2. calls \in Seq(Calls) /\ b \in Backgrounds
  BY <1>1 DEF BackgroundTypeOK, Choosers
<1>3. PICK l \in Nat : l = Len(calls)
  BY <1>1
<1>4. PICK c \in Calls :
         /\ calls'[l + 1] = c
         /\ c.id = NewId /\ c.background = b /\ c.kind = kind
         /\ c.done = "no" /\ ~c.dropped
         /\ c.fresh # None <=> RequiresCaching(b)
         /\ c.fresh # None => c.fresh \in UnusedNames
  BY <1>2, <1>3, ApplyAsyncFact
<1>5. /\ NewId \in CallIds /\ l + 1 <= MaxCalls /\ l \in Nat
      /\ calls' \in Seq(Calls) /\ Len(calls') = l + 1
      /\ DOMAIN calls' = 1 .. l + 1
      /\ DOMAIN calls = 1 .. l
      /\ \A i \in 1 .. l : calls'[i] = calls[i]
  <2>1. /\ NewId \in CallIds /\ l + 1 <= MaxCalls
        /\ calls' \in Seq(Calls) /\ Len(calls') = l + 1
        /\ DOMAIN calls' = 1 .. Len(calls')
        /\ \A i \in 1 .. l : calls'[i] = calls[i]
    BY <1>2, <1>3, ApplyAsyncFact
  <2> QED
    BY <1>1, <1>3, <2>1
<1>6. \A i \in DOMAIN calls' : i = l + 1 \/ i \in DOMAIN calls
  BY <1>5
<1>7. Pending' = Pending \union {l + 1} /\ \A i \in Pending : calls'[i] = calls[i]
  BY <1>4, <1>5, <1>6 DEF Pending
<1>9. CallsSound'
  <2>1. ASSUME NEW i \in DOMAIN calls
        PROVE  CallSound(calls[i])'
    <3>1. PICK d \in Calls : d = calls[i] /\ d = calls'[i] /\ CallSound(d)
      BY <1>1, <1>5 DEF CallsSound
    <3>2. CallSound(d)'
      BY <3>1, CallSoundKept
    <3> QED
      BY <3>1, <3>2 DEF CallSound, Owned, Outcome
  <2>2. CallSound(calls[l + 1])'
    <3>1. b.cache # None => cacheDir[b.cache] \in {None, WholeFile(b.image)}
      BY <1>1 DEF CacheOwn, InTheDialog
    <3>2. CallSound(calls[l + 1])' <=>
            /\ c.fresh # None <=> RequiresCaching(c.background)
            /\ c.background.cache # None =>
                 cacheDir'[c.background.cache] \in {None, WholeFile(c.background.image)}
            /\ ~c.dropped /\ c.done = "ok" =>
                 /\ Outcome(c).cache # None =>
                      cacheDir'[Outcome(c).cache] \in {None, WholeFile(Outcome(c).image)}
                 /\ c.painted = [image |-> c.background.image, look |-> c.background.look]
      BY <1>4 DEF CallSound, Owned, Outcome
    <3> QED
      BY <1>4, <3>1, <3>2
  <2> QED
    BY <1>6, <2>1, <2>2 DEF CallsSound
<1>10. NamesApart'
  <2>1. b.cache \in NamesInUse /\ \A n : n \in NamesInUse' => n \in NamesInUse
    <3>1. b.cache \in NamesInUse
      BY DEF NamesInUse
    <3>2. \A i \in DOMAIN calls' : calls'[i].background.cache \in NamesInUse
      BY <1>4, <1>5, <1>6, <3>1 DEF NamesInUse
    <3> QED
      BY <3>1, <3>2 DEF NamesInUse
  <2>2. c.fresh # None => c.fresh \notin NamesInUse /\ \A i \in DOMAIN calls : calls[i].fresh # c.fresh
    BY <1>4 DEF UnusedNames, NamesInUse
  <2>3. \A i \in DOMAIN calls' : calls'[i].fresh # None => calls'[i].fresh \notin NamesInUse
    BY <1>1, <1>4, <1>5, <1>6, <2>2 DEF NamesApart
  <2>4. ASSUME NEW i \in DOMAIN calls', NEW j \in DOMAIN calls',
               calls'[i].fresh # None, calls'[j].fresh = calls'[i].fresh
        PROVE  j = i
    BY <1>1, <1>4, <1>5, <1>6, <2>2, <2>4 DEF NamesApart
  <2> QED
    BY <2>1, <2>3, <2>4 DEF NamesApart
<1> QED
  BY <1>3, <1>4, <1>5, <1>7, <1>9, <1>10

LEMMA ActivateFact ==
  ASSUME BackgroundIInv, SetBackgroundActivate
  PROVE  BackgroundIInv'
<1> USE CallsFact
<1>1. /\ BackgroundTypeOK /\ NamesApart /\ CallsSound /\ CacheOwn /\ BoundsKept
      /\ PictureOfBackground /\ CacheUsable /\ SavedIsShown /\ WaitingSound
  BY DEF BackgroundIInv, BackgroundSound, BackgroundCalm
<1> DEFINE row == IF background.image \in Local THEN None
                  ELSE [image |-> background.image, cache |-> background.cache]
           opened == [previous |-> background, chosen |-> background, row |-> row]
<1>2. /\ chooser = None /\ chooser' = opened
      /\ UNCHANGED <<background, picture, conf, cacheDir, calls, waiting, undone, unsaved>>
      /\ crossed' \in BOOLEAN /\ (~crossed' => ~crossed /\ Pending = {})
  <2>1. crossed' = (crossed \/ Pending # {}) /\ crossed \in BOOLEAN
    BY <1>1 DEF SetBackgroundActivate, MayCross, BackgroundTypeOK
  <2>2. crossed' \in BOOLEAN /\ (~crossed' => ~crossed /\ Pending = {})
    BY <2>1, Zenon
  <2> QED
    BY <2>2 DEF SetBackgroundActivate
<1>3. /\ opened \in Choosers /\ opened # None
      /\ opened.previous = background /\ opened.chosen = background /\ opened.row = row
      /\ row # None => row.cache = background.cache /\ row.image = background.image
  <2>1. background \in Backgrounds
    BY <1>1 DEF BackgroundTypeOK
  <2>2. background.image \in AllImages /\ background.cache \in CacheNames \union {None}
    BY <2>1 DEF Backgrounds
  <2> QED
    BY <2>1, <2>2, BackgroundAssumption DEF Choosers
<1> HIDE DEF opened, row
<1>4. BackgroundTypeOK'
  BY <1>1, <1>2, <1>3 DEF BackgroundTypeOK
<1>5. Pending' = Pending
  BY <1>2 DEF Pending
<1>6. OnePending' /\ PendingMeant' /\ SavedIsShown' /\ AnswersUsable'
  BY <1>2, <1>3, <1>5 DEF OnePending, PendingMeant, SavedIsShown, AnswersUsable
<1>7. WaitingSound' /\ BoundsKept'
  BY <1>1, <1>2, <1>5 DEF BoundsKept, WaitingSound
<1>8. CacheUsable' /\ CacheOwn' /\ PictureOfBackground' /\ RowSound'
  <2>1. InTheDialog = {} /\ InTheDialog' = {background}
    BY <1>2, <1>3 DEF InTheDialog
  <2> QED
    BY <1>1, <1>2, <1>3, <2>1 DEF CacheUsable, CacheOwn, PictureOfBackground, RowSound, Equal
<1>9. ChooserMeant'
  BY <1>1, <1>2, <1>3 DEF SavedIsShown, ChooserMeant, Equal
<1>10. CallsSound'
  BY <1>1, <1>2 DEF CallsSound, CallSound, Owned, Outcome
<1>11. NamesApart'
  <2>1. NamesInUse' = NamesInUse
    BY <1>2, <1>3 DEF NamesInUse
  <2> QED
    BY <1>1, <1>2, <2>1 DEF NamesApart
<1> QED
  BY <1>4, <1>6, <1>7, <1>8, <1>9, <1>10, <1>11
  DEF BackgroundIInv, BackgroundSound, BackgroundCalm

(* Whatever is chosen has a file that is there, or no file. *)
LEMMA ChooseFact ==
  ASSUME BackgroundIInv, Choose
  PROVE  BackgroundIInv'
<1> USE CallsFact
<1>1. /\ BackgroundTypeOK /\ NamesApart /\ CallsSound /\ CacheOwn /\ RowSound /\ BoundsKept
      /\ PictureOfBackground /\ CacheUsable /\ ChooserMeant /\ WaitingSound /\ AnswersUsable
  BY DEF BackgroundIInv, BackgroundSound, BackgroundCalm
<1>2. /\ chooser # None /\ chooser \in Choosers
      /\ UNCHANGED <<background, picture, conf, cacheDir, calls, waiting, undone, unsaved, crossed>>
  BY <1>1 DEF Choose, BackgroundTypeOK
<1>3. /\ chooser.previous \in Backgrounds /\ chooser.chosen \in Backgrounds
      /\ chooser.row # None => /\ chooser.row.image \in AllImages
                               /\ chooser.row.cache \in CacheNames \union {None}
  BY <1>2 DEF Choosers
<1> DEFINE Known(m) == m.cache \in {None, chooser.previous.cache, chooser.chosen.cache}
                         /\ (m.cache # None =>
                               /\ cacheDir[m.cache] \in {None, WholeFile(m.image)}
                               /\ ~crossed => cacheDir[m.cache] = WholeFile(m.image))
           Listed(m) == m.cache # None => m.cache = chooser.previous.cache
                                          /\ m.image = chooser.previous.image
<1>4. /\ chooser' \in Choosers /\ chooser'.previous = chooser.previous
      /\ Known(chooser'.chosen)
      /\ chooser'.row # None => Listed(chooser'.row)
  <2>1. ASSUME NEW row, FilenameChanged(row), row.image \in AllImages,
               row.cache \in CacheNames \union {None}, row \in [image : AllImages, cache : CacheNames \union {None}],
               Listed(row)
        PROVE  /\ chooser' \in Choosers /\ chooser'.previous = chooser.previous
               /\ Known(chooser'.chosen)
               /\ chooser'.row # None => Listed(chooser'.row)
    <3> DEFINE new == [chooser.chosen EXCEPT !.image = row.image, !.cache = row.cache]
               kept == IF row.image \in Local THEN chooser.row ELSE row
    <3>1. new \in Backgrounds /\ new.image = row.image /\ new.cache = row.cache
      BY <1>3, <2>1 DEF Backgrounds
    <3>2. chooser' = [chooser EXCEPT !.chosen = new, !.row = kept]
      BY <1>2, <2>1 DEF FilenameChanged, Choosers
    <3>3. /\ chooser'.previous = chooser.previous /\ chooser'.chosen = new /\ chooser'.row = kept
          /\ chooser' \in Choosers
      <4>1. kept \in [image : AllImages, cache : CacheNames \union {None}] \union {None}
        BY <1>2, <2>1 DEF Choosers
      <4> HIDE DEF new, kept
      <4> QED
        BY <1>2, <3>1, <3>2, <4>1 DEF Choosers
    <3>4. Known(new)
      BY <1>1, <1>2, <2>1, <3>1 DEF CacheUsable, CacheOwn, InTheDialog
    <3>5. kept # None => Listed(kept)
      BY <1>1, <1>2, <2>1 DEF RowSound
    <3> HIDE DEF new, kept
    <3> QED
      BY <3>3, <3>4, <3>5
  <2>2. ASSUME NEW row \in Rows, FilenameChanged(row)
        PROVE  /\ chooser' \in Choosers /\ chooser'.previous = chooser.previous
               /\ Known(chooser'.chosen)
               /\ chooser'.row # None => Listed(chooser'.row)
    <3>1. CASE row = chooser.row /\ chooser.row # None
      <4>1. row \in [image : AllImages, cache : CacheNames \union {None}]
        BY <1>2, <3>1 DEF Choosers
      <4>2. Listed(row)
        BY <1>1, <1>2, <3>1 DEF RowSound
      <4> HIDE DEF Listed, Known
      <4> QED
        BY <1>3, <2>1, <2>2, <3>1, <4>1, <4>2
    <3>2. ASSUME NEW n \in Local, row = [image |-> n, cache |-> None]
          PROVE  /\ chooser' \in Choosers /\ chooser'.previous = chooser.previous
                 /\ Known(chooser'.chosen)
                 /\ chooser'.row # None => Listed(chooser'.row)
      <4>1. row.image = n /\ row.cache = None /\ n \in AllImages
            /\ row \in [image : AllImages, cache : CacheNames \union {None}]
        BY <3>2 DEF AllImages
      <4> QED
        BY <2>1, <2>2, <4>1
    <3> QED
      BY <2>2, <3>1, <3>2 DEF Rows
  <2>3. ASSUME NEW n \in Remote, FilenameChanged([image |-> n, cache |-> None])
        PROVE  /\ chooser' \in Choosers /\ chooser'.previous = chooser.previous
               /\ Known(chooser'.chosen)
               /\ chooser'.row # None => Listed(chooser'.row)
    <3> DEFINE row == [image |-> n, cache |-> None]
    <3>1. row.image = n /\ row.cache = None /\ n \in AllImages
          /\ row \in [image : AllImages, cache : CacheNames \union {None}]
      BY DEF AllImages
    <3> HIDE DEF row
    <3> QED
      BY <2>1, <2>3, <3>1 DEF row
  <2>4. ASSUME NEW l \in Looks, chooser' = [chooser EXCEPT !.chosen.look = l]
        PROVE  /\ chooser' \in Choosers /\ chooser'.previous = chooser.previous
               /\ Known(chooser'.chosen)
               /\ chooser'.row # None => Listed(chooser'.row)
    <3> DEFINE new == [chooser.chosen EXCEPT !.look = l]
    <3>1. new \in Backgrounds /\ new.image = chooser.chosen.image /\ new.cache = chooser.chosen.cache
      BY <1>3 DEF Backgrounds
    <3>2. chooser' = [chooser EXCEPT !.chosen = new]
      BY <1>2, <2>4 DEF Choosers
    <3>3. /\ chooser'.previous = chooser.previous /\ chooser'.chosen = new
          /\ chooser'.row = chooser.row /\ chooser' \in Choosers
      <4> HIDE DEF new
      <4> QED
        BY <1>2, <3>1, <3>2 DEF Choosers
    <3>4. Known(new)
      BY <1>1, <1>2, <3>1 DEF CacheUsable, CacheOwn, InTheDialog
    <3>5. chooser.row # None => Listed(chooser.row)
      BY <1>1, <1>2 DEF RowSound
    <3> HIDE DEF new
    <3> QED
      BY <3>3, <3>4, <3>5
  <2> HIDE DEF Known, Listed
  <2> QED
    BY <2>2, <2>3, <2>4 DEF Choose
<1>5. chooser' # None
  BY <1>4, BackgroundAssumption
<1>6. Pending' = Pending
  BY <1>2 DEF Pending
<1>7. BackgroundTypeOK'
  BY <1>1, <1>2, <1>4 DEF BackgroundTypeOK
<1>8. OnePending' /\ PendingMeant' /\ SavedIsShown' /\ AnswersUsable'
  BY <1>2, <1>5, <1>6
  DEF BackgroundIInv, BackgroundCalm, OnePending, PendingMeant, SavedIsShown, AnswersUsable,
      Usable, Outcome, Equal
<1>9. WaitingSound' /\ BoundsKept'
  BY <1>1, <1>2, <1>6 DEF WaitingSound, BoundsKept
<1>10. CacheUsable' /\ CacheOwn' /\ PictureOfBackground'
  <2>1. /\ InTheDialog = {chooser.previous, chooser.chosen}
        /\ InTheDialog' = {chooser.previous, chooser'.chosen}
    BY <1>2, <1>4, <1>5 DEF InTheDialog
  <2> QED
    BY <1>1, <1>2, <1>4, <2>1 DEF CacheUsable, CacheOwn, PictureOfBackground, Equal
<1>11. ChooserMeant' /\ RowSound'
  BY <1>1, <1>2, <1>4, <1>5 DEF ChooserMeant, RowSound, Equal
<1>12. CallsSound'
  BY <1>1, <1>2 DEF CallsSound, CallSound, Owned, Outcome
<1>13. NamesApart'
  <2>1. \A n : n # None /\ n \in NamesInUse' => n \in NamesInUse
    BY <1>2, <1>4, <1>5 DEF NamesInUse
  <2> QED
    BY <1>1, <1>2, <2>1 DEF NamesApart
<1> QED
  BY <1>7, <1>8, <1>9, <1>10, <1>11, <1>12, <1>13
  DEF BackgroundIInv, BackgroundSound, BackgroundCalm

LEMMA RespondFact ==
  ASSUME BackgroundIInv, RespondOk \/ RespondPreview \/ RespondCancel
  PROVE  BackgroundIInv'
<1> USE CallsFact
<1>1. /\ BackgroundSound
      /\ BackgroundTypeOK /\ NamesApart /\ CallsSound /\ CacheOwn /\ RowSound /\ BoundsKept
      /\ PictureOfBackground /\ CacheUsable /\ ChooserMeant /\ WaitingSound /\ AnswersUsable
  BY DEF BackgroundIInv, BackgroundSound, BackgroundCalm
<1>2. /\ chooser # None /\ waiting.note = None
      /\ chooser.previous \in Backgrounds /\ chooser.chosen \in Backgrounds
      /\ crossed' \in BOOLEAN /\ (~crossed' => ~crossed /\ Pending = {})
      /\ UNCHANGED <<background, picture>>
  <2>1. CanRespond /\ UNCHANGED <<background, picture>>
    BY DEF RespondOk, RespondPreview, RespondCancel
  <2>2. crossed' = (crossed \/ Pending # {}) /\ crossed \in BOOLEAN
    BY <1>1, <2>1 DEF CanRespond, MayCross, BackgroundTypeOK
  <2>3. crossed' \in BOOLEAN /\ (~crossed' => ~crossed /\ Pending = {})
    BY <2>2, Zenon
  <2> QED
    BY <1>1, <2>1, <2>3 DEF CanRespond, MayCross, BackgroundTypeOK, Choosers
<1>3. ~crossed' => waiting.timers = {}
  BY <1>1, <1>2 DEF WaitingSound
(* A call of the manager is all that happens, and the dialog may close. *)
<1>4. ASSUME NEW b \in {chooser.previous, chooser.chosen},
             NEW kind \in {"preview", "confirm", "restore"}, ApplyAsync(calls, b, kind),
             UNCHANGED <<conf, cacheDir, undone, unsaved>>,
             kind = "preview" => chooser' = chooser, kind # "preview" => chooser' = None,
             kind = "restore" => b = chooser.previous /\ UNCHANGED waiting,
             kind # "restore" => StartWaiting
      PROVE  BackgroundIInv'
  <2>1. PICK l \in Nat : l = Len(calls)
    BY <1>1
  <2>2. /\ NamesApart' /\ CallsSound'
        /\ calls' \in Seq(Calls) /\ Len(calls') <= MaxCalls
        /\ Pending' = Pending \union {l + 1} /\ NewId \in CallIds
        /\ calls'[l + 1].kind = kind
        /\ calls'[l + 1].background = b
        /\ calls'[l + 1].id = NewId
        /\ calls'[l + 1].done = "no"
    BY <1>1, <1>2, <1>4, <2>1, CallAdded
  <2>3. ~crossed' => Pending' = {l + 1}
    BY <1>2, <2>2
  <2>4. CacheUsable' /\ CacheOwn' /\ PictureOfBackground' /\ RowSound'
    <3>1. InTheDialog' \subseteq InTheDialog
      BY <1>2, <1>4 DEF InTheDialog
    <3> QED
      BY <1>1, <1>2, <1>4, <3>1 DEF CacheUsable, CacheOwn, PictureOfBackground, RowSound, Equal
  <2>5. ChooserMeant'
    BY <1>1, <1>2, <1>4 DEF ChooserMeant, Equal
  <2>6. SavedIsShown' /\ OnePending' /\ AnswersUsable'
    BY <2>2, <2>3 DEF SavedIsShown, OnePending, AnswersUsable
  <2>7. PendingMeant'
    <3>1. kind \in {"start", "restore"} /\ ~undone /\ ~crossed' => Equal(b, conf)
      BY <1>1, <1>2, <1>4 DEF ChooserMeant
    <3>2. (kind = "preview") <=> (chooser' # None)
      BY <1>2, <1>4
    <3> QED
      BY <1>2, <1>4, <2>2, <2>3, <3>1, <3>2 DEF PendingMeant, Equal
  <2>8. /\ waiting' \in [timers : SUBSET CallIds, timeout : CallIds \union {None},
                         note : CallIds \union {None}]
        /\ WaitingSound'
        /\ Cardinality(waiting'.timers) <= MaxCalls
    <3>1. CASE kind = "restore"
      <4>1. waiting' = waiting
        BY <1>4, <3>1
      <4> QED
        BY <1>1, <1>2, <1>3, <4>1 DEF BackgroundTypeOK, WaitingSound, BoundsKept
    <3>2. CASE kind # "restore"
      <4>1. /\ waiting' = [waiting EXCEPT !.timers = @ \union {NewId}, !.timeout = NewId]
            /\ Cardinality(waiting.timers) < MaxCalls
        BY <1>4, <3>2 DEF StartWaiting
      <4>2. /\ waiting' \in [timers : SUBSET CallIds, timeout : CallIds \union {None},
                             note : CallIds \union {None}]
            /\ waiting'.timers = waiting.timers \union {NewId}
            /\ waiting'.timeout = NewId /\ waiting'.note = None
        BY <1>1, <1>2, <2>2, <4>1 DEF BackgroundTypeOK
      <4>3. ~crossed' => \A n \in waiting'.timers \union ({waiting'.note} \ {None}) : n = NewId
        BY <1>3, <4>2
      <4>4. Cardinality(waiting'.timers) <= MaxCalls
        <5>1. IsFiniteSet(waiting.timers) /\ Cardinality(waiting.timers) \in Nat
          BY <1>1, TimersFact
        <5>2. Cardinality(waiting.timers \union {NewId}) =
                IF NewId \in waiting.timers THEN Cardinality(waiting.timers)
                                            ELSE Cardinality(waiting.timers) + 1
          BY <5>1, FS_AddElement
        <5> QED
          BY <4>1, <4>2, <5>1, <5>2, BackgroundAssumption
      <4> QED
        BY <1>3, <2>2, <2>3, <3>2, <4>2, <4>3, <4>4 DEF WaitingSound
    <3> QED
      BY <3>1, <3>2
  <2>9. BackgroundTypeOK' /\ BoundsKept'
    <3>1. chooser' \in Choosers \union {None}
      BY <1>1, <1>4 DEF BackgroundTypeOK
    <3> QED
      BY <1>1, <1>2, <1>4, <2>2, <2>8, <3>1 DEF BackgroundTypeOK, BoundsKept
  <2> QED
    BY <2>2, <2>4, <2>5, <2>6, <2>7, <2>8, <2>9 DEF BackgroundIInv, BackgroundSound, BackgroundCalm
(* The dialog closes and no call is made. *)
<1>5. ASSUME chooser' = None, UNCHANGED <<calls, waiting>>,
             \/ SaveBackground(background)
             \/ /\ UNCHANGED <<conf, cacheDir, undone, unsaved>>
                /\ ~undone /\ ~crossed' => Equal(background, conf)
      PROVE  BackgroundIInv'
  <2>1. background \in Backgrounds /\ conf \in Backgrounds
    BY <1>1 DEF BackgroundTypeOK
  <2>2. /\ conf' \in {conf, background} /\ undone' \in BOOLEAN /\ unsaved' \in BOOLEAN
        /\ cacheDir' \in [CacheNames -> CacheFiles \union {None}]
        /\ cacheDir' = cacheDir \/ Shrinks
        /\ ~undone' /\ ~crossed' => Equal(background, conf')
        /\ ~unsaved' => conf' = background \/ (conf' = conf /\ cacheDir' = cacheDir /\ ~unsaved)
        /\ background.cache # None => cacheDir'[background.cache] = cacheDir[background.cache]
    <3>1. CASE SaveBackground(background)
      <4>1. /\ conf' \in {conf, background} /\ undone' \in BOOLEAN /\ unsaved' = undone'
            /\ ~undone' => conf' = background
            /\ cacheDir' \in [CacheNames -> CacheFiles \union {None}]
            /\ Shrinks
            /\ background.cache # None => cacheDir'[background.cache] = cacheDir[background.cache]
        BY <1>1, <2>1, <3>1, SaveFact
      <4> QED
        BY <4>1 DEF Equal
    <3>2. CASE /\ UNCHANGED <<conf, cacheDir, undone, unsaved>>
               /\ ~undone /\ ~crossed' => Equal(background, conf)
      BY <1>1, <3>2 DEF BackgroundTypeOK, Equal
    <3> QED
      BY <1>5, <3>1, <3>2
  <2>3. Pending' = Pending
    BY <1>5 DEF Pending
  <2>4. OnePending' /\ PendingMeant' /\ WaitingSound' /\ AnswersUsable'
    BY <1>2, <1>3, <1>5, <2>3 DEF OnePending, PendingMeant, WaitingSound, AnswersUsable
  <2>5. SavedIsShown'
    BY <1>2, <2>2 DEF SavedIsShown, Equal
  <2>6. CacheUsable' /\ CacheOwn'
    <3>1. InTheDialog' = {}
      BY <1>5 DEF InTheDialog
    <3>2. CacheUsable'
      <4> SUFFICES ASSUME ~crossed',
                          NEW d \in {background} \union (IF unsaved' THEN {} ELSE {conf'}),
                          d.cache # None
                   PROVE  cacheDir'[d.cache] = WholeFile(d.image)
        BY <1>2, <3>1 DEF CacheUsable
      <4>1. CASE d = background
        BY <1>1, <1>2, <2>2, <4>1 DEF CacheUsable
      <4>2. CASE d = conf' /\ ~unsaved'
        BY <1>1, <1>2, <2>2, <4>1, <4>2 DEF CacheUsable
      <4> QED
        BY <4>1, <4>2
    <3>3. \A d \in {background', conf'} : d \in Backgrounds /\ Owned(d)
      BY <1>1, <1>2, <2>1, <2>2 DEF CacheOwn, Owned
    <3>4. ASSUME NEW d \in {background', conf'}
          PROVE  d.cache # None => cacheDir'[d.cache] \in {None, WholeFile(d.image)}
      <4>1. PICK e \in Backgrounds : e = d /\ Owned(e)
        BY <3>3
      <4>2. Owned(e)'
        BY <2>2, <4>1, OwnedKept
      <4> QED
        BY <4>1, <4>2 DEF Owned
    <3> QED
      BY <3>1, <3>2, <3>4 DEF CacheOwn
  <2>7. ChooserMeant' /\ RowSound' /\ PictureOfBackground' /\ BoundsKept'
    BY <1>1, <1>2, <1>5 DEF ChooserMeant, RowSound, PictureOfBackground, BoundsKept, Equal
  <2>8. BackgroundTypeOK'
    BY <1>1, <1>2, <1>5, <2>1, <2>2 DEF BackgroundTypeOK
  <2>9. CallsSound'
    <3>1. ASSUME NEW i \in DOMAIN calls
          PROVE  CallSound(calls[i])'
      <4>1. PICK d \in Calls : d = calls[i] /\ d = calls'[i] /\ CallSound(d)
        BY <1>1, <1>5 DEF CallsSound
      <4>2. CallSound(d)'
        BY <2>2, <4>1, CallSoundKept
      <4> QED
        BY <4>1, <4>2 DEF CallSound, Owned, Outcome
    <3> QED
      BY <1>5, <3>1 DEF CallsSound
  <2>10. NamesApart'
    <3>1. \A n : n \in NamesInUse' => n \in NamesInUse
      BY <1>2, <1>5, <2>2 DEF NamesInUse
    <3> QED
      BY <1>1, <1>5, <3>1 DEF NamesApart
  <2> QED
    BY <2>4, <2>5, <2>6, <2>7, <2>8, <2>9, <2>10 DEF BackgroundIInv, BackgroundSound, BackgroundCalm
<1>6. CASE RespondOk
  BY <1>4, <1>5, <1>6 DEF RespondOk
<1>7. CASE RespondPreview
  BY <1>4, <1>7 DEF RespondPreview
<1>8. CASE RespondCancel
  <2>1. CASE Equal(background, chooser.previous)
    <3>1. ~undone /\ ~crossed' => Equal(background, conf)
      BY <1>1, <1>2, <2>1 DEF ChooserMeant, Equal
    <3> QED
      BY <1>5, <1>8, <2>1, <3>1 DEF RespondCancel
  <2>2. CASE ~Equal(background, chooser.previous)
    BY <1>4, <1>8, <2>2 DEF RespondCancel
  <2> QED
    BY <2>1, <2>2
<1> QED
  BY <1>6, <1>7, <1>8

LEMMA NoteFact ==
  ASSUME BackgroundIInv, LoadingTimeout \/ CancelNoteResponse
  PROVE  BackgroundIInv'
<1> USE CallsFact
<1>1. /\ BackgroundTypeOK /\ NamesApart /\ CallsSound /\ CacheOwn /\ RowSound /\ BoundsKept
      /\ PictureOfBackground /\ CacheUsable /\ ChooserMeant /\ AnswersUsable /\ SavedIsShown
      /\ OnePending /\ PendingMeant /\ WaitingSound
  BY DEF BackgroundIInv, BackgroundSound, BackgroundCalm
<1>2. CASE LoadingTimeout
  <2>1. PICK id \in waiting.timers :
           waiting' = [timers |-> waiting.timers \ {id}, timeout |-> None,
                       note |-> IF waiting.note = None THEN id ELSE waiting.note]
    BY <1>2 DEF LoadingTimeout
  <2>2. UNCHANGED <<background, picture, conf, cacheDir, chooser, calls, undone, unsaved, crossed>>
    BY <1>2 DEF LoadingTimeout
  <2>3. /\ waiting'.timers = waiting.timers \ {id} /\ id \in CallIds
        /\ waiting' \in [timers : SUBSET CallIds, timeout : CallIds \union {None},
                         note : CallIds \union {None}]
        /\ ~crossed => waiting'.timers = {} /\ waiting'.note = id
    <3>1. id \in CallIds /\ (~crossed => waiting.note = None /\ waiting.timers \ {id} = {})
      BY <1>1, <2>1 DEF BackgroundTypeOK, WaitingSound
    <3> QED
      BY <1>1, <2>1, <3>1 DEF BackgroundTypeOK
  <2>4. Pending' = Pending /\ InTheDialog' = InTheDialog
    BY <2>2 DEF Pending, InTheDialog
  <2>5. WaitingSound'
    <3>1. ~crossed => \E i \in Pending : calls[i].id = id /\ calls[i].kind \in {"preview", "confirm"}
      BY <1>1, <2>1 DEF WaitingSound
    <3>2. ~crossed => \A n \in waiting'.timers \union ({waiting'.note} \ {None}) : n = id
      BY <2>3
    <3> QED
      BY <2>2, <2>3, <2>4, <3>1, <3>2 DEF WaitingSound
  <2>6. BackgroundTypeOK' /\ BoundsKept'
    <3>1. Cardinality(waiting'.timers) <= MaxCalls
      BY <1>1, <2>3, TimersFact
    <3> QED
      BY <1>1, <2>2, <2>3, <3>1 DEF BackgroundTypeOK, BoundsKept
  <2>7. OnePending' /\ PendingMeant' /\ SavedIsShown' /\ ChooserMeant' /\ RowSound' /\ AnswersUsable'
    BY <1>1, <2>2, <2>4
    DEF OnePending, PendingMeant, SavedIsShown, ChooserMeant, RowSound, AnswersUsable, Usable,
        Outcome, Equal
  <2>8. CacheUsable' /\ CacheOwn' /\ PictureOfBackground'
    BY <1>1, <2>2, <2>4 DEF CacheUsable, CacheOwn, PictureOfBackground, Equal
  <2>9. NamesApart' /\ CallsSound'
    BY <1>1, <2>2 DEF NamesApart, NamesInUse, CallsSound, CallSound, Owned, Outcome
  <2> QED
    BY <2>5, <2>6, <2>7, <2>8, <2>9 DEF BackgroundIInv, BackgroundSound, BackgroundCalm
<1>3. CASE CancelNoteResponse
  <2>1. /\ waiting.note # None /\ waiting' = [waiting EXCEPT !.note = None]
        /\ calls' = [i \in DOMAIN calls |->
                       [calls[i] EXCEPT !.dropped = @ \/ calls[i].id = waiting.note]]
        /\ undone' = (undone \/ \E i \in DOMAIN calls : /\ calls[i].id = waiting.note
                                                        /\ calls[i].kind = "confirm")
        /\ UNCHANGED <<background, picture, conf, cacheDir, chooser, unsaved, crossed>>
    BY <1>3 DEF CancelNoteResponse
  <2>3. /\ calls' \in Seq(Calls) /\ Len(calls') = Len(calls) /\ DOMAIN calls' = DOMAIN calls
        /\ \A j \in DOMAIN calls :
             /\ calls'[j] \in Calls
             /\ calls'[j].fresh = calls[j].fresh /\ calls'[j].background = calls[j].background
             /\ calls'[j].done = calls[j].done /\ calls'[j].painted = calls[j].painted
             /\ calls'[j].dropped = (calls[j].dropped \/ calls[j].id = waiting.note)
    <3> DEFINE c(j) == [calls[j] EXCEPT !.dropped = @ \/ calls[j].id = waiting.note]
    <3>1. \A j \in DOMAIN calls :
             /\ c(j) \in Calls
             /\ c(j).fresh = calls[j].fresh /\ c(j).background = calls[j].background
             /\ c(j).done = calls[j].done /\ c(j).painted = calls[j].painted
             /\ c(j).dropped = (calls[j].dropped \/ calls[j].id = waiting.note)
      <4> SUFFICES ASSUME NEW j \in DOMAIN calls
                   PROVE  /\ c(j) \in Calls
                          /\ c(j).fresh = calls[j].fresh /\ c(j).background = calls[j].background
                          /\ c(j).done = calls[j].done /\ c(j).painted = calls[j].painted
                          /\ c(j).dropped = (calls[j].dropped \/ calls[j].id = waiting.note)
        BY Zenon
      <4>1. PICK v \in BOOLEAN : v = (calls[j].dropped \/ calls[j].id = waiting.note)
        BY Zenon
      <4>2. c(j) = [calls[j] EXCEPT !.dropped = v]
        BY <4>1, Zenon
      <4>3. calls[j] \in Calls
        BY <1>1
      <4> HIDE DEF c
      <4>4. /\ c(j) \in Calls
            /\ c(j).fresh = calls[j].fresh /\ c(j).background = calls[j].background
            /\ c(j).done = calls[j].done /\ c(j).painted = calls[j].painted
            /\ c(j).dropped = v
        BY <4>2, <4>3 DEF Calls
      <4> QED
        BY <4>1, <4>4, Zenon
    <3>2. calls' = [j \in 1 .. Len(calls) |-> c(j)] /\ Len(calls) \in Nat
      BY <1>1, <2>1
    <3> HIDE DEF c
    <3>3. calls' \in Seq(Calls) /\ Len(calls') = Len(calls)
      BY <1>1, <3>1, <3>2
    <3> QED
      BY <1>1, <3>1, <3>2, <3>3
  <2>4. \A j \in Pending' : j \in Pending /\ calls[j].id # waiting.note
    BY <1>1, <2>3 DEF Pending
  <2>4a. ~crossed => \E i \in Pending : /\ calls[i].id = waiting.note
                                        /\ calls[i].kind \in {"preview", "confirm"}
                                        /\ Pending = {i}
    <3>1. ~crossed => \E i \in Pending : /\ calls[i].id = waiting.note
                                         /\ calls[i].kind \in {"preview", "confirm"}
      BY <1>1, <2>1 DEF WaitingSound
    <3> QED
      BY <1>1, <3>1 DEF OnePending
  <2>4b. ~crossed => Pending' = {}
    BY <2>4, <2>4a
  <2>5. waiting'.timers = waiting.timers /\ waiting'.note = None
        /\ waiting' \in [timers : SUBSET CallIds, timeout : CallIds \union {None},
                         note : CallIds \union {None}]
        /\ (~crossed => waiting'.timers = {} /\ waiting'.timeout = waiting.timeout)
    BY <1>1, <2>1 DEF BackgroundTypeOK, WaitingSound
  <2>6. OnePending' /\ PendingMeant' /\ WaitingSound' /\ AnswersUsable'
    BY <2>1, <2>4b, <2>5 DEF OnePending, PendingMeant, WaitingSound, AnswersUsable
  <2>7. SavedIsShown'
    <3>1. ASSUME chooser = None, ~crossed
          PROVE  undone'
      <4>1. PICK i \in Pending : calls[i].id = waiting.note /\ calls[i].kind \in {"preview", "confirm"}
        BY <2>4a, <3>1
      <4>2. calls[i].kind = "confirm" /\ i \in DOMAIN calls
        BY <1>1, <3>1, <4>1 DEF PendingMeant, Pending
      <4> QED
        BY <2>1, <4>1, <4>2
    <3> QED
      BY <2>1, <3>1 DEF SavedIsShown
  <2>8. undone' \in BOOLEAN /\ (~undone' => ~undone)
    BY <1>1, <2>1 DEF BackgroundTypeOK
  <2>9. BackgroundTypeOK' /\ BoundsKept'
    BY <1>1, <2>1, <2>3, <2>5, <2>8 DEF BackgroundTypeOK, BoundsKept
  <2>10. CacheUsable' /\ CacheOwn' /\ PictureOfBackground' /\ ChooserMeant' /\ RowSound'
    <3>1. InTheDialog' = InTheDialog
      BY <2>1 DEF InTheDialog
    <3> QED
      BY <1>1, <2>1, <2>8, <3>1
      DEF CacheUsable, CacheOwn, PictureOfBackground, ChooserMeant, RowSound, Equal
  <2>11. NamesApart'
    <3>1. NamesInUse' = NamesInUse
      BY <2>1, <2>3 DEF NamesInUse
    <3> QED
      BY <1>1, <2>3, <3>1 DEF NamesApart
  <2>12. CallsSound'
    <3>1. ASSUME NEW j \in DOMAIN calls
          PROVE  CallSound(calls[j])'
      <4>1. CallSound(calls[j]) /\ (~calls'[j].dropped => ~calls[j].dropped)
        BY <1>1, <2>3, <3>1 DEF CallsSound
      <4>2. Outcome(calls[j])' = Outcome(calls[j])
        BY <2>3 DEF Outcome
      <4> QED
        BY <2>1, <2>3, <4>1, <4>2 DEF CallSound, Owned
    <3> QED
      BY <2>3, <3>1 DEF CallsSound
  <2> QED
    BY <2>6, <2>7, <2>9, <2>10, <2>11, <2>12 DEF BackgroundIInv, BackgroundSound, BackgroundCalm
<1> QED
  BY <1>2, <1>3

(* After a start nobody takes the answers to what was asked before. *)
LEMMA StartFact ==
  ASSUME BackgroundSound, StartHomeWindow
  PROVE  BackgroundIInv'
<1> USE CallsFact
<1>1. BackgroundTypeOK /\ NamesApart /\ CallsSound /\ CacheOwn
  BY DEF BackgroundSound
<1> DEFINE lost == conf.cache # None /\ cacheDir[conf.cache] = None
           loaded == IF lost THEN Default ELSE conf
           answered == Cardinality({i \in DOMAIN calls : calls[i].done # "no"})
           disowned == [i \in DOMAIN calls |-> [calls[i] EXCEPT !.dropped = TRUE]]
           left == SubSeq(disowned, answered + 1, Len(calls))
<1>2. /\ IF lost THEN SaveBackground(loaded)
         ELSE undone' = FALSE /\ unsaved' = FALSE /\ UNCHANGED <<conf, cacheDir>>
      /\ crossed' = FALSE
      /\ background' = loaded /\ picture' = None
      /\ chooser' = None /\ waiting' = NotWaiting
      /\ ApplyAsync(left, loaded, "start")
  BY DEF StartHomeWindow
<1>3. Default \in Backgrounds /\ Default.cache = None
  BY BackgroundAssumption DEF Default, Backgrounds, AllImages
<1>4. /\ loaded \in Backgrounds /\ conf' \in {conf, loaded}
      /\ undone' \in BOOLEAN /\ unsaved' = undone' /\ (~undone' => conf' = loaded)
      /\ cacheDir' \in [CacheNames -> CacheFiles \union {None}]
      /\ cacheDir' = cacheDir \/ Shrinks
      /\ loaded.cache # None => loaded = conf /\ cacheDir'[loaded.cache] = WholeFile(loaded.image)
      /\ conf \in Backgrounds
  <2>1. CASE lost
    <3>1. /\ conf' \in {conf, Default} /\ undone' \in BOOLEAN /\ unsaved' = undone'
          /\ ~undone' => conf' = Default
          /\ cacheDir' \in [CacheNames -> CacheFiles \union {None}]
          /\ Shrinks
      BY <1>1, <1>2, <1>3, <2>1, SaveFact
    <3> QED
      BY <1>1, <1>3, <2>1, <3>1 DEF BackgroundTypeOK
  <2>2. CASE ~lost
    <3>1. loaded = conf /\ conf' = conf /\ cacheDir' = cacheDir /\ undone' = FALSE /\ unsaved' = FALSE
      BY <1>2, <2>2
    <3>2. conf.cache # None => cacheDir[conf.cache] = WholeFile(conf.image)
      BY <1>1, <2>2 DEF CacheOwn
    <3> QED
      BY <1>1, <3>1, <3>2 DEF BackgroundTypeOK
  <2> QED
    BY <2>1, <2>2
<1>5. \A i \in DOMAIN calls :
        /\ disowned[i] \in Calls
        /\ disowned[i].fresh = calls[i].fresh /\ disowned[i].background = calls[i].background
        /\ disowned[i].dropped = TRUE
  <2> SUFFICES ASSUME NEW i \in DOMAIN calls
               PROVE  /\ disowned[i] \in Calls
                      /\ disowned[i].fresh = calls[i].fresh
                      /\ disowned[i].background = calls[i].background
                      /\ disowned[i].dropped = TRUE
    BY Zenon
  <2>1. disowned[i] = [calls[i] EXCEPT !.dropped = TRUE] /\ calls[i] \in Calls
    BY <1>1
  <2> HIDE DEF disowned
  <2> QED
    BY <2>1 DEF Calls
<1>6. PICK a \in Nat : a = answered
  <2>1. 1 \in Int /\ Len(calls) \in Int
    BY <1>1
  <2>2. IsFiniteSet(1 .. Len(calls))
    BY <2>1, FS_Interval
  <2>3. IsFiniteSet({i \in DOMAIN calls : calls[i].done # "no"})
    BY <1>1, <2>2, FS_Subset
  <2> QED
    BY <2>3, FS_CardinalityType
<1> HIDE DEF disowned, lost, loaded, answered
<1>7. PICK l \in Nat : l = Len(left)
  <2>1. \A i \in a + 1 .. Len(calls) : disowned[i] \in Calls
    BY <1>1, <1>5, <1>6
  <2>2. a + 1 \in Int /\ Len(calls) \in Int
    BY <1>1
  <2>3. left \in Seq(Calls)
    BY <1>6, <2>1, <2>2, SubSeqProperties
  <2> HIDE DEF left
  <2> QED
    BY <2>3
<1>8. /\ left \in Seq(Calls)
      /\ \A k \in 1 .. l : a + k \in DOMAIN calls /\ left[k] = disowned[a + k]
  <2>1. \A i \in a + 1 .. Len(calls) : disowned[i] \in Calls
    BY <1>1, <1>5, <1>6
  <2>2. a + 1 \in Int /\ Len(calls) \in Int
    BY <1>1
  <2>3. /\ left \in Seq(Calls)
        /\ Len(left) = IF a + 1 <= Len(calls) THEN Len(calls) - (a + 1) + 1 ELSE 0
        /\ \A k \in 1 .. Len(calls) - (a + 1) + 1 : left[k] = disowned[(a + 1) + k - 1]
    BY <1>6, <2>1, <2>2, SubSeqProperties
  <2> HIDE DEF left
  <2>4. ASSUME NEW k \in 1 .. l
        PROVE  a + k \in DOMAIN calls /\ left[k] = disowned[a + k]
    <3>1. PICK m \in Nat : m = Len(calls) /\ DOMAIN calls = 1 .. m
      BY <1>1
    <3>2. l = IF a + 1 <= m THEN m - (a + 1) + 1 ELSE 0
      BY <1>7, <2>3, <3>1
    <3>3. k \in 1 .. m - (a + 1) + 1 /\ (a + 1) + k - 1 = a + k /\ a + k \in 1 .. m
      BY <3>2
    <3> QED
      BY <2>3, <3>1, <3>3
  <2> QED
    BY <2>3, <2>4
<1> HIDE DEF left
<1>9. /\ NewId \in CallIds /\ l + 1 <= MaxCalls
      /\ calls' \in Seq(Calls) /\ Len(calls') = l + 1
      /\ DOMAIN calls' = 1 .. l + 1
      /\ \A k \in 1 .. l : calls'[k] = left[k]
  BY <1>2, <1>4, <1>7, <1>8, ApplyAsyncFact
<1>10. PICK c \in Calls :
         /\ calls'[l + 1] = c
         /\ c.id = NewId /\ c.background = loaded /\ c.kind = "start"
         /\ c.done = "no" /\ ~c.dropped
         /\ c.fresh # None <=> RequiresCaching(loaded)
         /\ c.fresh # None => c.fresh \in UnusedNames
  BY <1>2, <1>4, <1>7, <1>8, ApplyAsyncFact
(* Each call that is left is one of before, given up. *)
<1>11. ASSUME NEW k \in 1 .. l
       PROVE  /\ a + k \in DOMAIN calls /\ calls'[k] \in Calls
              /\ calls'[k].fresh = calls[a + k].fresh
              /\ calls'[k].background = calls[a + k].background
              /\ calls'[k].dropped
  BY <1>5, <1>8, <1>9
<1>12. Pending' = {l + 1}
  <2>1. \A k \in DOMAIN calls' : k = l + 1 \/ k \in 1 .. l
    BY <1>9
  <2> QED
    BY <1>9, <1>10, <1>11, <2>1 DEF Pending
<1>13. OnePending' /\ SavedIsShown' /\ AnswersUsable'
  <2>1. calls'[l + 1].done = "no"
    BY <1>10
  <2> QED
    BY <1>12, <2>1 DEF OnePending, SavedIsShown, AnswersUsable
<1>14. PendingMeant'
  <2>1. c.kind = "start" /\ c.background = loaded /\ c = calls'[l + 1]
    BY <1>10
  <2> QED
    BY <1>2, <1>4, <1>12, <2>1 DEF PendingMeant, Equal
<1>15. /\ waiting' \in [timers : SUBSET CallIds, timeout : CallIds \union {None},
                        note : CallIds \union {None}]
       /\ WaitingSound' /\ BoundsKept'
  <2>1. waiting'.timers = {} /\ waiting'.note = None
        /\ waiting' \in [timers : SUBSET CallIds, timeout : CallIds \union {None},
                         note : CallIds \union {None}]
    BY <1>2 DEF NotWaiting
  <2>2. Cardinality({}) = 0
    BY FS_EmptySet
  <2> QED
    BY <1>9, <2>1, <2>2, BackgroundAssumption DEF WaitingSound, BoundsKept
<1>16. CacheUsable' /\ CacheOwn' /\ PictureOfBackground' /\ ChooserMeant' /\ RowSound'
  <2>1. InTheDialog' = {}
    BY <1>2 DEF InTheDialog
  <2>2. CacheUsable'
    BY <1>2, <1>4, <2>1 DEF CacheUsable
  <2>3. CacheOwn'
    <3>1. Owned(conf)
      BY <1>1 DEF CacheOwn, Owned
    <3>2. PICK e \in Backgrounds : e = conf
      BY <1>4
    <3>3. Owned(e)'
      BY <1>4, <3>1, <3>2, OwnedKept DEF Owned
    <3> QED
      BY <1>2, <1>4, <2>1, <3>2, <3>3 DEF CacheOwn, Owned
  <2> QED
    BY <1>2, <2>2, <2>3 DEF PictureOfBackground, ChooserMeant, RowSound
<1>17. CallsSound'
  <2>1. ASSUME NEW k \in DOMAIN calls'
        PROVE  CallSound(calls[k])'
    <3>1. CASE k \in 1 .. l
      <4>1. PICK d \in Calls : d = calls[a + k] /\ CallSound(d)
        BY <1>1, <1>11, <3>1 DEF CallsSound
      <4>2. d.background.cache \in CacheNames \union {None}
        BY DEF Calls, Backgrounds
      <4> QED
        BY <1>4, <1>11, <3>1, <4>1, <4>2 DEF CallSound, Owned, Shrinks, RequiresCaching
    <3>2. CASE k = l + 1
      <4>1. c = calls'[k]
        BY <1>10, <3>2
      <4> QED
        BY <1>4, <1>10, <4>1 DEF CallSound, Owned
    <3> QED
      BY <1>9, <3>1, <3>2
  <2> QED
    BY <2>1 DEF CallsSound
<1>18. NamesApart'
  <2>1. loaded.cache \in NamesInUse \union {None}
    BY <1>4 DEF NamesInUse
  <2>2. \A n : n # None /\ n \in NamesInUse' => n \in NamesInUse
    <3>1. \A k \in DOMAIN calls' : calls'[k].background.cache \in NamesInUse \union {None}
      <4>1. ASSUME NEW k \in 1 .. l
            PROVE  calls'[k].background.cache \in NamesInUse
        BY <1>11, <4>1 DEF NamesInUse
      <4> QED
        BY <1>9, <1>10, <2>1, <4>1
    <3>2. background'.cache \in NamesInUse \union {None} /\ conf'.cache \in NamesInUse \union {None}
      BY <1>2, <1>4, <2>1 DEF NamesInUse
    <3> QED
      BY <1>2, <3>1, <3>2 DEF NamesInUse
  <2>3. c.fresh # None => c.fresh \notin NamesInUse /\ \A i \in DOMAIN calls : calls[i].fresh # c.fresh
    BY <1>10 DEF UnusedNames, NamesInUse
  <2>4. ASSUME NEW k \in DOMAIN calls', calls'[k].fresh # None
        PROVE  calls'[k].fresh \notin NamesInUse
    <3>1. CASE k \in 1 .. l
      BY <1>1, <1>11, <2>4, <3>1 DEF NamesApart
    <3>2. CASE k = l + 1
      BY <1>10, <2>3, <2>4, <3>2
    <3> QED
      BY <1>9, <3>1, <3>2
  <2>5. ASSUME NEW j \in DOMAIN calls', NEW k \in DOMAIN calls',
               calls'[k].fresh # None, calls'[j].fresh = calls'[k].fresh
        PROVE  j = k
    <3>1. CASE j \in 1 .. l /\ k \in 1 .. l
      <4>1. a + j = a + k
        BY <1>1, <1>11, <2>5, <3>1 DEF NamesApart
      <4> QED
        BY <3>1, <4>1
    <3>2. CASE j = l + 1 /\ k \in 1 .. l
      BY <1>10, <1>11, <2>3, <2>5, <3>2
    <3>3. CASE k = l + 1 /\ j \in 1 .. l
      BY <1>10, <1>11, <2>3, <2>5, <3>3
    <3> QED
      BY <1>9, <3>1, <3>2, <3>3
  <2> QED
    BY <2>2, <2>4, <2>5 DEF NamesApart
<1>19. BackgroundTypeOK'
  BY <1>2, <1>4, <1>9, <1>15 DEF BackgroundTypeOK
<1> QED
  BY <1>13, <1>14, <1>15, <1>16, <1>17, <1>18, <1>19
  DEF BackgroundIInv, BackgroundSound, BackgroundCalm

LEMMA BackgroundInitFact == BackgroundInit => BackgroundIInv
<1> SUFFICES ASSUME BackgroundInit
             PROVE  BackgroundIInv
  OBVIOUS
<1> DEFINE c == [id |-> 1, background |-> Default, kind |-> "start", done |-> "no",
                 dropped |-> FALSE, painted |-> None, fresh |-> None]
<1>1. /\ Default \in Backgrounds /\ Default.cache = None /\ Default.image \in Local
  BY BackgroundAssumption DEF Default, Backgrounds, AllImages
<1>2. 1 \in CallIds
  BY BackgroundAssumption DEF CallIds
<1>3. c \in Calls
  BY <1>1, <1>2 DEF Calls
<1>4. /\ c.background = Default /\ c.kind = "start" /\ c.done = "no" /\ ~c.dropped /\ c.fresh = None
  OBVIOUS
<1>5. calls = <<c>>
  BY DEF BackgroundInit
<1> HIDE DEF c
<1>6. /\ calls \in Seq(Calls) /\ Len(calls) = 1 /\ DOMAIN calls = {1} /\ calls[1] = c
  BY <1>3, <1>5
<1>7. /\ background = Default /\ conf = Default /\ picture = None
      /\ cacheDir = [n \in CacheNames |-> None]
      /\ chooser = None /\ waiting = NotWaiting
      /\ undone = FALSE /\ unsaved = FALSE /\ crossed = FALSE
  BY DEF BackgroundInit
<1>8. waiting.timers = {} /\ waiting.note = None
      /\ waiting \in [timers : SUBSET CallIds, timeout : CallIds \union {None},
                      note : CallIds \union {None}]
  BY <1>7 DEF NotWaiting
<1>9. BackgroundTypeOK
  BY <1>1, <1>6, <1>7, <1>8 DEF BackgroundTypeOK
<1>10. /\ CacheUsable /\ CacheOwn /\ PictureOfBackground
       /\ ChooserMeant /\ RowSound /\ BoundsKept
  <2>1. InTheDialog = {}
    BY <1>7 DEF InTheDialog
  <2>2. BoundsKept
    BY <1>6, <1>8, FS_EmptySet, BackgroundAssumption DEF BoundsKept
  <2> QED
    BY <1>1, <1>7, <2>1, <2>2 DEF CacheUsable, CacheOwn, PictureOfBackground, ChooserMeant, RowSound
<1>11. Pending = {1}
  BY <1>4, <1>6 DEF Pending
<1>12. OnePending /\ SavedIsShown /\ WaitingSound /\ AnswersUsable
  BY <1>4, <1>6, <1>8, <1>11 DEF OnePending, SavedIsShown, WaitingSound, AnswersUsable
<1>13. PendingMeant
  BY <1>4, <1>6, <1>7, <1>11 DEF PendingMeant, Equal
<1>14. NamesApart
  BY <1>4, <1>6 DEF NamesApart
<1>15. CallsSound
  <2>1. ~RequiresCaching(Default)
    BY <1>1, BackgroundAssumption DEF RequiresCaching
  <2> QED
    BY <1>1, <1>4, <1>6, <2>1 DEF CallsSound, CallSound, Owned
<1> QED
  BY <1>9, <1>10, <1>12, <1>13, <1>14, <1>15 DEF BackgroundIInv, BackgroundSound, BackgroundCalm

(* For any images, looks, names and number of calls (hd-home-background.c,    *)
(* hd-home-window.c), whatever the user does and whether or not files can be  *)
(* written: the picture is that of the background, and a cache file is its     *)
(* own or lost.  From each start until the user goes on while an answer is    *)
(* awaited, the backgrounds shown and in the dialog have their files, and so   *)
(* has the one in the file unless it could not be written; the note and its    *)
(* timeouts belong to a call that is awaited, and what is shown is saved.     *)
THEOREM BackgroundSafe == BackgroundSpec => []BackgroundInv
<1>1. BackgroundIInv /\ [BackgroundNext]_bgVars => BackgroundIInv'
  <2> SUFFICES ASSUME BackgroundIInv, [BackgroundNext]_bgVars
               PROVE  BackgroundIInv'
    OBVIOUS
  <2>1. CASE UNCHANGED bgVars
    BY <2>1 DEF bgVars, BackgroundIInv, BackgroundSound, BackgroundCalm, BackgroundTypeOK,
                BoundsKept, CacheUsable, CacheOwn, InTheDialog, PictureOfBackground, RowSound,
                SavedIsShown, NamesApart, NamesInUse, CallsSound, CallSound, Owned, Usable,
                AnswersUsable, OnePending, PendingMeant, ChooserMeant, WaitingSound, Pending,
                Outcome, Equal
  <2>2. CASE BackgroundNext
    BY <2>2, ServedFact, ReplyFact, ActivateFact, ChooseFact, RespondFact, NoteFact, StartFact
    DEF BackgroundNext, BackgroundIInv
  <2> QED
    BY <2>1, <2>2
<1> QED
  BY <1>1, BackgroundInitFact, BackgroundIInvImpliesInv, PTL DEF BackgroundSpec

-----------------------------------------------------------------------------
(* The home area.  Its children are the items of the stack, each once; a      *)
(* place that is not in the file is one that a timeout will save, or that of  *)
(* an item which is being moved.                                              *)
Areas ==
  [children : Seq(Applets), stack : Seq(Applets), raised : SUBSET Applets,
   rect : [Applets -> Rects \union {None}], request : [Applets -> Sizes \union {None}],
   index : [Applets -> Nat], before : [Applets -> Rects \union {None}],
   layout : [Applets -> Rects \union {None}], loaded : BOOLEAN,
   timer : BOOLEAN, background : BOOLEAN, off : BOOLEAN,
   paused : SUBSET Applets, late : SUBSET Applets, early : SUBSET Applets,
   file : [Applets -> Places \union {None}] \union {Torn}]

Listed(a) ==
  /\ a \in Areas /\ Once(a.children) /\ Once(a.stack) /\ Stacked(a) = Children(a)

AreaOK(a) ==
  /\ Listed(a)
  /\ \A i \in Applets : a.rect[i] # None <=> i \in Children(a)
  /\ \A i \in Children(a) : a.request[i] # None

InOrder(a) ==
  \A m, n \in DOMAIN a.stack :
    m < n /\ a.stack[m] \notin a.raised /\ a.stack[n] \notin a.raised =>
      a.index[a.stack[m]] <= a.index[a.stack[n]]

Knowing(a) ==
  \A i \in Children(a) \ a.late : i \in a.paused <=> a.background \/ a.off

InFile(a, i, r) == a.file # Torn /\ a.file[i] # None /\ SameSpot(r, a.file[i].rect)

PlaceKept(a, i) ==
  \/ a.timer
  \/ i \in a.early /\ (SameSpot(a.rect[i], a.before[i]) \/ SameSpot(a.rect[i], a.layout[i]))
  \/ InFile(a, i, a.rect[i])

(* Of an item that is dragged, the place where that began; of one that is *)
(* still to come, the place it will have.                                 *)
StartKept(a, i) == a.timer \/ i \in a.early \/ InFile(a, i, a.before[i])
AwayKept(a, i) == a.layout[i] # None => i \in a.early \/ InFile(a, i, a.layout[i])

Moves(u, i) == u.item = i /\ u.state = "moving"

SpotKept(a, u, i) ==
  /\ i \notin Children(a) => AwayKept(a, i)
  /\ i \in Children(a) /\ Moves(u, i) => StartKept(a, i)
  /\ i \in Children(a) /\ ~Moves(u, i) => PlaceKept(a, i)

StylusOK(u) ==
  /\ u \in [item : Applets \union {None}, state : {"normal", "moving", "resizing"},
            timer : BOOLEAN, far : BOOLEAN, told : Nat]
  /\ u.timer => u.item # None /\ ~u.far /\ u.state = "normal"
  /\ u.state = "moving" => u.far /\ u.item # None
  /\ u.item # None => (u.told > 0 <=> ~u.timer /\ ~u.far /\ u.state # "resizing")

HomeIInv ==
  /\ AreaOK(home) /\ InOrder(home) /\ Knowing(home)
  /\ StylusOK(stylus) /\ stylus.item \in Children(home) \union {None}
  /\ \A i \in Applets : SpotKept(home, stylus, i)

LEMMA EntriesFact ==
  \A a : Children(a) = Entries(a.children) /\ Stacked(a) = Entries(a.stack)
BY DEF Children, Stacked

LEMMA HomeIInvImpliesInv == HomeIInv => HomeInv
<1> SUFFICES ASSUME HomeIInv PROVE HomeInv
  OBVIOUS
<1>1. HomeTypeOK
  BY DEF HomeIInv, AreaOK, Listed, Areas, HomeTypeOK
<1>2. PlacesSaved
  <2> SUFFICES ASSUME NEW i \in Children(home) \ Dragged(stylus) PROVE PlaceKept(home, i)
    BY DEF PlacesSaved, PlaceKept, InFile
  <2>1. i \in Applets
    BY EntriesFact DEF HomeIInv, AreaOK, Listed, Areas, Entries
  <2>2. ~Moves(stylus, i)
    BY DEF Moves, Dragged
  <2> QED
    BY <2>1, <2>2 DEF HomeIInv, SpotKept
<1>3. StackByIndex
  BY DEF HomeIInv, InOrder, StackByIndex
<1>4. PressesPaired
  BY DEF HomeIInv, StylusOK, PressesPaired
<1>5. PausedTogether
  BY DEF HomeIInv, Knowing, PausedTogether
<1> QED
  BY <1>1, <1>2, <1>3, <1>4, <1>5 DEF HomeInv

-----------------------------------------------------------------------------
(* Sorting by stack index. *)
LEMMA RankFact ==
  ASSUME NEW a \in Areas, NEW D, D = DOMAIN a.children
  PROVE  /\ \A k \in D : Rank(a, k) \in D
         /\ \A j, k \in D : Before(a, j, k) => Rank(a, j) < Rank(a, k)
         /\ \A n \in D : \E k \in D : Rank(a, k) = n
         /\ \A j, k \in D : j # k => Before(a, j, k) \/ Before(a, k, j)
<1> DEFINE s == a.children
           l == Len(s)
           x(k) == a.index[s[k]]
           Below(k) == {j \in D : Before(a, j, k)}
<1>1. l \in Nat /\ D = 1 .. l /\ \A k \in D : x(k) \in Nat
  BY DEF Areas
<1>2. \A j, k : Before(a, j, k) <=> x(j) < x(k) \/ (x(j) = x(k) /\ j < k)
  BY DEF Before
<1>3. IsFiniteSet(D) /\ Cardinality(D) = l
  <2> HIDE DEF l
  <2>1. 1 \in Int /\ l \in Int /\ l >= 0
    BY <1>1
  <2>2. IsFiniteSet(1 .. l) /\ Cardinality(1 .. l) = IF 1 > l THEN 0 ELSE l - 1 + 1
    BY ONLY <2>1, FS_Interval
  <2> QED
    BY <1>1, <2>1, <2>2
<1> HIDE DEF l, x
<1>4. ASSUME NEW k \in D
      PROVE  /\ IsFiniteSet(Below(k)) /\ Cardinality(Below(k)) \in Nat
             /\ Cardinality(Below(k)) + 1 <= l
  <2>1. Below(k) \in SUBSET D /\ k \notin Below(k)
    BY <1>1, <1>2
  <2>2. IsFiniteSet(Below(k)) /\ Cardinality(Below(k)) \in Nat
    BY <1>3, <2>1, FS_Subset, FS_CardinalityType
  <2>3. Cardinality(Below(k) \union {k}) = Cardinality(Below(k)) + 1
    BY <2>1, <2>2, FS_AddElement
  <2>4. Below(k) \union {k} \in SUBSET D
    BY <2>1
  <2>5. Cardinality(Below(k) \union {k}) <= Cardinality(D)
    BY <1>3, <2>4, FS_Subset
  <2> QED
    BY <1>3, <2>2, <2>3, <2>5
<1>5. \A k : Rank(a, k) = Cardinality(Below(k)) + 1
  BY DEF Rank
<1>6. ASSUME NEW j \in D, NEW k \in D, Before(a, j, k)
      PROVE  Cardinality(Below(j)) + 1 <= Cardinality(Below(k))
  <2>1. j \notin Below(j) /\ Below(j) \union {j} \in SUBSET Below(k)
    <3>1. \A i \in D : Before(a, i, j) => Before(a, i, k)
      <4> SUFFICES ASSUME NEW i \in D, Before(a, i, j) PROVE Before(a, i, k)
        OBVIOUS
      <4>1. /\ x(i) \in Nat /\ x(j) \in Nat /\ x(k) \in Nat
            /\ i \in Int /\ j \in Int /\ k \in Int
        BY <1>1
      <4>2. x(i) < x(j) \/ (x(i) = x(j) /\ i < j)
        BY <1>2
      <4>3. x(j) < x(k) \/ (x(j) = x(k) /\ j < k)
        BY <1>2, <1>6
      <4>4. x(i) < x(k) \/ (x(i) = x(k) /\ i < k)
        BY <4>1, <4>2, <4>3
      <4> QED
        BY <1>2, <4>4
    <3>2. ~Before(a, j, j)
      BY <1>1, <1>2
    <3> QED
      BY <1>6, <3>1, <3>2
  <2>2. Cardinality(Below(j) \union {j}) = Cardinality(Below(j)) + 1
    BY <1>4, <2>1, FS_AddElement
  <2>3. IsFiniteSet(Below(k))
    BY <1>4
  <2> HIDE DEF Below
  <2>4. Cardinality(Below(j) \union {j}) <= Cardinality(Below(k))
    BY <2>1, <2>3, FS_Subset
  <2> QED
    BY <2>2, <2>4
<1> HIDE DEF Below
<1>7. \A k \in D : Rank(a, k) \in D
  BY <1>1, <1>4, <1>5
<1>8. \A j, k \in D : Before(a, j, k) => Rank(a, j) < Rank(a, k)
  BY <1>4, <1>5, <1>6
<1>9. \A j, k \in D : j # k => Before(a, j, k) \/ Before(a, k, j)
  BY <1>1, <1>2
<1>10. \A n \in D : \E k \in D : Rank(a, k) = n
  <2> DEFINE f == [k \in D |-> Rank(a, k)]
  <2>1. \A j, k \in D : Rank(a, j) = Rank(a, k) => j = k
    BY <1>1, <1>7, <1>8, <1>9
  <2>2. f \in Injection(D, D)
    BY <1>7, <2>1 DEF Injection, IsInjective
  <2>3. f \in Surjection(D, D)
    <3> HIDE DEF f
    <3>1. IsFiniteSet(D)
      BY <1>3
    <3>2. Cardinality(D) = Cardinality(D) <=> f \in Surjection(D, D)
      BY ONLY <2>2, <3>1, FS_Injection, Zenon
    <3> QED
      BY <3>2
  <2> QED
    BY <2>3 DEF Surjection
<1> QED
  BY <1>7, <1>8, <1>9, <1>10

LEMMA SortFact ==
  ASSUME NEW a \in Areas, Once(a.children)
  PROVE  LET y == SortStack(a)
             s == y.children
         IN /\ s \in Seq(Applets) /\ Once(s) /\ Entries(s) = Entries(a.children)
            /\ \A m, n \in DOMAIN s : m < n => a.index[s[m]] <= a.index[s[n]]
            /\ y = [a EXCEPT !.children = s, !.stack = s, !.raised = {}]
<1> DEFINE c == a.children
           l == Len(c)
           pick(n) == CHOOSE k \in DOMAIN c : Rank(a, k) = n
           s == [n \in DOMAIN c |-> c[pick(n)]]
<1>1. c \in Seq(Applets) /\ l \in Nat /\ DOMAIN c = 1 .. l /\ \A k \in DOMAIN c : a.index[c[k]] \in Nat
  BY DEF Areas
<1>2. \A n \in DOMAIN c : pick(n) \in DOMAIN c /\ Rank(a, pick(n)) = n
  <2>1. \A n \in DOMAIN c : \E k \in DOMAIN c : Rank(a, k) = n
    BY RankFact
  <2> QED
    BY <2>1
<1>3. SortStack(a) = [a EXCEPT !.children = s, !.stack = s, !.raised = {}]
  BY DEF SortStack
<1>4. SortStack(a).children = s
  BY <1>3 DEF Areas
<1> HIDE DEF pick
<1>5. s \in Seq(Applets) /\ DOMAIN s = 1 .. l
  BY <1>1, <1>2
<1>6. \A n \in DOMAIN c : s[n] = c[pick(n)]
  OBVIOUS
<1>7. \A j, k \in DOMAIN c : j # k => c[j] # c[k]
  BY DEF Once
<1> HIDE DEF s, c, l
<1>8. Once(s)
  <2> SUFFICES ASSUME NEW m \in DOMAIN c, NEW n \in DOMAIN c, m # n PROVE s[m] # s[n]
    BY <1>1, <1>5 DEF Once
  <2>1. pick(m) # pick(n)
    BY <1>2
  <2> QED
    BY <1>2, <1>6, <1>7, <2>1
<1>9. Entries(s) \subseteq Entries(c)
  BY <1>1, <1>2, <1>5, <1>6 DEF Entries
<1>10. Entries(c) \subseteq Entries(s)
  <2> SUFFICES ASSUME NEW k \in DOMAIN c PROVE c[k] \in Entries(s)
    BY DEF Entries
  <2> DEFINE n == Rank(a, k)
  <2>1. n \in DOMAIN c
    BY RankFact DEF c
  <2>2. pick(n) \in DOMAIN c /\ Rank(a, pick(n)) = Rank(a, k)
    BY <1>2, <2>1
  <2>3. pick(n) = k
    <3> HIDE DEF n
    <3>1. \A i, j \in DOMAIN c : i # j => Before(a, i, j) \/ Before(a, j, i)
      BY RankFact DEF c
    <3>2. \A i, j \in DOMAIN c : Before(a, i, j) => Rank(a, i) < Rank(a, j)
      BY RankFact DEF c
    <3>3. \A i \in DOMAIN c : Rank(a, i) \in DOMAIN c
      BY RankFact DEF c
    <3> QED
      BY <1>1, <2>2, <3>1, <3>2, <3>3
  <2> QED
    BY <1>1, <1>5, <1>6, <2>1, <2>3 DEF Entries
<1>11. \A m, n \in DOMAIN c : m < n => a.index[s[m]] <= a.index[s[n]]
  <2> SUFFICES ASSUME NEW m \in DOMAIN c, NEW n \in DOMAIN c, m < n
               PROVE  a.index[s[m]] <= a.index[s[n]]
    OBVIOUS
  <2>1. ~Before(a, pick(n), pick(m))
    <3>1. \A i, j \in DOMAIN c : Before(a, i, j) => Rank(a, i) < Rank(a, j)
      BY RankFact DEF c
    <3>2. m \in Nat /\ n \in Nat
      BY <1>1
    <3> QED
      BY <1>2, <3>1, <3>2
  <2>2. ~(a.index[c[pick(n)]] < a.index[c[pick(m)]])
    BY <2>1 DEF Before, c
  <2>3. a.index[c[pick(n)]] \in Nat /\ a.index[c[pick(m)]] \in Nat
    BY <1>1, <1>2
  <2> QED
    BY <1>6, <2>2, <2>3
<1> QED
  BY <1>1, <1>3, <1>4, <1>5, <1>8, <1>9, <1>10, <1>11 DEF c

-----------------------------------------------------------------------------
(* The operations on the area. *)
SamePlaces(a, y) ==
  y.before = a.before /\ y.layout = a.layout /\ y.file = a.file /\ y.early = a.early

SameView(a, y) == y.background = a.background /\ y.off = a.off /\ y.late = a.late

LEMMA PutFact ==
  ASSUME NEW a, AreaOK(a), NEW i \in Applets \ Children(a), a.request[i] # None,
         NEW r \in Rects, NEW x \in Nat
  PROVE  LET y == Put(a, i, r, x)
         IN /\ AreaOK(y) /\ InOrder(y) /\ Children(y) = Children(a) \union {i}
            /\ y.rect = [a.rect EXCEPT ![i] = r] /\ y.paused = a.paused \ {i}
            /\ SamePlaces(a, y) /\ SameView(a, y) /\ y.timer = a.timer
<1> DEFINE z == [a EXCEPT !.children = Append(@, i), !.rect[i] = r, !.index[i] = x,
                          !.stack = Append(@, i), !.paused = @ \ {i}]
           c == a.children
           y == Put(a, i, r, x)
           s == SortStack(z).children
<1>1. /\ a \in Areas /\ c \in Seq(Applets) /\ Once(c) /\ i \notin Entries(c)
      /\ a.stack \in Seq(Applets)
  BY EntriesFact DEF AreaOK, Listed, Areas
<1>2. /\ Append(c, i) \in Seq(Applets) /\ Once(Append(c, i))
      /\ Entries(Append(c, i)) = Entries(c) \union {i}
  BY <1>1, AppendFact
<1>3. Append(a.stack, i) \in Seq(Applets)
  BY <1>1
<1>4. /\ [a.rect EXCEPT ![i] = r] \in [Applets -> Rects \union {None}]
      /\ [a.index EXCEPT ![i] = x] \in [Applets -> Nat]
      /\ a.paused \ {i} \in SUBSET Applets
  BY <1>1 DEF Areas
<1>5. z = [a EXCEPT !.children = Append(c, i), !.rect = [a.rect EXCEPT ![i] = r],
                    !.index = [a.index EXCEPT ![i] = x], !.stack = Append(a.stack, i),
                    !.paused = a.paused \ {i}]
  BY <1>1 DEF Areas
<1> HIDE DEF z, c
<1>6. /\ z \in Areas /\ z.children = Append(c, i) /\ z.rect = [a.rect EXCEPT ![i] = r]
      /\ z.paused = a.paused \ {i} /\ z.request = a.request
      /\ SamePlaces(a, z) /\ SameView(a, z) /\ z.timer = a.timer
  BY <1>1, <1>2, <1>3, <1>4, <1>5 DEF Areas, SamePlaces, SameView
<1>7. /\ s \in Seq(Applets) /\ Once(s) /\ Entries(s) = Entries(z.children)
      /\ \A m, n \in DOMAIN s : m < n => z.index[s[m]] <= z.index[s[n]]
      /\ SortStack(z) = [z EXCEPT !.children = s, !.stack = s, !.raised = {}]
  BY <1>2, <1>6, SortFact
<1>8. y = SortStack(z)
  BY DEF Put, z
<1> HIDE DEF s, y
<1>9. /\ y \in Areas /\ y.children = s /\ y.stack = s /\ y.rect = z.rect /\ y.paused = z.paused
      /\ y.request = z.request /\ SamePlaces(z, y) /\ SameView(z, y) /\ y.timer = z.timer
      /\ y.index = z.index
  BY <1>6, <1>7, <1>8 DEF Areas, SamePlaces, SameView
<1>10. Children(y) = Children(a) \union {i} /\ Stacked(y) = Children(y)
  BY <1>2, <1>6, <1>7, <1>9, EntriesFact DEF c
<1>11. Listed(y)
  BY <1>7, <1>9, <1>10 DEF Listed
<1>12. \A j \in Applets : y.rect[j] # None <=> j \in Children(y)
  <2>1. a.rect \in [Applets -> Rects \union {None}] /\ r # None
    BY <1>1, HomeAssumption DEF Areas
  <2>2. \A j \in Applets : a.rect[j] # None <=> j \in Children(a)
    BY DEF AreaOK
  <2>3. \A j \in Applets : y.rect[j] = IF j = i THEN r ELSE a.rect[j]
    BY <1>6, <1>9, <2>1
  <2> QED
    BY <1>10, <2>1, <2>2, <2>3
<1>13. \A j \in Children(y) : y.request[j] # None
  BY <1>6, <1>9, <1>10 DEF AreaOK
<1>14. InOrder(y)
  BY <1>7, <1>9 DEF InOrder
<1>15. SamePlaces(a, y) /\ SameView(a, y)
  BY <1>6, <1>9 DEF SamePlaces, SameView
<1> QED
  BY <1>6, <1>9, <1>10, <1>11, <1>12, <1>13, <1>14, <1>15 DEF AreaOK, y

(* Items that keep their order are in order with the same indexes. *)
LEMMA OrderKept ==
  ASSUME NEW a, NEW y, InOrder(a), NEW i,
         \A m, n \in DOMAIN y.stack : m < n =>
           \E j, k \in DOMAIN a.stack : j < k /\ y.stack[m] = a.stack[j] /\ y.stack[n] = a.stack[k],
         \A j \in Entries(y.stack) : y.index[j] = a.index[j] /\ (j \in a.raised => j \in y.raised)
  PROVE  InOrder(y)
<1> SUFFICES ASSUME NEW m \in DOMAIN y.stack, NEW n \in DOMAIN y.stack, m < n,
                    y.stack[m] \notin y.raised, y.stack[n] \notin y.raised
             PROVE  y.index[y.stack[m]] <= y.index[y.stack[n]]
  BY DEF InOrder
<1>1. PICK j, k \in DOMAIN a.stack : j < k /\ y.stack[m] = a.stack[j] /\ y.stack[n] = a.stack[k]
  OBVIOUS
<1>2. y.stack[m] \in Entries(y.stack) /\ y.stack[n] \in Entries(y.stack)
  BY DEF Entries
<1>3. a.stack[j] \notin a.raised /\ a.stack[k] \notin a.raised
  BY <1>1, <1>2
<1>4. a.index[a.stack[j]] <= a.index[a.stack[k]]
  BY <1>1, <1>3 DEF InOrder
<1> QED
  BY <1>1, <1>2, <1>4

LEMMA RemovedFact ==
  ASSUME NEW a, AreaOK(a), InOrder(a), NEW i \in Children(a)
  PROVE  LET y == Removed(a, i)
         IN /\ AreaOK(y) /\ InOrder(y) /\ Children(y) = Children(a) \ {i}
            /\ \A j \in Applets \ {i} : /\ y.rect[j] = a.rect[j] /\ y.before[j] = a.before[j]
                                        /\ y.layout[j] = a.layout[j]
            /\ y.layout[i] = None /\ y.early = a.early \ {i}
            /\ y.paused = a.paused \ {i} /\ y.late = a.late \ {i} /\ y.file = a.file
            /\ y.background = a.background /\ y.off = a.off /\ (a.timer => y.timer)
<1> DEFINE c == TakenOut(a.children, i)
           t == TakenOut(a.stack, i)
           rest == [a EXCEPT !.children = c, !.stack = t, !.raised = a.raised \ {i},
                        !.paused = a.paused \ {i}, !.late = a.late \ {i},
                        !.early = a.early \ {i},
                        !.rect = [a.rect EXCEPT ![i] = None],
                        !.request = [a.request EXCEPT ![i] = None],
                        !.before = [a.before EXCEPT ![i] = None],
                        !.index = [a.index EXCEPT ![i] = 0],
                        !.layout = [a.layout EXCEPT ![i] = None]]
           y == Removed(a, i)
<1>1. /\ a \in Areas /\ a.children \in Seq(Applets) /\ Once(a.children) /\ a.stack \in Seq(Applets)
      /\ Once(a.stack) /\ Entries(a.children) = Children(a) /\ Entries(a.stack) = Children(a)
  BY EntriesFact DEF AreaOK, Listed, Areas
<1>2. i \in Applets
  BY <1>1 DEF Entries
<1>3. c \in Seq(Applets) /\ Once(c) /\ Entries(c) = Children(a) \ {i}
  BY <1>1, TakenOutFact
<1>4. /\ t \in Seq(Applets) /\ Once(t) /\ Entries(t) = Children(a) \ {i}
      /\ \A m, n \in DOMAIN t : m < n =>
           \E j, k \in DOMAIN a.stack : j < k /\ t[m] = a.stack[j] /\ t[n] = a.stack[k]
  BY <1>1, TakenOutFact
<1>5. y = IF a.loaded /\ a.layout[i] # None THEN [rest EXCEPT !.timer = TRUE] ELSE rest
  BY <1>1 DEF Removed, LayoutChanged, Areas
<1>6. /\ [a.rect EXCEPT ![i] = None] \in [Applets -> Rects \union {None}]
      /\ [a.before EXCEPT ![i] = None] \in [Applets -> Rects \union {None}]
      /\ [a.layout EXCEPT ![i] = None] \in [Applets -> Rects \union {None}]
      /\ [a.request EXCEPT ![i] = None] \in [Applets -> Sizes \union {None}]
      /\ [a.index EXCEPT ![i] = 0] \in [Applets -> Nat]
      /\ a.raised \ {i} \in SUBSET Applets /\ a.paused \ {i} \in SUBSET Applets
      /\ a.late \ {i} \in SUBSET Applets /\ a.early \ {i} \in SUBSET Applets
  BY <1>1 DEF Areas
<1> HIDE DEF c, t
<1>7. /\ rest \in Areas /\ rest.children = c /\ rest.stack = t
      /\ rest.rect = [a.rect EXCEPT ![i] = None] /\ rest.request = [a.request EXCEPT ![i] = None]
      /\ rest.before = [a.before EXCEPT ![i] = None] /\ rest.index = [a.index EXCEPT ![i] = 0]
      /\ rest.layout = [a.layout EXCEPT ![i] = None] /\ rest.raised = a.raised \ {i}
      /\ rest.paused = a.paused \ {i} /\ rest.late = a.late \ {i} /\ rest.file = a.file
      /\ rest.background = a.background /\ rest.off = a.off /\ rest.timer = a.timer
      /\ rest.early = a.early \ {i}
  BY <1>1, <1>3, <1>4, <1>6 DEF Areas
<1> HIDE DEF rest, y
<1>8. /\ y \in Areas /\ y.children = c /\ y.stack = t
      /\ y.rect = [a.rect EXCEPT ![i] = None] /\ y.request = [a.request EXCEPT ![i] = None]
      /\ y.before = [a.before EXCEPT ![i] = None] /\ y.index = [a.index EXCEPT ![i] = 0]
      /\ y.layout = [a.layout EXCEPT ![i] = None] /\ y.raised = a.raised \ {i}
      /\ y.paused = a.paused \ {i} /\ y.late = a.late \ {i} /\ y.file = a.file
      /\ y.background = a.background /\ y.off = a.off /\ (a.timer => y.timer)
      /\ y.early = a.early \ {i}
  <2>1. CASE y = rest
    BY <1>7, <2>1
  <2>2. CASE y = [rest EXCEPT !.timer = TRUE]
    BY <1>7, <2>2 DEF Areas
  <2> QED
    BY <1>5, <2>1, <2>2
<1>9. Children(y) = Children(a) \ {i} /\ Stacked(y) = Children(y)
  BY <1>3, <1>4, <1>8, EntriesFact
<1>10. \A j \in Applets \ {i} : /\ y.rect[j] = a.rect[j] /\ y.before[j] = a.before[j]
                                /\ y.layout[j] = a.layout[j] /\ y.request[j] = a.request[j]
                                /\ y.index[j] = a.index[j]
  BY <1>1, <1>8 DEF Areas
<1>11. y.rect[i] = None /\ y.layout[i] = None
  BY <1>1, <1>2, <1>8 DEF Areas
<1>12. Children(a) \subseteq Applets
  BY <1>1 DEF Entries
<1>13. AreaOK(y)
  <2>1. Listed(y)
    BY <1>3, <1>4, <1>8, <1>9 DEF Listed
  <2>2. \A j \in Applets : y.rect[j] # None <=> j \in Children(y)
    BY <1>9, <1>10, <1>11 DEF AreaOK
  <2>3. \A j \in Children(y) : y.request[j] # None
    BY <1>9, <1>10, <1>12 DEF AreaOK
  <2> QED
    BY <2>1, <2>2, <2>3 DEF AreaOK
<1>14. InOrder(y)
  <2>1. \A m, n \in DOMAIN y.stack : m < n =>
           \E j, k \in DOMAIN a.stack : j < k /\ y.stack[m] = a.stack[j] /\ y.stack[n] = a.stack[k]
    BY <1>4, <1>8
  <2>2. \A j \in Entries(y.stack) : y.index[j] = a.index[j] /\ (j \in a.raised => j \in y.raised)
    BY <1>4, <1>8, <1>10, <1>12
  <2> QED
    BY <2>1, <2>2, OrderKept
<1> QED
  BY <1>8, <1>9, <1>10, <1>11, <1>13, <1>14 DEF y

(* An item that is raised is no longer where its index says. *)
LEMMA RaiseFact ==
  ASSUME NEW a, AreaOK(a), InOrder(a), NEW i \in Children(a)
  PROVE  LET y == RaiseItem(a, i)
         IN /\ y.stack \in Seq(Applets) /\ y = [a EXCEPT !.stack = y.stack]
            /\ Once(y.stack) /\ Entries(y.stack) = Children(a)
            /\ \A m, n \in DOMAIN y.stack : m < n /\ y.stack[m] # i /\ y.stack[n] # i =>
                 \E j, k \in DOMAIN a.stack :
                   j < k /\ y.stack[m] = a.stack[j] /\ y.stack[n] = a.stack[k]
<1> DEFINE t == TakenOut(a.stack, i)
           s == Append(t, i)
           y == RaiseItem(a, i)
<1>1. /\ a \in Areas /\ a.stack \in Seq(Applets) /\ Once(a.stack)
      /\ Entries(a.stack) = Children(a) /\ i \in Applets
  BY EntriesFact DEF AreaOK, Listed, Areas, Entries
<1>2. y = [a EXCEPT !.stack = s]
  BY DEF RaiseItem
<1>3. y.stack = s
  BY <1>1, <1>2 DEF Areas
<1>4. /\ t \in Seq(Applets) /\ Once(t) /\ Entries(t) = Children(a) \ {i}
      /\ \A m, n \in DOMAIN t : m < n =>
           \E j, k \in DOMAIN a.stack : j < k /\ t[m] = a.stack[j] /\ t[n] = a.stack[k]
  BY <1>1, TakenOutFact
<1> HIDE DEF t
<1>5. /\ s \in Seq(Applets) /\ Once(s) /\ Entries(s) = Entries(t) \union {i}
      /\ DOMAIN s = 1 .. Len(t) + 1 /\ s[Len(t) + 1] = i
      /\ \A n \in 1 .. Len(t) : s[n] = t[n]
  BY <1>1, <1>4, AppendFact
<1>6. Len(t) \in Nat /\ DOMAIN t = 1 .. Len(t)
  BY <1>4
<1> HIDE DEF s
<1>7. ASSUME NEW m \in DOMAIN s, NEW n \in DOMAIN s, m < n, s[m] # i, s[n] # i
      PROVE  \E j, k \in DOMAIN a.stack : j < k /\ s[m] = a.stack[j] /\ s[n] = a.stack[k]
  <2>1. m \in DOMAIN t /\ n \in DOMAIN t /\ s[m] = t[m] /\ s[n] = t[n]
    BY <1>5, <1>6, <1>7
  <2> QED
    BY <1>4, <1>7, <2>1
<1>8. Entries(s) = Children(a)
  BY <1>4, <1>5
<1> HIDE DEF y
<1> QED
  BY <1>2, <1>3, <1>5, <1>7, <1>8 DEF y

(* Only the order of the stack and what was raised changes. *)
SameHome(a, y) ==
  /\ Children(y) = Children(a) /\ y.rect = a.rect /\ y.paused = a.paused /\ y.timer = a.timer
  /\ SamePlaces(a, y) /\ SameView(a, y)

LEMMA RaisedFact ==
  ASSUME NEW a, AreaOK(a), InOrder(a), NEW i \in Children(a)
  PROVE  LET y == [RaiseItem(a, i) EXCEPT !.raised = @ \union {i}]
         IN AreaOK(y) /\ InOrder(y) /\ SameHome(a, y)
<1> DEFINE z == RaiseItem(a, i)
           y == [z EXCEPT !.raised = @ \union {i}]
<1>1. /\ a \in Areas /\ Once(a.children) /\ Entries(a.children) = Children(a) /\ i \in Applets
  BY EntriesFact DEF AreaOK, Listed, Areas, Entries
<1>2. /\ z.stack \in Seq(Applets) /\ z = [a EXCEPT !.stack = z.stack]
      /\ Once(z.stack) /\ Entries(z.stack) = Children(a)
      /\ \A m, n \in DOMAIN z.stack : m < n /\ z.stack[m] # i /\ z.stack[n] # i =>
           \E j, k \in DOMAIN a.stack :
             j < k /\ z.stack[m] = a.stack[j] /\ z.stack[n] = a.stack[k]
  BY RaiseFact
<1> HIDE DEF z
<1>3. /\ z \in Areas /\ z.children = a.children /\ z.rect = a.rect /\ z.paused = a.paused
      /\ z.timer = a.timer /\ z.request = a.request /\ z.index = a.index /\ z.raised = a.raised
      /\ SamePlaces(a, z) /\ SameView(a, z)
  <2> DEFINE u == z.stack
  <2>1. z = [a EXCEPT !.stack = u] /\ u \in Seq(Applets)
    BY <1>2
  <2> HIDE DEF u
  <2> QED
    BY <1>1, <2>1 DEF Areas, SamePlaces, SameView
<1>4. /\ y \in Areas /\ y.children = a.children /\ y.stack = z.stack /\ y.rect = a.rect
      /\ y.paused = a.paused /\ y.timer = a.timer /\ y.request = a.request /\ y.index = a.index
      /\ y.raised = a.raised \union {i} /\ SamePlaces(a, y) /\ SameView(a, y)
  <2>1. a.raised \union {i} \in SUBSET Applets
    BY <1>1 DEF Areas
  <2> QED
    BY <1>3, <2>1 DEF Areas, SamePlaces, SameView
<1> HIDE DEF y
<1>5. Children(y) = Children(a) /\ Stacked(y) = Children(y)
  BY <1>1, <1>2, <1>4, EntriesFact
<1>6. Listed(y)
  BY <1>1, <1>2, <1>4, <1>5 DEF Listed
<1>7. AreaOK(y)
  BY <1>4, <1>5, <1>6 DEF AreaOK
<1>8. InOrder(y)
  <2> SUFFICES ASSUME NEW m \in DOMAIN y.stack, NEW n \in DOMAIN y.stack, m < n,
                      y.stack[m] \notin y.raised, y.stack[n] \notin y.raised
               PROVE  y.index[y.stack[m]] <= y.index[y.stack[n]]
    BY DEF InOrder
  <2>1. y.stack[m] # i /\ y.stack[n] # i
    BY <1>4
  <2>2. PICK j, k \in DOMAIN a.stack : j < k /\ y.stack[m] = a.stack[j] /\ y.stack[n] = a.stack[k]
    BY <1>2, <1>4, <2>1
  <2>3. a.stack[j] \notin a.raised /\ a.stack[k] \notin a.raised
    BY <1>4, <2>2
  <2>4. a.index[a.stack[j]] <= a.index[a.stack[k]]
    BY <2>2, <2>3 DEF InOrder
  <2> QED
    BY <1>4, <2>2, <2>4
<1>9. AreaOK(y) /\ InOrder(y) /\ SameHome(a, y)
  BY <1>4, <1>5, <1>7, <1>8 DEF SameHome
<1> QED
  BY <1>9 DEF y, z
(* Nothing but where the items are, what they ask for and what is kept of it. *)
LEMMA SameStackFact ==
  ASSUME NEW a, AreaOK(a), InOrder(a), NEW y \in Areas, y.children = a.children,
         y.stack = a.stack, y.raised = a.raised, y.index = a.index,
         \A i \in Applets : (y.rect[i] = None <=> a.rect[i] = None)
                            /\ (a.request[i] # None => y.request[i] # None)
  PROVE  AreaOK(y) /\ InOrder(y) /\ Children(y) = Children(a)
<1>1. a \in Areas /\ Entries(a.children) = Children(a) /\ Once(a.children) /\ Once(a.stack)
  BY EntriesFact DEF AreaOK, Listed
<1>2. Children(a) \subseteq Applets
  BY <1>1 DEF Entries, Areas
<1>3. Children(y) = Children(a) /\ Stacked(y) = Stacked(a)
  BY EntriesFact
<1>4. Listed(y)
  BY <1>1, <1>3 DEF Listed, AreaOK
<1>5. AreaOK(y)
  BY <1>2, <1>3, <1>4 DEF AreaOK
<1>6. InOrder(y)
  BY DEF InOrder
<1> QED
  BY <1>3, <1>5, <1>6

LEMMA MovedFact ==
  ASSUME NEW a, AreaOK(a), InOrder(a), NEW i \in Children(a), NEW r \in Rects
  PROVE  LET y == [a EXCEPT !.rect[i] = r]
         IN /\ AreaOK(y) /\ InOrder(y) /\ Children(y) = Children(a)
            /\ y.rect = [a.rect EXCEPT ![i] = r] /\ y.paused = a.paused /\ y.timer = a.timer
            /\ SamePlaces(a, y) /\ SameView(a, y)
<1> DEFINE q == [a.rect EXCEPT ![i] = r]
           y == [a EXCEPT !.rect = q]
<1>0. a \in Areas /\ i \in Applets
  BY EntriesFact DEF AreaOK, Listed, Areas, Entries
<1>1. a \in Areas /\ i \in Applets /\ a.rect[i] # None /\ r # None
  BY <1>0, HomeAssumption DEF AreaOK
<1>2. /\ q \in [Applets -> Rects \union {None}]
      /\ \A j \in Applets : q[j] = None <=> a.rect[j] = None
  BY <1>1 DEF Areas
<1> HIDE DEF q
<1>3. /\ y \in Areas /\ y.children = a.children /\ y.stack = a.stack /\ y.raised = a.raised
      /\ y.index = a.index /\ y.rect = q /\ y.request = a.request
      /\ y.paused = a.paused /\ y.timer = a.timer /\ SamePlaces(a, y) /\ SameView(a, y)
  BY <1>1, <1>2 DEF Areas, SamePlaces, SameView
<1> HIDE DEF y
<1>4. AreaOK(y) /\ InOrder(y) /\ Children(y) = Children(a)
  BY <1>2, <1>3, SameStackFact
<1>5. y = [a EXCEPT !.rect[i] = r]
  BY <1>1 DEF y, q, Areas
<1> QED
  BY <1>3, <1>4, <1>5 DEF q

LEMMA StartMovingFact ==
  ASSUME NEW a, AreaOK(a), InOrder(a), NEW i \in Children(a)
  PROVE  LET y == StartMoving(a, i)
         IN /\ AreaOK(y) /\ InOrder(y) /\ Children(y) = Children(a)
            /\ y.rect = a.rect /\ y.paused = a.paused /\ y.timer = a.timer /\ SameView(a, y)
            /\ \A j \in Applets \ {i} : y.before[j] = a.before[j]
            /\ y.before[i] = a.rect[i]
            /\ y.layout = a.layout /\ y.file = a.file /\ y.early = a.early
<1> DEFINE z == [RaiseItem(a, i) EXCEPT !.raised = @ \union {i}]
           q == [a.before EXCEPT ![i] = a.rect[i]]
           y == [z EXCEPT !.before = q]
<1>1. a \in Areas /\ i \in Applets
  BY EntriesFact DEF AreaOK, Listed, Areas, Entries
<1>2. AreaOK(z) /\ InOrder(z) /\ SameHome(a, z)
  BY RaisedFact
<1>3. /\ q \in [Applets -> Rects \union {None}] /\ \A j \in Applets \ {i} : q[j] = a.before[j]
      /\ q[i] = a.rect[i]
  BY <1>1 DEF Areas
<1>4. StartMoving(a, i) = y
  <2> DEFINE u == RaiseItem(a, i)
  <2>1. u \in Areas /\ u.before = a.before
    <3>1. u.stack \in Seq(Applets) /\ u = [a EXCEPT !.stack = u.stack]
      BY RaiseFact
    <3> HIDE DEF u
    <3> QED
      BY <1>1, <3>1 DEF Areas
  <2>2. StartMoving(a, i) = [u EXCEPT !.before[i] = a.rect[i], !.raised = @ \union {i}]
    BY DEF StartMoving
  <2> HIDE DEF u
  <2>3. StartMoving(a, i) = [[u EXCEPT !.raised = @ \union {i}] EXCEPT !.before = q]
    BY <2>1, <2>2 DEF Areas
  <2> QED
    BY <2>3 DEF u
<1> HIDE DEF z, q
<1>5. /\ y \in Areas /\ y.children = z.children /\ y.stack = z.stack /\ y.raised = z.raised
      /\ y.index = z.index /\ y.rect = z.rect /\ y.request = z.request
      /\ y.paused = z.paused /\ y.timer = z.timer /\ y.before = q /\ y.layout = z.layout
      /\ y.file = z.file /\ y.early = z.early /\ SameView(z, y)
  BY <1>2, <1>3 DEF Areas, SameView, AreaOK, Listed
<1> HIDE DEF y
<1>6. AreaOK(y) /\ InOrder(y) /\ Children(y) = Children(z)
  BY <1>2, <1>5, SameStackFact
<1> QED
  BY <1>2, <1>3, <1>4, <1>5, <1>6 DEF SameHome, SamePlaces, SameView

LEMMA TimedFact ==
  ASSUME NEW a, AreaOK(a), InOrder(a)
  PROVE  LET y == LayoutChanged(a)
         IN /\ AreaOK(y) /\ InOrder(y) /\ Children(y) = Children(a) /\ y.timer
            /\ y.paused = a.paused /\ SamePlaces(a, y) /\ SameView(a, y) /\ y.rect = a.rect
<1> DEFINE y == LayoutChanged(a)
<1>1. /\ y \in Areas /\ y.children = a.children /\ y.stack = a.stack /\ y.raised = a.raised
      /\ y.index = a.index /\ y.rect = a.rect /\ y.request = a.request
      /\ y.paused = a.paused /\ y.timer /\ SamePlaces(a, y) /\ SameView(a, y)
  BY DEF Areas, SamePlaces, SameView, AreaOK, Listed, LayoutChanged
<1> HIDE DEF y
<1>2. AreaOK(y) /\ InOrder(y) /\ Children(y) = Children(a)
  BY <1>1, SameStackFact
<1> QED
  BY <1>1, <1>2 DEF y

LEMMA SavedFact ==
  ASSUME NEW a, AreaOK(a), NEW d \in SUBSET Applets
  PROVE  LET y == Saved(a, d)
         IN /\ AreaOK(y) /\ InOrder(y) /\ Children(y) = Children(a)
            /\ y.paused = a.paused /\ SameView(a, y)
            /\ \A i \in Children(a) : InFile(y, i, y.rect[i])
            /\ \A i \in d : i \in y.early
            /\ \A i \in Applets \ Children(a) : AwayKept(y, i)
<1> DEFINE index == [i \in Applets |-> IF i \in Children(a) THEN At(a.stack, i) - 1 ELSE a.index[i]]
           file == [i \in Applets |->
                      IF i \in Children(a) THEN [rect |-> a.rect[i], index |-> At(a.stack, i) - 1]
                                           ELSE None]
           early == d \union {i \in Applets \ Children(a) : a.layout[i] # None}
           y == [a EXCEPT !.timer = FALSE, !.raised = {}, !.early = early, !.index = index, !.file = file]
<1>1. /\ a \in Areas /\ Entries(a.stack) = Children(a) /\ Once(a.stack) /\ Entries(a.children) = Children(a)
      /\ Once(a.children) /\ Stacked(a) = Children(a)
      /\ a.stack \in Seq(Applets)
      /\ \A i \in Applets : a.rect[i] # None <=> i \in Children(a)
  BY EntriesFact DEF AreaOK, Listed, Areas
<1>2. y = Saved(a, d)
  BY <1>1 DEF Saved, Areas
<1>3. DOMAIN a.stack = 1 .. Len(a.stack) /\ Len(a.stack) \in Nat
  BY <1>1
<1>4. \A i \in Children(a) : At(a.stack, i) \in DOMAIN a.stack /\ a.stack[At(a.stack, i)] = i
  BY <1>1, AtFact DEF Entries
<1>5. \A i \in Children(a) : At(a.stack, i) - 1 \in Nat /\ a.rect[i] \in Rects /\ i \in Applets
  <2>1. Children(a) \subseteq Applets
    BY <1>1 DEF Entries
  <2>2. \A i \in Applets : a.rect[i] \in Rects \union {None}
    BY <1>1 DEF Areas
  <2>3. \A i \in Children(a) : a.rect[i] # None
    BY <1>1, <2>1
  <2> QED
    BY <1>3, <1>4, <2>1, <2>2, <2>3
<1>6. index \in [Applets -> Nat] /\ \A i \in Children(a) : index[i] = At(a.stack, i) - 1
  BY <1>1, <1>5 DEF Areas
<1>7. /\ file \in [Applets -> Places \union {None}]
      /\ \A i \in Children(a) : file[i].rect = a.rect[i] /\ file[i] # None
  <2>1. \A i \in Children(a) : [rect |-> a.rect[i], index |-> At(a.stack, i) - 1] \in Places
    BY <1>5 DEF Places
  <2> QED
    BY <1>5, <2>1, HomeAssumption
<1>13. /\ early \in SUBSET Applets /\ d \subseteq early
       /\ \A i \in Applets \ Children(a) : a.layout[i] # None => i \in early
  OBVIOUS
<1> HIDE DEF index, file, early
<1>8. /\ y \in Areas /\ y.children = a.children /\ y.stack = a.stack
      /\ y.index = index /\ y.file = file /\ y.rect = a.rect /\ y.request = a.request
      /\ y.paused = a.paused /\ SameView(a, y) /\ y.early = early /\ y.layout = a.layout
  BY <1>1, <1>6, <1>7, <1>13 DEF Areas, SameView
<1> HIDE DEF y
<1>9. Children(y) = Children(a) /\ Stacked(y) = Stacked(a)
  BY <1>8, EntriesFact
<1>10. AreaOK(y)
  BY <1>1, <1>8, <1>9 DEF Listed, AreaOK
<1>11. InOrder(y)
  <2> SUFFICES ASSUME NEW m \in DOMAIN a.stack, NEW n \in DOMAIN a.stack, m < n
               PROVE  index[a.stack[m]] <= index[a.stack[n]]
    BY <1>8 DEF InOrder
  <2>1. a.stack[m] \in Children(a) /\ a.stack[n] \in Children(a)
    BY <1>1 DEF Entries
  <2>2. At(a.stack, a.stack[m]) = m /\ At(a.stack, a.stack[n]) = n
    BY <1>1, <1>4, <2>1 DEF Once
  <2> QED
    BY <1>3, <1>6, <2>1, <2>2
<1>12. \A i \in Children(a) : InFile(y, i, y.rect[i])
  <2>1. file # Torn
    BY <1>7, HomeAssumption
  <2>2. \A i \in Children(y) : a.rect[i] # None /\ file[i] # None /\ file[i].rect = a.rect[i]
    BY <1>5, <1>7, <1>9, HomeAssumption
  <2>3. \A i \in Children(y) : SameSpot(y.rect[i], y.file[i].rect)
    BY <1>8, <2>2 DEF SameSpot
  <2> QED
    BY <1>8, <1>9, <2>1, <2>2, <2>3 DEF InFile
<1>14. \A i \in Applets \ Children(a) : AwayKept(y, i)
  BY <1>8, <1>13 DEF AwayKept
<1> QED
  BY <1>2, <1>8, <1>9, <1>10, <1>11, <1>12, <1>13, <1>14
LEMMA KeptFact ==
  ASSUME NEW a, NEW y, NEW u, NEW v, NEW i, SpotKept(a, u, i),
         i \in Children(y) <=> i \in Children(a), Moves(v, i) <=> Moves(u, i),
         y.rect[i] = a.rect[i], y.before[i] = a.before[i], y.layout[i] = a.layout[i],
         y.file = a.file, i \in y.early <=> i \in a.early, a.timer => y.timer
  PROVE  SpotKept(y, v, i)
<1>1. AwayKept(a, i) => AwayKept(y, i)
  BY DEF AwayKept, InFile
<1>2. StartKept(a, i) => StartKept(y, i)
  BY DEF StartKept, InFile
<1>3. PlaceKept(a, i) => PlaceKept(y, i)
  BY DEF PlaceKept, InFile
<1> QED
  BY <1>1, <1>2, <1>3 DEF SpotKept

(* The window is built, without items. *)
LEMMA NoItemsFact ==
  ASSUME NEW a \in Areas, a.children = <<>>, a.stack = <<>>, \A i \in Applets : a.rect[i] = None
  PROVE  AreaOK(a) /\ InOrder(a) /\ Knowing(a) /\ Children(a) = {}
<1>1. Children(a) = {} /\ Stacked(a) = {}
  BY DEF Children, Stacked, Entries
<1>2. Once(a.children) /\ Once(a.stack)
  BY DEF Once
<1>3. Listed(a)
  BY <1>1, <1>2 DEF Listed
<1>4. AreaOK(a)
  BY <1>1, <1>3 DEF AreaOK
<1> QED
  BY <1>1, <1>4 DEF InOrder, Knowing

LEMMA EmptyFact ==
  /\ EmptyArea \in Areas /\ EmptyArea.children = <<>> /\ EmptyArea.stack = <<>>
  /\ \A i \in Applets : EmptyArea.rect[i] = None /\ EmptyArea.layout[i] = None
BY DEF EmptyArea, Areas

LEMMA LoadFact ==
  ASSUME NEW f \in [Applets -> Places \union {None}] \union {Torn}
  PROVE  LET y == Load(f)
         IN /\ AreaOK(y) /\ InOrder(y) /\ Knowing(y) /\ Children(y) = {}
            /\ \A i \in Applets : AwayKept(y, i)
<1> DEFINE y == Load(f)
           rect == [i \in Applets |-> IF f[i] = None THEN None ELSE f[i].rect]
           index == [i \in Applets |-> IF f[i] = None THEN 0 ELSE f[i].index]
           e == EmptyArea
<1>1. /\ e \in Areas /\ e.children = <<>> /\ e.stack = <<>>
      /\ \A i \in Applets : e.rect[i] = None /\ e.layout[i] = None
  BY EmptyFact
<1>2. CASE f = Torn
  <2>1. y = [e EXCEPT !.file = Torn, !.loaded = FALSE]
    BY <1>2 DEF Load
  <2> HIDE DEF e, y
  <2>2. /\ y \in Areas /\ y.children = <<>> /\ y.stack = <<>>
        /\ \A i \in Applets : y.rect[i] = None /\ y.layout[i] = None
    BY <1>1, <2>1 DEF Areas
  <2>3. AreaOK(y) /\ InOrder(y) /\ Knowing(y) /\ Children(y) = {}
    BY <2>2, NoItemsFact
  <2>4. \A i \in Applets : AwayKept(y, i)
    BY <2>2 DEF AwayKept
  <2> QED
    BY <2>3, <2>4 DEF y
<1>3. CASE f # Torn
  <2>1. y = [e EXCEPT !.file = f, !.layout = rect, !.index = index]
    BY <1>3 DEF Load
  <2>2. f \in [Applets -> Places \union {None}]
    BY <1>3
  <2>3. /\ rect \in [Applets -> Rects \union {None}] /\ index \in [Applets -> Nat]
        /\ \A i \in Applets : rect[i] # None => f[i] # None /\ rect[i] = f[i].rect
    BY <2>2 DEF Places
  <2> HIDE DEF e, y, rect, index
  <2>4. /\ y \in Areas /\ y.children = <<>> /\ y.stack = <<>>
        /\ \A i \in Applets : y.rect[i] = None
        /\ y.layout = rect /\ y.file = f
    BY <1>1, <2>1, <2>2, <2>3 DEF Areas
  <2>5. AreaOK(y) /\ InOrder(y) /\ Knowing(y) /\ Children(y) = {}
    BY <2>4, NoItemsFact
  <2>6. \A i \in Applets : AwayKept(y, i)
    BY <1>3, <2>3, <2>4 DEF AwayKept, InFile, SameSpot
  <2> QED
    BY <2>5, <2>6 DEF y
<1> QED
  BY <1>2, <1>3

(* The place found for an applet is a point. *)
LEMMA PlaceFact ==
  ASSUME NEW a, NEW s \in [w : Nat \ {0}, h : Nat \ {0}]
  PROVE  Rect(Place(a, s), s) \in Rects
<1> DEFINE Corners == [x : 0 .. Width, y : 0 .. Height]
           fits == Fitting(a, s)
           p == Place(a, s)
<1>1. p = IF \E c \in Corners : FirstFit(fits, c)
            THEN CHOOSE c \in Corners : FirstFit(fits, c) ELSE [x |-> 0, y |-> 0]
  BY DEF Place
<1>2. p \in Corners
  <2>1. [x |-> 0, y |-> 0] \in Corners
    BY HomeAssumption
  <2> HIDE DEF Corners, fits, p
  <2> QED
    BY <1>1, <2>1
<1>3. p.x \in Int /\ p.y \in Int /\ s.w \in Nat /\ s.h \in Nat
  <2> HIDE DEF p
  <2> QED
    BY <1>2, HomeAssumption
<1> HIDE DEF p
<1>4. Rect(p, s) \in Rects
  BY <1>3 DEF Rect, Rects
<1> QED
  BY <1>4 DEF p

LEMMA AddFact ==
  ASSUME NEW i \in Applets, HomeIInv, AddApplet(i) PROVE HomeIInv'
<1> DEFINE known == home.loaded /\ home.layout[i] # None
           r == IF known THEN home.layout[i] ELSE Rect(Place(home, Natural[i]), Natural[i])
           late == IF home.background \/ home.off THEN home.late \union {i} ELSE home.late \ {i}
           request == [home.request EXCEPT ![i] = [w |-> r.w, h |-> r.h]]
           sized == [home EXCEPT !.request = request, !.late = late]
           layout == [home.layout EXCEPT ![i] = r]
           kept == IF home.loaded THEN [sized EXCEPT !.layout = layout] ELSE sized
           y == home'
<1>1. /\ AreaOK(home) /\ home \in Areas /\ InOrder(home) /\ i \in Applets \ Children(home)
      /\ stylus' = stylus
  BY DEF HomeIInv, AddApplet, AreaOK, Listed
<1>2. r \in Rects
  <2>1. CASE known
    BY <1>1, <2>1 DEF Areas
  <2>2. CASE ~known
    <3>1. Natural[i] \in [w : Nat \ {0}, h : Nat \ {0}]
      BY HomeAssumption
    <3>2. Rect(Place(home, Natural[i]), Natural[i]) \in Rects
      BY <3>1, PlaceFact
    <3> QED
      BY <2>2, <3>2
  <2> QED
    BY <2>1, <2>2
<1>3. y = IF known THEN Put(sized, i, r, home.index[i])
                   ELSE LayoutChanged(Put(Remember(sized, i, r), i, r, Top))
  BY <1>1 DEF AddApplet, Areas
<1>4. home.index[i] \in Nat /\ Top \in Nat
  BY <1>1, HomeAssumption, FS_CardinalityType DEF Top, Areas
<1> HIDE DEF r, known
<1>5. [w |-> r.w, h |-> r.h] \in Sizes /\ [w |-> r.w, h |-> r.h] # None
  <2>1. [w |-> r.w, h |-> r.h] \in Sizes
    BY <1>2 DEF Sizes, Rects
  <2> QED
    BY <2>1, HomeAssumption
<1> HIDE DEF late, request, layout
<1>6. request \in [Applets -> Sizes \union {None}] /\ request[i] # None
      /\ \A j \in Applets : home.request[j] # None => request[j] # None
  BY <1>1, <1>5 DEF request, Areas
<1>7. late \in SUBSET Applets /\ late \ {i} = home.late \ {i}
      /\ (home.background \/ home.off => i \in late)
  BY <1>1 DEF late, Areas
<1>8. layout \in [Applets -> Rects \union {None}] /\ \A j \in Applets \ {i} : layout[j] = home.layout[j]
  BY <1>1, <1>2 DEF layout, Areas
<1>9. /\ sized \in Areas /\ sized.children = home.children /\ sized.stack = home.stack
      /\ sized.raised = home.raised /\ sized.index = home.index /\ sized.rect = home.rect
      /\ sized.request = request /\ sized.late = late /\ sized.paused = home.paused
      /\ sized.timer = home.timer /\ sized.background = home.background /\ sized.off = home.off
      /\ sized.layout = home.layout /\ sized.before = home.before /\ sized.file = home.file
      /\ sized.loaded = home.loaded /\ sized.early = home.early
  BY <1>1, <1>6, <1>7 DEF Areas
<1>10. kept = Remember(sized, i, r)
  BY <1>9, <1>1 DEF Remember, layout, Areas
<1> HIDE DEF sized
<1>11. /\ kept \in Areas /\ kept.children = home.children /\ kept.stack = home.stack
       /\ kept.raised = home.raised /\ kept.index = home.index /\ kept.rect = home.rect
       /\ kept.request = request /\ kept.late = late /\ kept.paused = home.paused
       /\ kept.background = home.background /\ kept.off = home.off
       /\ kept.before = home.before /\ kept.file = home.file /\ kept.early = home.early
       /\ \A j \in Applets \ {i} : kept.layout[j] = home.layout[j]
  BY <1>8, <1>9 DEF Areas
<1> HIDE DEF kept
<1>12. AreaOK(sized) /\ Children(sized) = Children(home)
  BY <1>1, <1>6, <1>9, SameStackFact
<1>13. AreaOK(kept) /\ Children(kept) = Children(home)
  BY <1>1, <1>6, <1>11, SameStackFact
<1>14. /\ AreaOK(y) /\ InOrder(y) /\ Children(y) = Children(home) \union {i}
       /\ y.paused = home.paused \ {i} /\ y.late = late
       /\ y.background = home.background /\ y.off = home.off
       /\ \A j \in Applets : SpotKept(y, stylus, j)
  <2>0. ~Moves(stylus, i) /\ SpotKept(home, stylus, i)
    BY <1>1, HomeAssumption DEF HomeIInv, Moves
  <2>1. CASE known
    <3> DEFINE u == Put(sized, i, r, home.index[i])
    <3>1. /\ AreaOK(u) /\ InOrder(u) /\ Children(u) = Children(sized) \union {i}
          /\ u.rect = [sized.rect EXCEPT ![i] = r] /\ u.paused = sized.paused \ {i}
          /\ SamePlaces(sized, u) /\ SameView(sized, u) /\ u.timer = sized.timer
      BY <1>1, <1>2, <1>4, <1>6, <1>9, <1>12, PutFact
    <3>2. y = u
      BY <1>3, <2>1
    <3> HIDE DEF u, y
    <3>3. /\ AreaOK(y) /\ InOrder(y) /\ Children(y) = Children(home) \union {i}
          /\ y.paused = home.paused \ {i} /\ y.late = late
          /\ y.background = home.background /\ y.off = home.off
          /\ y.before = home.before /\ y.layout = home.layout /\ y.file = home.file
          /\ y.timer = home.timer /\ y.early = home.early
      BY <1>9, <1>12, <3>1, <3>2 DEF SamePlaces, SameView
    <3>4. y.rect = [home.rect EXCEPT ![i] = r]
      BY <1>9, <3>1, <3>2
    <3>5. \A j \in Applets \ {i} : y.rect[j] = home.rect[j]
      BY <1>1, <3>4 DEF Areas
    <3>6. y.rect[i] = home.layout[i] /\ home.layout[i] # None
      BY <1>1, <2>1, <3>4 DEF Areas, known, r
    <3>7. SpotKept(y, stylus, i)
      <4>1. AwayKept(home, i)
        BY <1>1, <2>0 DEF SpotKept
      <4>2. PlaceKept(y, i)
        BY <3>3, <3>6, <4>1 DEF AwayKept, PlaceKept, InFile, SameSpot
      <4> QED
        BY <2>0, <3>3, <4>2 DEF SpotKept
    <3>8. ASSUME NEW j \in Applets \ {i} PROVE SpotKept(y, stylus, j)
      <4>1. SpotKept(home, stylus, j)
        BY DEF HomeIInv
      <4>2. y.rect[j] = home.rect[j]
        BY <3>5
      <4> QED
        BY <3>3, <4>1, <4>2, KeptFact
    <3> QED
      BY <3>3, <3>7, <3>8
  <2>2. CASE ~known
    <3> DEFINE u == Put(kept, i, r, Top)
    <3>0. AreaOK(kept) /\ i \in Applets \ Children(kept) /\ kept.request[i] # None
      BY <1>1, <1>6, <1>11, <1>13
    <3>1. /\ AreaOK(u) /\ InOrder(u) /\ Children(u) = Children(kept) \union {i}
          /\ u.rect = [kept.rect EXCEPT ![i] = r] /\ u.paused = kept.paused \ {i}
          /\ SamePlaces(kept, u) /\ SameView(kept, u) /\ u.timer = kept.timer
      <4>1. Top \in Nat
        BY <1>4
      <4> QED
        BY ONLY <1>2, <3>0, <4>1, PutFact
    <3>2. y = LayoutChanged(u)
      BY <1>3, <1>10, <2>2
    <3> HIDE DEF u, y
    <3>3. /\ AreaOK(y) /\ InOrder(y) /\ Children(y) = Children(u) /\ y.timer
          /\ y.paused = u.paused /\ SameView(u, y) /\ SamePlaces(u, y) /\ y.rect = u.rect
      BY <3>1, <3>2, TimedFact
    <3>4. /\ AreaOK(y) /\ InOrder(y) /\ Children(y) = Children(home) \union {i}
          /\ y.paused = home.paused \ {i} /\ y.late = late
          /\ y.background = home.background /\ y.off = home.off
      BY <1>11, <1>13, <3>1, <3>3 DEF SameView
    <3>5. SpotKept(y, stylus, i)
      BY <2>0, <3>3, <3>4 DEF SpotKept, PlaceKept
    <3>6. ASSUME NEW j \in Applets \ {i} PROVE SpotKept(y, stylus, j)
      <4>1. SpotKept(home, stylus, j)
        BY DEF HomeIInv
      <4>2. y.rect[j] = home.rect[j]
        BY <1>1, <1>11, <3>1, <3>3 DEF Areas
      <4>3. /\ y.before = home.before /\ y.file = home.file /\ y.early = home.early
            /\ y.layout[j] = home.layout[j]
        BY <1>11, <3>1, <3>3 DEF SamePlaces
      <4> QED
        BY <3>3, <3>4, <4>1, <4>2, <4>3, KeptFact
    <3> QED
      BY <3>3, <3>4, <3>5, <3>6
  <2> QED
    BY <2>1, <2>2
<1>15. Knowing(y)
  <2> HIDE DEF y
  <2>1. ASSUME NEW j \in Children(home), j # i, j \notin late
        PROVE  j \in y.paused <=> y.background \/ y.off
    <3>1. j \in home.paused <=> home.background \/ home.off
      BY <1>7, <2>1 DEF HomeIInv, Knowing
    <3> QED
      BY <1>14, <2>1, <3>1
  <2>2. i \notin late => ~(y.background \/ y.off) /\ i \notin y.paused
    BY <1>7, <1>14
  <2> QED
    BY <1>14, <2>1, <2>2 DEF Knowing
<1> HIDE DEF y
<1>16. StylusOK(stylus) /\ stylus.item \in Children(y) \union {None}
  BY <1>14 DEF HomeIInv
<1> QED
  BY <1>1, <1>14, <1>15, <1>16 DEF HomeIInv, y
LEMMA RemoveFact ==
  ASSUME NEW i \in Applets, HomeIInv, RemoveApplet(i) PROVE HomeIInv'
<1> DEFINE y == Removed(home, i)
<1>1. AreaOK(home) /\ InOrder(home) /\ Knowing(home) /\ StylusOK(stylus)
      /\ i \in Children(home) /\ y = home' /\ Children(home) \subseteq Applets
  <2>1. Children(home) \subseteq Applets
    BY EntriesFact DEF HomeIInv, AreaOK, Listed, Areas, Entries
  <2> QED
    BY <2>1 DEF HomeIInv, RemoveApplet
<1>2. /\ AreaOK(y) /\ InOrder(y) /\ Children(y) = Children(home) \ {i}
      /\ \A j \in Applets \ {i} : /\ y.rect[j] = home.rect[j] /\ y.before[j] = home.before[j]
                                  /\ y.layout[j] = home.layout[j]
      /\ y.layout[i] = None /\ y.early = home.early \ {i}
      /\ y.paused = home.paused \ {i} /\ y.late = home.late \ {i} /\ y.file = home.file
      /\ y.background = home.background /\ y.off = home.off /\ (home.timer => y.timer)
  BY <1>1, RemovedFact
<1> HIDE DEF y
<1>3. Knowing(y)
  BY <1>1, <1>2 DEF Knowing
<1>4. StylusOK(stylus') /\ stylus'.item \in Children(y) \union {None}
  <2>1. StylusOK(Up) /\ Up.item = None
    BY DEF Up, StylusOK
  <2>2. stylus' = IF stylus.item = i THEN Up ELSE stylus
    BY DEF RemoveApplet
  <2>3. stylus.item \in Children(home) \union {None}
    BY DEF HomeIInv
  <2> QED
    BY <1>1, <1>2, <2>1, <2>2, <2>3
<1>5. SpotKept(y, stylus', i)
  BY <1>2 DEF SpotKept, AwayKept
<1>6. ASSUME NEW j \in Applets \ {i} PROVE SpotKept(y, stylus', j)
  <2>1. SpotKept(home, stylus, j)
    BY DEF HomeIInv
  <2>2. Moves(stylus', j) <=> Moves(stylus, j)
    BY HomeAssumption DEF Moves, RemoveApplet, Up
  <2> QED
    BY <1>1, <1>2, <2>1, <2>2, KeptFact
<1>7. \A j \in Applets : SpotKept(y, stylus', j)
  BY <1>5, <1>6
<1> QED
  BY <1>1, <1>2, <1>3, <1>4, <1>7 DEF HomeIInv

LEMMA SaveTimeoutFact == ASSUME HomeIInv, SaveTimeout PROVE HomeIInv'
<1> DEFINE d == Dragged(stylus)
           y == Saved(home, d)
<1>1. AreaOK(home) /\ Knowing(home) /\ y = home' /\ stylus' = stylus
  BY DEF HomeIInv, SaveTimeout
<1>2. d \in SUBSET Applets /\ \A i \in Applets : Moves(stylus, i) => i \in d
  <2>1. \A i \in Applets : Moves(stylus, i) => i \in Dragged(stylus)
    BY DEF Dragged, Moves
  <2>2. stylus.state = "moving" => stylus.item \in Applets
    BY DEF HomeIInv, StylusOK
  <2>3. Dragged(stylus) \subseteq Applets
    BY <2>2 DEF Dragged
  <2> QED
    BY <2>1, <2>3
<1> HIDE DEF d
<1>3. /\ AreaOK(y) /\ InOrder(y) /\ Children(y) = Children(home)
      /\ y.paused = home.paused /\ SameView(home, y)
      /\ \A i \in Children(home) : InFile(y, i, y.rect[i])
      /\ \A i \in d : i \in y.early
      /\ \A i \in Applets \ Children(home) : AwayKept(y, i)
  BY <1>1, <1>2, SavedFact
<1> HIDE DEF y
<1>4. Knowing(y)
  BY <1>1, <1>3 DEF Knowing, SameView
<1>5. \A i \in Applets : SpotKept(y, stylus, i)
  BY <1>2, <1>3 DEF SpotKept, StartKept, PlaceKept
<1> QED
  BY <1>1, <1>3, <1>4, <1>5 DEF HomeIInv

LEMMA RestartFact == ASSUME HomeIInv, RestartHome PROVE HomeIInv'
<1>1. PICK f \in [Applets -> Places \union {None}] \union {Torn} : home' = Load(f)
  <2>1. home.file \in [Applets -> Places \union {None}] \union {Torn}
    BY DEF HomeIInv, AreaOK, Listed, Areas
  <2>2. home' = Load(home.file) \/ home' = Load(Torn)
    BY DEF RestartHome
  <2> QED
    BY <2>1, <2>2
<1>2. /\ AreaOK(home') /\ InOrder(home') /\ Knowing(home') /\ Children(home') = {}
      /\ \A i \in Applets : AwayKept(home', i)
  BY <1>1, LoadFact
<1>3. StylusOK(stylus') /\ stylus'.item = None
  BY DEF RestartHome, Up, StylusOK
<1>4. \A i \in Applets : SpotKept(home', stylus', i)
  BY <1>2 DEF SpotKept
<1> QED
  BY <1>2, <1>3, <1>4 DEF HomeIInv

(* The stylus on an item that is not moved. *)
LEMMA StylusFact ==
  ASSUME HomeIInv, home' = home, StylusOK(stylus'), stylus'.item \in Children(home) \union {None},
         \A i \in Children(home) : Moves(stylus, i) <=> Moves(stylus', i)
  PROVE  HomeIInv'
<1>1. \A i \in Applets : SpotKept(home, stylus', i)
  BY DEF HomeIInv, SpotKept
<1> QED
  BY <1>1 DEF HomeIInv

LEMMA PressFact ==
  ASSUME NEW i \in Applets, HomeIInv,
         PressItem(i) \/ PressHandle(i) \/ DoubleClick \/ ClickTimeout
  PROVE  HomeIInv'
<1>1. home' = home /\ StylusOK(stylus) /\ stylus.item \in Children(home) \union {None}
      /\ None \notin Children(home)
  <2>1. None \notin Children(home)
    BY EntriesFact, HomeAssumption DEF HomeIInv, AreaOK, Listed, Areas, Entries
  <2> QED
    BY <2>1 DEF HomeIInv, PressItem, PressHandle, DoubleClick, ClickTimeout
<1>2. CASE PressItem(i) \/ PressHandle(i)
  <2>1. /\ stylus.item = None /\ stylus'.item = i /\ i \in Children(home) /\ StylusOK(stylus')
        /\ stylus'.state # "moving"
    <3>1. stylus.item = None /\ i \in Children(home) /\ i # None
      BY <1>1, <1>2 DEF PressItem, PressHandle
    <3>2. \/ stylus' = [item |-> i, state |-> "normal", timer |-> TRUE, far |-> FALSE, told |-> 0]
          \/ stylus' = [item |-> i, state |-> "resizing", timer |-> FALSE, far |-> FALSE, told |-> 0]
      BY <1>2 DEF PressItem, PressHandle, Up
    <3> DEFINE x == stylus'
    <3> HIDE DEF x
    <3>3. ASSUME x = [item |-> i, state |-> "normal", timer |-> TRUE, far |-> FALSE, told |-> 0]
          PROVE  x.item = i /\ StylusOK(x) /\ x.state # "moving"
      BY <3>1, <3>3 DEF StylusOK
    <3>4. ASSUME x = [item |-> i, state |-> "resizing", timer |-> FALSE, far |-> FALSE, told |-> 0]
          PROVE  x.item = i /\ StylusOK(x) /\ x.state # "moving"
      BY <3>1, <3>4 DEF StylusOK
    <3> QED
      BY <3>1, <3>2, <3>3, <3>4 DEF x
  <2>2. \A j \in Children(home) : Moves(stylus, j) <=> Moves(stylus', j)
    BY <1>1, <2>1 DEF Moves
  <2> QED
    BY <1>1, <2>1, <2>2, StylusFact
<1>3. CASE DoubleClick
  <2>1. StylusOK(stylus') /\ stylus'.item = stylus.item /\ stylus'.state = stylus.state
    <3> DEFINE x == stylus'
    <3>1. /\ stylus.timer /\ ~stylus.far /\ stylus.state = "normal" /\ stylus.told \in Nat
          /\ stylus.item \in Applets \union {None}
      BY <1>1, <1>3 DEF DoubleClick, StylusOK
    <3>2. /\ x = [item |-> stylus.item, state |-> "normal", timer |-> FALSE, far |-> FALSE,
                  told |-> stylus.told + 2]
      BY <1>1, <1>3, <3>1 DEF DoubleClick, StylusOK
    <3> HIDE DEF x
    <3>3. stylus.told + 2 \in Nat /\ stylus.told + 2 > 0
      BY <3>1
    <3>4. StylusOK(x) /\ x.item = stylus.item /\ x.state = stylus.state
      BY <3>1, <3>2, <3>3 DEF StylusOK
    <3> QED
      BY <3>4 DEF x
  <2>2. \A j \in Children(home) : Moves(stylus, j) <=> Moves(stylus', j)
    BY <1>1, <2>1 DEF Moves
  <2> QED
    BY <1>1, <2>1, <2>2, StylusFact
<1>4. CASE ClickTimeout
  <2>1. StylusOK(stylus') /\ stylus'.item = stylus.item /\ stylus'.state = stylus.state
    <3> DEFINE x == stylus'
    <3>1. /\ stylus.timer /\ ~stylus.far /\ stylus.state = "normal" /\ stylus.told \in Nat
          /\ stylus.item \in Applets \union {None}
      BY <1>1, <1>4 DEF ClickTimeout, StylusOK
    <3>2. /\ x = [item |-> stylus.item, state |-> "normal", timer |-> FALSE, far |-> FALSE,
                  told |-> stylus.told + 1]
      BY <1>1, <1>4, <3>1 DEF ClickTimeout, StylusOK
    <3> HIDE DEF x
    <3>3. stylus.told + 1 \in Nat /\ stylus.told + 1 > 0
      BY <3>1
    <3>4. StylusOK(x) /\ x.item = stylus.item /\ x.state = stylus.state
      BY <3>1, <3>2, <3>3 DEF StylusOK
    <3> QED
      BY <3>4 DEF x
  <2>2. \A j \in Children(home) : Moves(stylus, j) <=> Moves(stylus', j)
    BY <1>1, <2>1 DEF Moves
  <2> QED
    BY <1>1, <2>1, <2>2, StylusFact
<1> QED
  BY <1>2, <1>3, <1>4

LEMMA AllocateFact ==
  ASSUME NEW i \in Applets, HomeIInv, Allocate(i) PROVE HomeIInv'
<1> DEFINE r == Rect(home.rect[i], home.request[i])
           y == [home EXCEPT !.rect[i] = r]
<1>1. /\ AreaOK(home) /\ InOrder(home) /\ Knowing(home) /\ home \in Areas /\ i \in Children(home)
      /\ stylus' = stylus /\ Children(home) \subseteq Applets
  <2>1. Children(home) \subseteq Applets
    BY EntriesFact DEF HomeIInv, AreaOK, Listed, Areas, Entries
  <2> QED
    BY <2>1 DEF HomeIInv, Allocate, AreaOK, Listed
<1>2. y = home'
  BY <1>1 DEF Allocate, Areas
<1>3. home.rect[i] \in Rects /\ home.request[i] \in Sizes
  BY <1>1 DEF AreaOK, Areas
<1>4. r \in Rects /\ r.x = home.rect[i].x /\ r.y = home.rect[i].y
  BY <1>3 DEF Rects, Sizes, Rect
<1> HIDE DEF r
<1>5. /\ AreaOK(y) /\ InOrder(y) /\ Children(y) = Children(home)
      /\ y.rect = [home.rect EXCEPT ![i] = r] /\ y.paused = home.paused /\ y.timer = home.timer
      /\ SamePlaces(home, y) /\ SameView(home, y)
  BY <1>1, <1>4, MovedFact
<1> HIDE DEF y
<1>6. \A j \in Applets : y.rect[j].x = home.rect[j].x /\ y.rect[j].y = home.rect[j].y
  <2>1. \A j \in Applets : y.rect[j] = IF j = i THEN r ELSE home.rect[j]
    BY <1>1, <1>5 DEF Areas
  <2> QED
    BY <1>4, <2>1
<1>7. Knowing(y)
  BY <1>1, <1>5 DEF Knowing, SameView
<1>8. ASSUME NEW j \in Applets PROVE SpotKept(y, stylus, j)
  <2>1. SpotKept(home, stylus, j)
    BY DEF HomeIInv
  <2>2. \A q : SameSpot(home.rect[j], q) => SameSpot(y.rect[j], q)
    BY <1>6 DEF SameSpot
  <2>3. PlaceKept(home, j) => PlaceKept(y, j)
    BY <1>5, <2>2 DEF PlaceKept, InFile, SamePlaces
  <2> QED
    BY <1>5, <2>1, <2>3 DEF SpotKept, StartKept, AwayKept, InFile, SamePlaces
<1> QED
  BY <1>1, <1>2, <1>5, <1>7, <1>8 DEF HomeIInv

LEMMA MotionFact == ASSUME HomeIInv, MotionNotify PROVE HomeIInv'
<1>1. PICK i \in {stylus.item} \ {None} :
        \/ /\ stylus.timer \/ stylus.state = "moving"
           /\ \E p \in Spots[i] :
                LET a == IF stylus.timer THEN StartMoving(home, i) ELSE home
                IN home' = [a EXCEPT !.rect[i] = Rect(Clamped(p, @), @)]
           /\ stylus' = [stylus EXCEPT !.timer = FALSE, !.far = TRUE, !.state = "moving"]
        \/ /\ stylus.state = "resizing"
           /\ \E w, h \in Lengths[i] :
                /\ home.rect[i].x + w <= Width /\ home.rect[i].y + h <= Height
                /\ home' = [home EXCEPT !.request[i] = [w |-> w, h |-> h]]
           /\ UNCHANGED stylus
  BY DEF MotionNotify
<1>2. /\ AreaOK(home) /\ InOrder(home) /\ Knowing(home) /\ home \in Areas
      /\ i \in Children(home) /\ Children(home) \subseteq Applets
      /\ StylusOK(stylus) /\ stylus.item = i
  <2>1. Children(home) \subseteq Applets
    BY EntriesFact DEF HomeIInv, AreaOK, Listed, Areas, Entries
  <2> QED
    BY <2>1 DEF HomeIInv, AreaOK, Listed
<1>3. ASSUME stylus.timer \/ stylus.state = "moving", NEW p \in Spots[i],
             home' = LET a == IF stylus.timer THEN StartMoving(home, i) ELSE home
                     IN [a EXCEPT !.rect[i] = Rect(Clamped(p, @), @)],
             stylus' = [stylus EXCEPT !.timer = FALSE, !.far = TRUE, !.state = "moving"]
      PROVE  HomeIInv'
  <2> DEFINE a == IF stylus.timer THEN StartMoving(home, i) ELSE home
             r == Rect(Clamped(p, home.rect[i]), home.rect[i])
             y == [a EXCEPT !.rect[i] = r]
  <2>1. /\ AreaOK(a) /\ InOrder(a) /\ Children(a) = Children(home)
        /\ a.rect = home.rect /\ a.paused = home.paused /\ a.timer = home.timer /\ SameView(home, a)
        /\ \A j \in Applets \ {i} : a.before[j] = home.before[j]
        /\ a.layout = home.layout /\ a.file = home.file /\ a.early = home.early
        /\ a.before[i] = IF stylus.timer THEN home.rect[i] ELSE home.before[i]
    <3>1. CASE stylus.timer
      BY <1>2, <3>1, StartMovingFact
    <3>2. CASE ~stylus.timer
      BY <1>2, <3>2 DEF SameView
    <3> QED
      BY <3>1, <3>2
  <2>2. home' = [a EXCEPT !.rect[i] = Rect(Clamped(p, @), @)]
    BY <1>3
  <2> HIDE DEF a
  <2>3. home' = y
    BY <1>2, <2>1, <2>2 DEF AreaOK, Listed, Areas
  <2>4. r \in Rects
    <3> DEFINE q == home.rect[i]
    <3>1. q \in Rects
      BY <1>2 DEF AreaOK, Areas
    <3>2. p.x \in Nat /\ p.y \in Nat
      BY <1>2, HomeAssumption
    <3> HIDE DEF q
    <3>3. Clamped(p, q).x \in Int /\ Clamped(p, q).y \in Int
      BY <3>1, <3>2, HomeAssumption DEF Clamped, Rects
    <3>4. Rect(Clamped(p, q), q) \in Rects
      BY <3>1, <3>3 DEF Rect, Rects
    <3> QED
      BY <3>4 DEF q
  <2> HIDE DEF r
  <2>5. /\ AreaOK(y) /\ InOrder(y) /\ Children(y) = Children(a)
        /\ y.rect = [a.rect EXCEPT ![i] = r] /\ y.paused = a.paused /\ y.timer = a.timer
        /\ SamePlaces(a, y) /\ SameView(a, y)
    BY <1>2, <2>1, <2>4, MovedFact
  <2> HIDE DEF y
  <2>6. /\ AreaOK(y) /\ InOrder(y) /\ Children(y) = Children(home) /\ y.paused = home.paused
        /\ y.timer = home.timer /\ SameView(home, y)
        /\ \A j \in Applets \ {i} : y.rect[j] = home.rect[j] /\ y.before[j] = home.before[j]
        /\ y.layout = home.layout /\ y.file = home.file /\ y.early = home.early
        /\ y.before[i] = IF stylus.timer THEN home.rect[i] ELSE home.before[i]
    <3>1. \A j \in Applets \ {i} : y.rect[j] = home.rect[j]
      BY <1>2, <2>1, <2>5 DEF Areas
    <3> QED
      BY <2>1, <2>5, <3>1 DEF SameView, SamePlaces
  <2>7. Knowing(y)
    BY <1>2, <2>6 DEF Knowing, SameView
  <2>8. StylusOK(stylus') /\ Moves(stylus', i) /\ stylus'.item = i
    <3>1. i # None
      BY <1>1
    <3> QED
      BY <1>2, <1>3, <3>1 DEF StylusOK, Moves
  <2>9. ASSUME NEW j \in Applets, j # i PROVE SpotKept(y, stylus', j)
    <3>1. SpotKept(home, stylus, j)
      BY DEF HomeIInv
    <3>2. Moves(stylus', j) <=> Moves(stylus, j)
      BY <1>2, <2>8, <2>9 DEF Moves
    <3> QED
      BY <2>6, <2>9, <3>1, <3>2, KeptFact
  <2>10. SpotKept(y, stylus', i)
    <3>1. SpotKept(home, stylus, i)
      BY <1>2 DEF HomeIInv
    <3>2. CASE stylus.timer
      <4>1. PlaceKept(home, i)
        BY <1>2, <3>1, <3>2 DEF SpotKept, Moves, StylusOK
      <4>2. StartKept(y, i)
        BY <2>6, <3>2, <4>1 DEF PlaceKept, StartKept, InFile
      <4> QED
        BY <1>2, <2>6, <2>8, <4>2 DEF SpotKept
    <3>3. CASE ~stylus.timer
      <4>1. StartKept(home, i)
        BY <1>2, <1>3, <3>1, <3>3 DEF SpotKept, Moves
      <4>2. StartKept(y, i)
        BY <2>6, <3>3, <4>1 DEF StartKept, InFile
      <4> QED
        BY <1>2, <2>6, <2>8, <4>2 DEF SpotKept
    <3> QED
      BY <3>2, <3>3
  <2> QED
    BY <1>2, <2>3, <2>6, <2>7, <2>8, <2>9, <2>10 DEF HomeIInv
<1>4. ASSUME NEW w \in Lengths[i], NEW h \in Lengths[i], stylus' = stylus,
             home' = [home EXCEPT !.request[i] = [w |-> w, h |-> h]]
      PROVE  HomeIInv'
  <2> DEFINE q == [home.request EXCEPT ![i] = [w |-> w, h |-> h]]
             y == [home EXCEPT !.request = q]
  <2>1. home' = y
    BY <1>2, <1>4 DEF Areas
  <2>2. [w |-> w, h |-> h] \in Sizes
    BY <1>2, HomeAssumption DEF Sizes
  <2>3. [w |-> w, h |-> h] # None
    BY <2>2, HomeAssumption
  <2>4. /\ q \in [Applets -> Sizes \union {None}]
        /\ \A j \in Applets : home.request[j] # None => q[j] # None
    BY <1>2, <2>2, <2>3 DEF Areas
  <2> HIDE DEF q
  <2>5. /\ y \in Areas /\ y.children = home.children /\ y.stack = home.stack
        /\ y.raised = home.raised /\ y.index = home.index /\ y.rect = home.rect
        /\ y.request = q /\ y.paused = home.paused /\ y.timer = home.timer
        /\ SamePlaces(home, y) /\ SameView(home, y)
    BY <1>2, <2>4 DEF Areas, SamePlaces, SameView
  <2> HIDE DEF y
  <2>6. AreaOK(y) /\ InOrder(y) /\ Children(y) = Children(home)
    BY <1>2, <2>4, <2>5, SameStackFact
  <2>7. Knowing(y)
    BY <1>2, <2>5, <2>6 DEF Knowing, SameView
  <2>8. ASSUME NEW j \in Applets PROVE SpotKept(y, stylus', j)
    <3>1. SpotKept(home, stylus, j)
      BY DEF HomeIInv
    <3> QED
      BY <1>4, <2>5, <2>6, <3>1, KeptFact DEF SamePlaces
  <2> QED
    BY <1>2, <1>4, <2>1, <2>6, <2>7, <2>8 DEF HomeIInv
<1> QED
  BY <1>1, <1>3, <1>4

LEMMA ReleaseFact == ASSUME HomeIInv, Release PROVE HomeIInv'
<1>1. PICK i \in {stylus.item} \ {None} :
        LET a == [RaiseItem(home, i) EXCEPT !.raised = @ \union {i}]
        IN /\ home' = IF stylus.state # "normal" THEN EndChange(a, i) ELSE a
           /\ stylus' = Up
  BY DEF Release
<1> DEFINE a == [RaiseItem(home, i) EXCEPT !.raised = @ \union {i}]
           y == home'
<1>2. /\ AreaOK(home) /\ InOrder(home) /\ Knowing(home) /\ i \in Children(home)
      /\ Children(home) \subseteq Applets /\ stylus.item = i
  <2>1. Children(home) \subseteq Applets
    BY EntriesFact DEF HomeIInv, AreaOK, Listed, Areas, Entries
  <2> QED
    BY <2>1 DEF HomeIInv
<1>3. AreaOK(a) /\ InOrder(a) /\ SameHome(home, a)
  BY <1>2, RaisedFact
<1>4. y = IF stylus.state # "normal" /\ a.before[i] # a.rect[i] THEN LayoutChanged(a) ELSE a
  BY <1>1 DEF EndChange
<1> HIDE DEF a
<1>5. LET z == LayoutChanged(a)
      IN /\ AreaOK(z) /\ InOrder(z) /\ Children(z) = Children(a) /\ z.timer
         /\ z.paused = a.paused /\ SamePlaces(a, z) /\ SameView(a, z) /\ z.rect = a.rect
  BY <1>3, TimedFact
<1> HIDE DEF y
<1>6. /\ AreaOK(y) /\ InOrder(y) /\ Children(y) = Children(home)
      /\ y.paused = home.paused /\ SameView(home, y)
      /\ y.rect = home.rect /\ SamePlaces(home, y) /\ (home.timer => y.timer)
      /\ y.timer \/ stylus.state = "normal" \/ y.before[i] = y.rect[i]
  BY <1>3, <1>4, <1>5 DEF SameHome, SameView, SamePlaces
<1>7. Knowing(y)
  BY <1>2, <1>6 DEF Knowing, SameView
<1>8. ASSUME NEW j \in Applets PROVE SpotKept(y, stylus', j)
  <2>1. SpotKept(home, stylus, j)
    BY DEF HomeIInv
  <2>2. ~Moves(stylus', j)
    BY <1>1, HomeAssumption DEF Moves, Up
  <2>3. CASE ~Moves(stylus, j)
    BY <1>6, <2>1, <2>2, <2>3, KeptFact DEF SamePlaces
  <2>4. CASE Moves(stylus, j)
    <3>1. j = i /\ StartKept(home, i) /\ y.rect[i] # None
      BY <1>2, <1>6, <2>1, <2>4 DEF Moves, SpotKept, AreaOK
    <3>2. y.timer \/ y.before[i] = y.rect[i]
      BY <1>6, <2>4 DEF Moves
    <3>3. PlaceKept(y, i)
      BY <1>6, <3>1, <3>2 DEF PlaceKept, StartKept, InFile, SamePlaces, SameSpot
    <3> QED
      BY <1>2, <1>6, <2>2, <3>1, <3>3 DEF SpotKept
  <2> QED
    BY <2>3, <2>4
<1>9. StylusOK(stylus') /\ stylus'.item = None
  BY <1>1 DEF Up, StylusOK
<1> QED
  BY <1>6, <1>7, <1>8, <1>9 DEF HomeIInv, y

(* The items that can be seen or not. *)
View(a, y, b, o, u) ==
  /\ y = [a EXCEPT !.background = b, !.off = o, !.paused = u]
  /\ \/ u = a.paused /\ (b \/ o) /\ (a.background \/ a.off)
     \/ u = IF b \/ o THEN Children(a) ELSE {}

LEMMA ViewFact ==
  ASSUME HomeIInv, Background \/ ScreenOff PROVE HomeIInv'
<1> DEFINE y == home'
<1>1. /\ AreaOK(home) /\ InOrder(home) /\ Knowing(home) /\ home \in Areas /\ stylus' = stylus
      /\ Children(home) \subseteq Applets
  <2>1. Children(home) \subseteq Applets
    BY EntriesFact DEF HomeIInv, AreaOK, Listed, Areas, Entries
  <2> QED
    BY <2>1 DEF HomeIInv, Background, ScreenOff, AreaOK, Listed
<1>2. PICK b \in BOOLEAN, o \in BOOLEAN, u \in SUBSET Applets : View(home, y, b, o, u)
  <2>1. CASE Background
    <3> DEFINE a == [home EXCEPT !.background = ~@]
    <3>1. /\ y = IF home.off THEN a ELSE [a EXCEPT !.paused = IF a.background THEN Children(a) ELSE {}]
          /\ a.background = ~home.background /\ Children(a) = Children(home)
      BY <1>1, <2>1 DEF Background, Tell, Children, Areas
    <3>2. CASE home.off
      <4>1. y = [home EXCEPT !.background = ~home.background, !.off = TRUE, !.paused = home.paused]
        BY <1>1, <3>1, <3>2 DEF Areas
      <4>2. View(home, y, ~home.background, TRUE, home.paused)
        BY <3>2, <4>1 DEF View
      <4>3. home.paused \in SUBSET Applets /\ (~home.background) \in BOOLEAN /\ (~home.off) \in BOOLEAN
        BY <1>1 DEF Areas
      <4> QED
        BY <4>2, <4>3
    <3>3. CASE ~home.off
      <4> DEFINE u == IF ~home.background THEN Children(home) ELSE {}
      <4>1. y = [home EXCEPT !.background = ~home.background, !.off = FALSE, !.paused = u]
        BY <1>1, <3>1, <3>3 DEF Areas
      <4>2. u \in SUBSET Applets /\ (~home.background) \in BOOLEAN
        BY <1>1
      <4>3. u = IF ~home.background \/ FALSE THEN Children(home) ELSE {}
        OBVIOUS
      <4> HIDE DEF u
      <4>4. View(home, y, ~home.background, FALSE, u)
        BY <4>1, <4>3 DEF View
      <4> QED
        BY <4>2, <4>4
    <3> QED
      BY <3>2, <3>3
  <2>2. CASE ScreenOff
    <3> DEFINE a == [home EXCEPT !.off = ~@]
    <3>1. /\ y = IF home.background THEN a ELSE [a EXCEPT !.paused = IF a.off THEN Children(a) ELSE {}]
          /\ a.off = ~home.off /\ Children(a) = Children(home)
      BY <1>1, <2>2 DEF ScreenOff, Tell, Children, Areas
    <3>2. CASE home.background
      <4>1. y = [home EXCEPT !.background = TRUE, !.off = ~home.off, !.paused = home.paused]
        BY <1>1, <3>1, <3>2 DEF Areas
      <4>2. View(home, y, TRUE, ~home.off, home.paused)
        BY <3>2, <4>1 DEF View
      <4>3. home.paused \in SUBSET Applets /\ (~home.background) \in BOOLEAN /\ (~home.off) \in BOOLEAN
        BY <1>1 DEF Areas
      <4> QED
        BY <4>2, <4>3
    <3>3. CASE ~home.background
      <4> DEFINE u == IF ~home.off THEN Children(home) ELSE {}
      <4>1. y = [home EXCEPT !.background = FALSE, !.off = ~home.off, !.paused = u]
        BY <1>1, <3>1, <3>3 DEF Areas
      <4>2. u \in SUBSET Applets /\ (~home.off) \in BOOLEAN
        BY <1>1
      <4>3. u = IF FALSE \/ ~home.off THEN Children(home) ELSE {}
        OBVIOUS
      <4> HIDE DEF u
      <4>4. View(home, y, FALSE, ~home.off, u)
        BY <4>1, <4>3 DEF View
      <4> QED
        BY <4>2, <4>4
    <3> QED
      BY <3>2, <3>3
  <2> QED
    BY <2>1, <2>2
<1> HIDE DEF y
<1>3. /\ y \in Areas /\ y.children = home.children /\ y.stack = home.stack
      /\ y.raised = home.raised /\ y.index = home.index /\ y.rect = home.rect
      /\ y.request = home.request /\ y.paused = u /\ y.timer = home.timer
      /\ SamePlaces(home, y) /\ y.background = b /\ y.off = o /\ y.late = home.late
  BY <1>1, <1>2 DEF View, Areas, SamePlaces
<1>4. AreaOK(y) /\ InOrder(y) /\ Children(y) = Children(home)
  BY <1>1, <1>3, SameStackFact
<1>5. Knowing(y)
  <2>1. CASE u = home.paused /\ (b \/ o) /\ (home.background \/ home.off)
    BY <1>1, <1>3, <1>4, <2>1 DEF Knowing
  <2>2. CASE u = IF b \/ o THEN Children(home) ELSE {}
    BY <1>3, <1>4, <2>2 DEF Knowing
  <2> QED
    BY <1>2, <2>1, <2>2 DEF View
<1>6. ASSUME NEW j \in Applets PROVE SpotKept(y, stylus, j)
  <2>1. SpotKept(home, stylus, j)
    BY DEF HomeIInv
  <2> QED
    BY <1>3, <1>4, <2>1, KeptFact DEF SamePlaces
<1>7. StylusOK(stylus) /\ stylus.item \in Children(y) \union {None}
  BY <1>4 DEF HomeIInv
<1> QED
  BY <1>1, <1>4, <1>5, <1>6, <1>7 DEF HomeIInv, y

LEMMA HomeInitFact == HomeInit => HomeIInv
<1> SUFFICES ASSUME HomeInit PROVE HomeIInv
  OBVIOUS
<1>1. AreaOK(home) /\ InOrder(home) /\ Knowing(home) /\ Children(home) = {}
  BY EmptyFact, NoItemsFact DEF HomeInit
<1>2. StylusOK(stylus) /\ stylus.item = None
  BY DEF HomeInit, Up, StylusOK
<1>3. \A i \in Applets : SpotKept(home, stylus, i)
  BY <1>1, EmptyFact DEF HomeInit, SpotKept, AwayKept
<1> QED
  BY <1>1, <1>2, <1>3 DEF HomeIInv

LEMMA HomeStepFact == HomeIInv /\ [HomeNext]_homeVars => HomeIInv'
<1> SUFFICES ASSUME HomeIInv, [HomeNext]_homeVars PROVE HomeIInv'
  OBVIOUS
<1>1. ASSUME NEW i \in Applets, AddApplet(i) PROVE HomeIInv'
  BY <1>1, AddFact
<1>2. ASSUME NEW i \in Applets, RemoveApplet(i) PROVE HomeIInv'
  BY <1>2, RemoveFact
<1>3. ASSUME NEW i \in Applets, PressItem(i) \/ PressHandle(i) PROVE HomeIInv'
  BY <1>3, PressFact
<1>4. ASSUME NEW i \in Applets, Allocate(i) PROVE HomeIInv'
  BY <1>4, AllocateFact
<1>5. CASE SaveTimeout
  BY <1>5, SaveTimeoutFact
<1>6. CASE RestartHome
  BY <1>6, RestartFact
<1>7. CASE DoubleClick \/ ClickTimeout
  <2>1. stylus.item \in Applets
    <3>1. stylus.item # None
      BY <1>7 DEF HomeIInv, StylusOK, DoubleClick, ClickTimeout
    <3> QED
      BY <3>1, EntriesFact DEF HomeIInv, AreaOK, Listed, Areas, Entries
  <2> QED
    BY <1>7, <2>1, PressFact
<1>8. CASE MotionNotify
  BY <1>8, MotionFact
<1>9. CASE Release
  BY <1>9, ReleaseFact
<1>10. CASE Background \/ ScreenOff
  BY <1>10, ViewFact
<1>11. CASE UNCHANGED homeVars
  BY <1>11 DEF homeVars, HomeIInv
<1> QED
  BY <1>1, <1>2, <1>3, <1>4, <1>5, <1>6, <1>7, <1>8, <1>9, <1>10, <1>11 DEF HomeNext

(* HildonHomeArea, HDHomeWindow and HildonDesktopHomeItem: however applets    *)
(* come, go, are dragged, resized and raised, and however often the desktop   *)
(* is restarted, in the middle of a save too, each applet's place is the one  *)
(* in the file or one that a timeout will save, unless the last save came in  *)
(* the middle of a drag that ended where it began, or before the applet came; *)
(* the items lie in the order of their indexes, those who heard of a press    *)
(* will hear of the release, and those who came in time know whether they     *)
(* can be seen.                                                               *)
THEOREM HomeSafe == HomeSpec => []HomeInv
<1>1. HomeSpec => []HomeIInv
  BY HomeInitFact, HomeStepFact, PTL DEF HomeSpec
<1> QED
  BY <1>1, HomeIInvImpliesInv, PTL

-----------------------------------------------------------------------------
(* The menu of the switcher and its button. *)
Opens == [NoticeIds -> Notices \union {None}]

Menus ==
  [single : SUBSET NoticeIds, group : SUBSET NoticeIds, blinking : SUBSET NoticeIds,
   clear : BOOLEAN, isOpen : BOOLEAN, blinks : BOOLEAN, animation : BOOLEAN,
   inactive : BOOLEAN, fullscreen : BOOLEAN, attached : BOOLEAN, timeouts : Nat,
   appBlinking : SUBSET AppEntries,
   blinkingId : NoticeIds \union {None}, lastUrgent : AppEntries \union {None}]

ButtonOK(m) ==
  /\ m \in Menus
  /\ m.blinks => m.animation
  /\ m.isOpen \/ m.inactive => ~m.blinks
  /\ ~m.attached => m.fullscreen /\ m.timeouts > 0

Followed(o, m) == {i \in m.single : o[i].category # "system.note"}

ItemsOK(o, m) ==
  /\ m.single \union m.group \subseteq Opened(o) /\ m.single \intersect m.group = {}
  /\ {i \in Opened(o) : o[i].category = "other"} \subseteq m.single
  /\ m.blinking \subseteq m.single
  /\ m.blinking \intersect Followed(o, m) =
       IF m.inactive THEN {} ELSE {i \in Followed(o, m) : ~o[i].ack}

SameNotices(m, y) ==
  /\ y.single = m.single /\ y.group = m.group /\ y.blinking = m.blinking
  /\ y.inactive = m.inactive

SameApps(m, y) ==
  /\ y.appBlinking = m.appBlinking /\ y.inactive = m.inactive
  /\ y.lastUrgent \in {m.lastUrgent, None}

SameItems(m, y) ==
  /\ y.single = m.single /\ y.group = m.group /\ y.blinking = m.blinking
  /\ y.inactive = m.inactive /\ y.appBlinking = m.appBlinking
  /\ y.lastUrgent \in {m.lastUrgent, None}

AppsOK ==
  /\ apps \in Seq(AppEntries) /\ Once(apps)
  /\ urgent \subseteq Entries(apps) /\ ignored \subseteq AppEntries /\ asleep \subseteq AppEntries
  /\ CallsBlink /\ UrgentHere

MenuIInv ==
  /\ open \in Opens /\ ButtonOK(sm) /\ ItemsOK(open, sm) /\ AppsOK
  /\ sm.timeouts <= MaxDetached

LEMMA MenuIInvImpliesInv == MenuIInv => MenuInv
<1> SUFFICES ASSUME MenuIInv PROVE MenuInv
  OBVIOUS
<1>1. MenuTypeOK
  <2>1. Entries(apps) \subseteq AppEntries
    BY DEF MenuIInv, AppsOK, Entries
  <2>2. /\ sm \in Menus /\ open \in Opens /\ apps \in Seq(AppEntries) /\ sm.timeouts <= MaxDetached
        /\ sm.blinking \subseteq sm.single
    BY DEF MenuIInv, AppsOK, ButtonOK, ItemsOK
  <2>3. urgent \union ignored \union asleep \union sm.appBlinking \subseteq AppEntries
    BY <2>1, <2>2 DEF MenuIInv, AppsOK, Menus
  <2> QED
    BY <2>2, <2>3, MenuAssumption DEF Opens, Menus, MenuTypeOK
<1>2. ItemsOpen /\ UngroupedListed
  BY DEF MenuIInv, ItemsOK, ItemsOpen, UngroupedListed
<1>3. ItemsBlink
  BY DEF MenuIInv, ItemsOK, ItemsBlink, Followed
<1>4. BlinkingHasPixbuf /\ DetachedReturns /\ CallsBlink /\ UrgentHere
  BY DEF MenuIInv, ButtonOK, AppsOK, BlinkingHasPixbuf, DetachedReturns
<1> QED
  BY <1>1, <1>2, <1>3, <1>4 DEF MenuInv

(* The operations on the button. *)
LEMMA ResetFact ==
  ASSUME NEW m, ButtonOK(m), NEW d \in BOOLEAN
  PROVE  LET y == ResetIcon(m, d)
         IN /\ ButtonOK(y) /\ SameItems(m, y) /\ ~y.blinks /\ y.isOpen = m.isOpen
            /\ y.fullscreen = m.fullscreen /\ y.animation \in BOOLEAN
BY DEF ButtonOK, Menus, SameItems, ResetIcon

LEMMA BlinkFact ==
  ASSUME NEW m, ButtonOK(m)
  PROVE  LET y == StartBlinking(m)
         IN ButtonOK(y) /\ SameItems(m, y) /\ y.fullscreen = m.fullscreen
<1> DEFINE y == StartBlinking(m)
           b == m.blinks \/ (~m.isOpen /\ ~m.inactive)
<1>1. m \in Menus /\ y = [m EXCEPT !.animation = TRUE, !.blinks = b]
  BY DEF StartBlinking, ButtonOK
<1>2. b \in BOOLEAN /\ (m.isOpen \/ m.inactive => ~b)
  BY DEF ButtonOK, Menus
<1> HIDE DEF y, b
<1>3. /\ y \in Menus /\ SameItems(m, y) /\ y.fullscreen = m.fullscreen /\ y.animation
      /\ y.isOpen = m.isOpen /\ y.blinks = b /\ y.attached = m.attached /\ y.timeouts = m.timeouts
  BY <1>1, <1>2 DEF Menus, SameItems
<1>4. ButtonOK(y)
  BY <1>2, <1>3 DEF ButtonOK, SameItems
<1> QED
  BY <1>3, <1>4 DEF y

LEMMA AttachFact ==
  ASSUME NEW m, ButtonOK(m)
  PROVE  LET y == Attach(m)
         IN ButtonOK(y) /\ SameItems(m, y) /\ y.isOpen = m.isOpen /\ y.blinks = m.blinks
            /\ y.fullscreen = m.fullscreen
BY DEF ButtonOK, Menus, SameItems, Attach

LEMMA DetachFact ==
  ASSUME NEW m, ButtonOK(m), m.fullscreen
  PROVE  LET y == Detach(m)
         IN ButtonOK(y) /\ SameItems(m, y) /\ y.isOpen = m.isOpen /\ y.blinks = m.blinks
            /\ y.fullscreen = m.fullscreen
<1>1. CASE ~m.attached
  BY <1>1 DEF Detach, SameItems
<1>2. CASE m.attached
  <2> DEFINE t == m.timeouts + 1
             y == [m EXCEPT !.attached = FALSE, !.timeouts = t]
  <2>1. m \in Menus /\ t \in Nat /\ t > 0
    BY DEF ButtonOK, Menus
  <2>2. y = Detach(m)
    BY <1>2, <2>1 DEF Detach, Menus
  <2> HIDE DEF t
  <2>3. ButtonOK(y) /\ SameItems(m, y) /\ y.isOpen = m.isOpen /\ y.blinks = m.blinks
        /\ y.fullscreen = m.fullscreen
    BY <2>1 DEF ButtonOK, Menus, SameItems
  <2> QED
    BY <2>2, <2>3
<1> QED
  BY <1>1, <1>2

LEMMA ContentFact ==
  ASSUME NEW m, ButtonOK(m), NEW list
  PROVE  LET y == CheckContent(m, list)
         IN ButtonOK(y) /\ SameItems(m, y) /\ (y.isOpen => m.isOpen) /\ (y.blinks => m.blinks)
<1> DEFINE y == CheckContent(m, list)
           m1 == IF HasItems(m) /\ m.blinks /\ m.fullscreen THEN Detach(m) ELSE m
           m2 == IF ~m.fullscreen THEN Attach(m1) ELSE m1
           m3 == ResetIcon(m2, TRUE)
<1>1. y = IF list = <<>> /\ ~HasItems(m) THEN [m EXCEPT !.isOpen = FALSE]
          ELSE IF Len(list) <= SwitcherSlots /\ m.lastUrgent # None
               THEN [m3 EXCEPT !.lastUrgent = None] ELSE m2
  BY DEF CheckContent
<1>2. ButtonOK(m1) /\ SameItems(m, m1) /\ m1.isOpen = m.isOpen /\ m1.blinks = m.blinks
  BY DetachFact DEF SameItems
<1> HIDE DEF m1
<1>3. ButtonOK(m2) /\ SameItems(m, m2) /\ m2.isOpen = m.isOpen /\ m2.blinks = m.blinks
  BY <1>2, AttachFact DEF SameItems
<1> HIDE DEF m2
<1>4. ButtonOK(m3) /\ SameItems(m, m3) /\ m3.isOpen = m.isOpen /\ ~m3.blinks
  <2>1. ButtonOK(m3) /\ SameItems(m2, m3) /\ ~m3.blinks /\ m3.isOpen = m2.isOpen
    BY <1>3, ResetFact
  <2> HIDE DEF m3
  <2> QED
    BY <1>3, <2>1 DEF SameItems
<1> HIDE DEF m3, y
<1>5. CASE y = [m EXCEPT !.isOpen = FALSE]
  BY <1>5 DEF ButtonOK, Menus, SameItems, y
<1>6. CASE y = m2
  BY <1>3, <1>6 DEF y
<1>7. CASE y = [m3 EXCEPT !.lastUrgent = None]
  BY <1>4, <1>7 DEF ButtonOK, Menus, SameItems, y
<1> QED
  BY <1>1, <1>5, <1>6, <1>7

(* The newest of some notifications. *)
LEMMA NewestFact ==
  ASSUME NEW ids, ids \subseteq NoticeIds, ids # {}
  PROVE  Newest(ids) \in ids
<1> DEFINE S == {MaxNotice - i : i \in ids}
           a == Least(S)
<1>1. MaxNotice \in Nat /\ ids \subseteq 1 .. MaxNotice
  BY MenuAssumption DEF NoticeIds
<1>2. S \in SUBSET Nat /\ S # {}
  <2>1. \A i \in 1 .. MaxNotice : MaxNotice - i \in Nat
    BY <1>1
  <2> QED
    BY <1>1, <2>1
<1>3. a \in S /\ \A m \in S : a <= m
  BY <1>2, LeastFact
<1> HIDE DEF a
<1>4. PICK i \in ids : a = MaxNotice - i
  BY <1>3
<1>5. \A j \in ids : j <= i
  BY <1>1, <1>3, <1>4
<1> QED
  BY <1>5 DEF Newest

LEMMA CreateFact ==
  ASSUME NEW m, ButtonOK(m), NEW o, o \in Opens, NEW list
  PROVE  LET y == CreateMenu(m, o, list)
         IN ButtonOK(y) /\ ItemsOK(o, y) /\ SameApps(m, y)
<1> DEFINE many == Cardinality(Opened(o)) >= ItemsLimit
           grouped == {i \in Opened(o) : o[i].category = "grouped"}
           group == IF many /\ Cardinality(grouped) > 1 THEN grouped ELSE {}
           single == Opened(o) \ group
           new == {i \in single : ~o[i].ack}
           blinking == IF m.inactive THEN {} ELSE new
           m1 == [m EXCEPT !.clear = many, !.single = single, !.group = group, !.blinking = blinking]
           m2 == StartBlinking(m1)
           m3 == IF new = {} THEN m1 ELSE [m2 EXCEPT !.blinkingId = Newest(new)]
           y == CreateMenu(m, o, list)
<1>1. y = CheckContent(m3, list)
  BY DEF CreateMenu
<1>2. m \in Menus /\ Opened(o) \subseteq NoticeIds
  BY DEF ButtonOK, Opened
<1>3. many \in BOOLEAN
  OBVIOUS
<1>4. /\ group \subseteq Opened(o) /\ single = Opened(o) \ group
      /\ \A i \in group : o[i].category = "grouped"
      /\ new = {i \in single : ~o[i].ack} /\ blinking \subseteq single
      /\ blinking = IF m.inactive THEN {} ELSE new
  OBVIOUS
<1>5. new # {} => Newest(new) \in NoticeIds
  BY <1>2, NewestFact
<1> HIDE DEF many, grouped, group, single, new, blinking
<1>6. /\ m1 \in Menus /\ m1.single = single /\ m1.group = group /\ m1.blinking = blinking
      /\ m1.inactive = m.inactive /\ m1.isOpen = m.isOpen /\ m1.blinks = m.blinks
      /\ m1.animation = m.animation /\ m1.attached = m.attached /\ m1.fullscreen = m.fullscreen
      /\ m1.timeouts = m.timeouts /\ m1.appBlinking = m.appBlinking /\ m1.lastUrgent = m.lastUrgent
  BY <1>2, <1>3, <1>4 DEF Menus
<1> HIDE DEF m1
<1>7. ButtonOK(m1)
  BY <1>6 DEF ButtonOK
<1>8. ButtonOK(m2) /\ SameItems(m1, m2)
  BY <1>7, BlinkFact
<1> HIDE DEF m2
<1>9. ButtonOK(m3) /\ SameItems(m1, m3)
  <2>1. CASE new = {}
    BY <1>7, <2>1 DEF SameItems
  <2>2. CASE new # {}
    <3> DEFINE i == Newest(new)
               z == [m2 EXCEPT !.blinkingId = i]
    <3>1. i \in NoticeIds
      BY <1>5, <2>2
    <3> HIDE DEF i
    <3>2. ButtonOK(z) /\ SameItems(m1, z)
      BY <1>8, <3>1 DEF ButtonOK, SameItems, Menus
    <3> QED
      BY <2>2, <3>2 DEF i
  <2> QED
    BY <2>1, <2>2
<1> HIDE DEF m3
<1>10. ButtonOK(y) /\ SameItems(m3, y)
  BY <1>1, <1>9, ContentFact
<1> HIDE DEF y
<1>11. /\ y.single = single /\ y.group = group /\ y.blinking = blinking /\ y.inactive = m.inactive
       /\ SameApps(m, y)
  BY <1>6, <1>9, <1>10 DEF SameItems, SameApps
<1>12. ItemsOK(o, y)
  <2>1. {i \in Opened(o) : o[i].category = "other"} \subseteq single
    BY <1>4
  <2>2. blinking \intersect Followed(o, y) =
          IF m.inactive THEN {} ELSE {i \in Followed(o, y) : ~o[i].ack}
    BY <1>4, <1>11 DEF Followed
  <2> QED
    BY <1>4, <1>11, <2>1, <2>2 DEF ItemsOK
<1> QED
  BY <1>10, <1>11, <1>12 DEF y

LEMMA RemoveItemFact ==
  ASSUME NEW m, ButtonOK(m), NEW o, o \in Opens, ItemsOK(o, m), NEW i \in NoticeIds,
         NEW list
  PROVE  LET y == RemoveItem(m, o, i, list)
             p == [o EXCEPT ![i] = None]
         IN ButtonOK(y) /\ p \in Opens /\ ItemsOK(p, y) /\ SameApps(m, y)
<1> DEFINE hit == i \in m.single \union m.group /\ m.blinkingId = i
           m0 == ResetIcon(m, TRUE)
           m1 == IF hit THEN [m0 EXCEPT !.blinkingId = None] ELSE m
           clear == m1.clear /\ Cardinality(Opened(o)) > ItemsLimit
           group == IF i \in m.group THEN {} ELSE m.group
           m2 == [m1 EXCEPT !.single = m.single \ {i}, !.blinking = m.blinking \ {i},
                            !.group = group, !.clear = clear]
           y == RemoveItem(m, o, i, list)
           p == [o EXCEPT ![i] = None]
<1>1. ButtonOK(m0) /\ SameItems(m, m0)
  BY ResetFact
<1> HIDE DEF m0
<1>2. ButtonOK(m1) /\ SameItems(m, m1)
  <2>1. CASE ~hit
    BY <2>1 DEF SameItems
  <2>2. CASE hit
    BY <1>1, <2>2 DEF ButtonOK, SameItems, Menus
  <2> QED
    BY <2>1, <2>2
<1>3. y = CheckContent(m2, list)
  <2> DEFINE z == [m1 EXCEPT !.single = @ \ {i}, !.blinking = @ \ {i},
                             !.group = IF i \in m.group THEN {} ELSE @,
                             !.clear = @ /\ Cardinality(Opened(o)) > ItemsLimit]
  <2>1. y = CheckContent(z, list)
    BY DEF RemoveItem, m0
  <2>2. m1 \in Menus
    BY <1>2 DEF ButtonOK
  <2> HIDE DEF m1
  <2>3. z = m2
    BY <1>2, <2>2 DEF SameItems, Menus
  <2> QED
    BY <2>1, <2>3
<1> HIDE DEF m1
<1>4. clear \in BOOLEAN /\ group \subseteq m.group
  BY <1>2 DEF ButtonOK, Menus
<1> HIDE DEF clear
<1>5. ButtonOK(m2) /\ m2.single = m.single \ {i} /\ m2.blinking = m.blinking \ {i} /\ m2.group = group
      /\ SameApps(m, m2)
  <2> HIDE DEF group
  <2>1. m \in Menus /\ m1 \in Menus
    BY <1>2 DEF ButtonOK
  <2>2. /\ m2 \in Menus /\ m2.single = m.single \ {i} /\ m2.blinking = m.blinking \ {i}
        /\ m2.group = group /\ m2.inactive = m1.inactive /\ m2.isOpen = m1.isOpen
        /\ m2.blinks = m1.blinks /\ m2.animation = m1.animation /\ m2.attached = m1.attached
        /\ m2.fullscreen = m1.fullscreen /\ m2.timeouts = m1.timeouts
        /\ m2.appBlinking = m1.appBlinking /\ m2.lastUrgent = m1.lastUrgent
    BY <1>4, <2>1 DEF Menus
  <2> HIDE DEF m2
  <2> QED
    BY <1>2, <2>2 DEF ButtonOK, SameItems, SameApps
<1> HIDE DEF m2
<1>6. ButtonOK(y) /\ SameItems(m2, y)
  BY <1>3, <1>5, ContentFact
<1> HIDE DEF y
<1>7. /\ y.single = m.single \ {i} /\ y.blinking = m.blinking \ {i} /\ y.group = group
      /\ y.inactive = m.inactive /\ SameApps(m, y)
  BY <1>5, <1>6 DEF SameItems, SameApps
<1>8. p \in Opens /\ Opened(p) = Opened(o) \ {i} /\ \A j \in NoticeIds \ {i} : p[j] = o[j]
  BY DEF Opens, Opened
<1> HIDE DEF p
<1>11. ItemsOK(p, y)
  <2>1. Opened(o) \subseteq NoticeIds /\ m.single \subseteq Opened(o)
    BY DEF Opened, ItemsOK
  <2>2. Followed(p, y) = Followed(o, m) \ {i}
    BY <1>7, <1>8, <2>1 DEF Followed
  <2>3. \A j \in Followed(p, y) : p[j] = o[j]
    BY <1>7, <1>8, <2>1 DEF Followed
  <2>4. y.blinking \intersect Followed(p, y) =
          IF y.inactive THEN {} ELSE {j \in Followed(p, y) : ~p[j].ack}
    BY <1>7, <2>2, <2>3 DEF ItemsOK
  <2>5. {j \in Opened(p) : p[j].category = "other"} \subseteq y.single
    BY <1>7, <1>8, <2>1 DEF ItemsOK
  <2> QED
    BY <1>7, <1>8, <2>4, <2>5 DEF ItemsOK
<1> QED
  BY <1>6, <1>7, <1>8, <1>11 DEF y, p

-----------------------------------------------------------------------------
(* Closing several notifications, one row after the other. *)
RowsState(m, s) ==
  s.open \in Opens /\ ButtonOK(s.menu) /\ ItemsOK(s.open, s.menu) /\ SameApps(m, s.menu)

LEMMA CloseRowFact ==
  ASSUME NEW m, NEW s, RowsState(m, s), NEW i \in NoticeIds
  PROVE  RowsState(m, CloseRow(s, i))
<1> DEFINE y == RemoveItem(s.menu, s.open, i, apps)
           p == [s.open EXCEPT ![i] = None]
<1>1. ButtonOK(y) /\ p \in Opens /\ ItemsOK(p, y) /\ SameApps(s.menu, y)
  BY RemoveItemFact DEF RowsState
<1>2. CloseRow(s, i) = [menu |-> y, open |-> p]
  BY DEF CloseRow
<1> HIDE DEF y, p
<1>3. SameApps(m, y)
  BY <1>1 DEF RowsState, SameApps
<1> QED
  BY <1>1, <1>2, <1>3 DEF RowsState

LEMMA CloseIdsFact ==
  ASSUME NEW m, NEW o, o \in Opens, ButtonOK(m), ItemsOK(o, m), NEW ids, NEW newestFirst
  PROVE  RowsState(m, CloseIds(m, o, ids, newestFirst))
<1> DEFINE L == MaxNotice
           start == [menu |-> m, open |-> o]
           id(n) == IF newestFirst THEN MaxNotice + 1 - n ELSE n
           Step(x, n) == IF id(n) \in ids THEN CloseRow(x, id(n)) ELSE x
           F(g, k) == [n \in 0 .. k |-> IF n = 0 THEN start ELSE Step(g[n - 1], n)]
           closed == CHOOSE g : g = F(g, L)
<1>1. CloseIds(m, o, ids, newestFirst) = closed[L]
  BY DEF CloseIds
<1>2. L \in Nat
  BY MenuAssumption
<1>9. \A n \in 1 .. L : id(n) \in NoticeIds
  BY <1>2 DEF NoticeIds
<1>3. RowsState(m, start)
  BY DEF RowsState, SameApps
<1>4. \A x : \A n \in 1 .. L : RowsState(m, x) => RowsState(m, Step(x, n))
  <2> SUFFICES ASSUME NEW x, NEW n \in 1 .. L, RowsState(m, x) PROVE RowsState(m, Step(x, n))
    OBVIOUS
  <2>1. RowsState(m, CloseRow(x, id(n)))
    BY <1>9, CloseRowFact
  <2> QED
    BY <2>1
<1> HIDE DEF L, start, id, Step
<1>5. \E g : g = F(g, L)
  <2> DEFINE S == {k \in Nat : \E g : g = F(g, k)}
  <2>1. 0 \in S
    <3> DEFINE g == [n \in 0 .. 0 |-> start]
    <3>1. g = F(g, 0)
      OBVIOUS
    <3> QED
      BY <3>1
  <2>2. ASSUME NEW k \in 0 .. L, k \in S PROVE k + 1 \in S
    <3>1. PICK g : g = F(g, k)
      BY <2>2
    <3> DEFINE h == [n \in 0 .. k + 1 |-> IF n = 0 THEN start ELSE Step(g[n - 1], n)]
    <3>2. \A n \in 0 .. k : h[n] = g[n]
      <4> TAKE n \in 0 .. k
      <4>1. n \in 0 .. k + 1 /\ h[n] = IF n = 0 THEN start ELSE Step(g[n - 1], n)
        BY <1>2
      <4>2. g[n] = IF n = 0 THEN start ELSE Step(g[n - 1], n)
        BY <3>1
      <4> QED
        BY <4>1, <4>2
    <3>3. h = F(h, k + 1)
      <4>1. \A n \in 0 .. k + 1 : n # 0 => h[n - 1] = g[n - 1]
        <5>1. ASSUME NEW n \in 0 .. k + 1, n # 0 PROVE n - 1 \in 0 .. k
          <6>1. k \in Nat
            BY <1>2
          <6>2. n \in Nat /\ n <= k + 1
            BY <6>1
          <6> QED
            BY <5>1, <6>1, <6>2
        <5> QED
          BY <3>2, <5>1
      <4> QED
        BY <4>1
    <3> HIDE DEF h
    <3>4. k + 1 \in Nat
      BY <1>2
    <3> QED
      BY <3>3, <3>4
  <2> HIDE DEF S
  <2>3. 0 .. L \subseteq S
    BY <1>2, <2>1, <2>2, StepsFact
  <2>4. L \in S
    BY <1>2, <2>3
  <2> QED
    BY <2>4 DEF S
<1>6. closed = F(closed, L)
  BY <1>5
<1> HIDE DEF closed
<1>7. 0 .. L \subseteq {n \in 0 .. L : RowsState(m, closed[n])}
  <2> DEFINE S == {n \in 0 .. L : RowsState(m, closed[n])}
  <2>1. 0 \in S
    <3>1. closed[0] = start /\ 0 \in 0 .. L
      BY <1>2, <1>6
    <3> QED
      BY <1>3, <3>1
  <2>2. ASSUME NEW n \in 0 .. L, n \in S, n < L PROVE n + 1 \in S
    <3>1. n + 1 \in 1 .. L /\ n + 1 \in 0 .. L /\ n + 1 # 0 /\ n + 1 - 1 = n
      BY <1>2, <2>2
    <3>2. closed[n + 1] = Step(closed[n], n + 1)
      BY <1>6, <3>1
    <3> QED
      BY <1>4, <2>2, <3>1, <3>2
  <2> HIDE DEF S
  <2>3. 0 .. L \subseteq S
    BY <1>2, <2>1, <2>2, StepsFact
  <2> QED
    BY <2>3 DEF S
<1>8. RowsState(m, closed[L])
  BY <1>2, <1>7
<1> QED
  BY <1>1, <1>8

(* What is acknowledged: no more than what blinks, and all that is followed. *)
LEMMA SeenFact ==
  ASSUME NEW o, o \in Opens, NEW m, ItemsOK(o, m), NEW y,
         y.single = m.single, y.group = m.group, y.inactive = m.inactive, y.blinking = {},
         NEW p, p = [i \in NoticeIds |-> IF i \in m.blinking /\ o[i] # None
                                         THEN [o[i] EXCEPT !.ack = TRUE] ELSE o[i]]
  PROVE  p \in Opens /\ ItemsOK(p, y)
<1>1. \A i \in NoticeIds : o[i] # None => o[i] \in Notices
  BY DEF Opens
<1>2. \A i \in NoticeIds : o[i] # None =>
        /\ p[i] # None /\ p[i] \in Notices
        /\ p[i].category = o[i].category /\ p[i].ack = (o[i].ack \/ i \in m.blinking)
  <2> SUFFICES ASSUME NEW i \in NoticeIds, o[i] # None
               PROVE  /\ p[i] # None /\ p[i] \in Notices
                      /\ p[i].category = o[i].category /\ p[i].ack = (o[i].ack \/ i \in m.blinking)
    OBVIOUS
  <2>1. CASE i \in m.blinking
    <3>1. p[i] = [o[i] EXCEPT !.ack = TRUE]
      BY <2>1
    <3>2. p[i] \in Notices
          /\ p[i].category = o[i].category /\ p[i].ack = TRUE
      BY <1>1, <3>1 DEF Notices
    <3>3. p[i] # None
      BY <3>2, MenuAssumption
    <3> QED
      BY <2>1, <3>2, <3>3
  <2>2. CASE i \notin m.blinking
    BY <1>1, <2>2 DEF Notices
  <2> QED
    BY <2>1, <2>2
<1>3. \A i \in NoticeIds : o[i] = None => p[i] = None
  OBVIOUS
<1>4. p \in Opens /\ Opened(p) = Opened(o)
  <2>1. \A i \in NoticeIds : p[i] \in Notices \union {None}
    BY <1>2, <1>3
  <2>2. p \in Opens
    BY <2>1 DEF Opens
  <2> QED
    BY <1>2, <1>3, <2>2 DEF Opened
<1>6. \A i \in Opened(o) : i \in NoticeIds /\ o[i] # None
  BY DEF Opened
<1>7. m.single \subseteq Opened(o)
  BY DEF ItemsOK
<1>8. {i \in Opened(p) : p[i].category = "other"} \subseteq y.single
  BY <1>2, <1>4, <1>6 DEF ItemsOK
<1>9. Followed(p, y) = Followed(o, m)
  BY <1>2, <1>6, <1>7 DEF Followed
<1>10. ~y.inactive => \A i \in Followed(p, y) : p[i].ack
  <2> SUFFICES ASSUME ~m.inactive, NEW i \in Followed(o, m) PROVE p[i].ack
    BY <1>9
  <2>1. o[i].ack \/ i \in m.blinking
    BY DEF ItemsOK
  <2>2. i \in NoticeIds /\ o[i] # None
    BY <1>6, <1>7 DEF Followed
  <2> QED
    BY <1>2, <2>1, <2>2
<1> QED
  BY <1>4, <1>8, <1>10 DEF ItemsOK

LEMMA NotifiedFact ==
  ASSUME NEW i \in NoticeIds, NEW category \in Categories, MenuIInv, Notified(i, category)
  PROVE  open' \in Opens /\ ButtonOK(sm') /\ ItemsOK(open', sm') /\ SameApps(sm, sm')
<1> DEFINE p == open'
           n == [category |-> category, ack |-> FALSE]
           m == [sm EXCEPT !.lastUrgent = None]
<1>1. open \in Opens /\ ButtonOK(sm) /\ ItemsOK(open, sm)
  BY DEF MenuIInv
<1>2. n \in Notices /\ n # None /\ n.category = category /\ ~n.ack
  <2>1. n \in Notices
    BY DEF Notices
  <2> QED
    BY <2>1, MenuAssumption
<1>3. p = [open EXCEPT ![i] = n]
  BY DEF Notified
<1> HIDE DEF n, p
<1>4. p \in Opens /\ p[i] = n /\ \A j \in NoticeIds \ {i} : p[j] = open[j]
  BY <1>1, <1>2, <1>3 DEF Opens
<1>5. Opened(p) = Opened(open) \union {i}
  BY <1>2, <1>4 DEF Opened
<1>8. CASE category # "system.note"
  <2>1. sm' = CreateMenu(m, p, apps)
    BY <1>8 DEF Notified, p
  <2>2. ButtonOK(m) /\ SameApps(sm, m)
    BY <1>1 DEF ButtonOK, Menus, SameApps
  <2> HIDE DEF m
  <2>3. ButtonOK(sm') /\ ItemsOK(p, sm') /\ SameApps(m, sm')
    BY <1>4, <2>1, <2>2, CreateFact
  <2>4. SameApps(sm, sm')
    BY <2>2, <2>3 DEF SameApps
  <2> QED
    BY <1>4, <2>3, <2>4 DEF p
<1>9. CASE category = "system.note"
  <2>1. sm' = sm
    BY <1>9 DEF Notified
  <2>2. open[i] # None => open[i].category = "system.note"
    BY <1>9 DEF Notified
  <2>3. sm.single \union sm.group \subseteq Opened(open) /\ Opened(open) \subseteq NoticeIds
        /\ \A j \in Opened(open) : open[j] # None
    BY <1>1 DEF ItemsOK, Opened
  <2>4. {j \in Opened(p) : p[j].category = "other"} \subseteq {j \in Opened(open) : open[j].category = "other"}
    BY <1>2, <1>4, <1>5, <1>9, <2>3
  <2>5. Followed(p, sm) = Followed(open, sm) /\ \A j \in Followed(p, sm) : p[j] = open[j]
    <3>1. \A j \in sm.single : j = i \/ p[j] = open[j]
      BY <1>4, <2>3
    <3>2. i \in sm.single => open[i].category = "system.note" /\ p[i].category = "system.note"
      BY <1>2, <1>4, <1>9, <2>2, <2>3
    <3> QED
      BY <3>1, <3>2 DEF Followed
  <2>6. ItemsOK(p, sm)
    <3>1. sm.single \union sm.group \subseteq Opened(p)
      BY <1>5, <2>3
    <3>2. {j \in Opened(p) : p[j].category = "other"} \subseteq sm.single
      BY <1>1, <2>4 DEF ItemsOK
    <3>3. {j \in Followed(p, sm) : ~p[j].ack} = {j \in Followed(open, sm) : ~open[j].ack}
      BY <2>5
    <3> QED
      BY <1>1, <2>5, <3>1, <3>2, <3>3 DEF ItemsOK
  <2> QED
    BY <1>1, <1>4, <2>1, <2>6 DEF p, SameApps
<1> QED
  BY <1>8, <1>9

LEMMA ActivateItemFact ==
  ASSUME MenuIInv, NEW ids, NEW newestFirst, ActivateItem(ids, newestFirst)
  PROVE  open' \in Opens /\ ButtonOK(sm') /\ ItemsOK(open', sm') /\ SameApps(sm, sm')
<1> DEFINE a == CloseIds(sm, open, ids, newestFirst)
           m == a.menu
           y == [m EXCEPT !.isOpen = FALSE, !.blinking = {}]
           p == [i \in NoticeIds |-> IF i \in m.blinking /\ a.open[i] # None
                                     THEN [a.open[i] EXCEPT !.ack = TRUE] ELSE a.open[i]]
<1>1. RowsState(sm, a)
  BY CloseIdsFact DEF MenuIInv
<1>2. sm' = y
  BY DEF ActivateItem
<1>3. open' = p
  <2>1. open' = [i \in NoticeIds |-> IF a.open[i] # None /\ i \in m.blinking
                                     THEN [a.open[i] EXCEPT !.ack = TRUE] ELSE a.open[i]]
    BY DEF ActivateItem
  <2> HIDE DEF a
  <2> QED
    BY <2>1
<1> HIDE DEF a
<1>4. a.open \in Opens /\ ButtonOK(m) /\ ItemsOK(a.open, m) /\ SameApps(sm, m)
  BY <1>1 DEF RowsState
<1> HIDE DEF m
<1>5. /\ ButtonOK(y) /\ y.single = m.single /\ y.group = m.group /\ y.inactive = m.inactive
      /\ y.blinking = {} /\ SameApps(sm, y)
  BY <1>4 DEF ButtonOK, Menus, SameApps
<1> HIDE DEF y
<1>6. p \in Opens /\ ItemsOK(p, y)
  BY <1>4, <1>5, SeenFact
<1> QED
  BY <1>2, <1>3, <1>5, <1>6

(* The menu closes: what blinked in it has been seen. *)
LEMMA PopdownFact ==
  ASSUME MenuIInv, sm.isOpen
  PROVE  LET d == Popdown(sm)
         IN d.open \in Opens /\ ButtonOK(d.menu) /\ ItemsOK(d.open, d.menu) /\ SameApps(sm, d.menu)
<1> DEFINE y == [sm EXCEPT !.isOpen = FALSE, !.blinking = {}]
           p == [i \in NoticeIds |-> IF i \in sm.blinking /\ open[i] # None
                                     THEN [open[i] EXCEPT !.ack = TRUE] ELSE open[i]]
<1>1. Popdown(sm) = [menu |-> y, open |-> p]
  <2>1. sm \in Menus
    BY DEF MenuIInv, ButtonOK
  <2> QED
    BY <2>1 DEF Popdown, Menus
<1>2. open \in Opens /\ ButtonOK(sm) /\ ItemsOK(open, sm)
  BY DEF MenuIInv
<1>3. /\ ButtonOK(y) /\ y.single = sm.single /\ y.group = sm.group /\ y.inactive = sm.inactive
      /\ y.blinking = {} /\ SameApps(sm, y)
  BY <1>2 DEF ButtonOK, Menus, SameApps
<1> HIDE DEF y
<1>4. p \in Opens /\ ItemsOK(p, y)
  BY <1>2, <1>3, SeenFact
<1> HIDE DEF p
<1> QED
  BY <1>1, <1>3, <1>4

LEMMA ClearAllFact ==
  ASSUME MenuIInv, ClearAll
  PROVE  open' \in Opens /\ ButtonOK(sm') /\ ItemsOK(open', sm') /\ SameApps(sm, sm')
<1> DEFINE d == Popdown(sm)
           a == CloseIds(d.menu, d.open, Opened(open), TRUE)
           m == a.menu
           y == [m EXCEPT !.clear = FALSE]
<1>1. d.open \in Opens /\ ButtonOK(d.menu) /\ ItemsOK(d.open, d.menu) /\ SameApps(sm, d.menu)
  BY PopdownFact DEF ClearAll
<1>2. sm' = y /\ open' = a.open
  BY DEF ClearAll
<1> HIDE DEF d
<1>4. RowsState(d.menu, a)
  BY <1>1, CloseIdsFact
<1> HIDE DEF a
<1>5. a.open \in Opens /\ ButtonOK(m) /\ ItemsOK(a.open, m) /\ SameApps(sm, m)
  BY <1>1, <1>4 DEF RowsState, SameApps
<1> HIDE DEF m
<1>6. ButtonOK(y) /\ SameItems(m, y)
  BY <1>5 DEF ButtonOK, Menus, SameItems
<1> HIDE DEF y
<1>7. ItemsOK(a.open, y) /\ SameApps(sm, y)
  BY <1>5, <1>6 DEF ItemsOK, SameItems, SameApps, Followed
<1> QED
  BY <1>2, <1>5, <1>6, <1>7

(* The items stay. *)
LEMMA SameItemsFact ==
  ASSUME NEW o, NEW m, NEW y, ItemsOK(o, m), SameNotices(m, y)
  PROVE  ItemsOK(o, y)
BY DEF ItemsOK, SameNotices, Followed

LEMMA OpenMenuFact == ASSUME MenuIInv, OpenMenu PROVE ButtonOK(sm') /\ SameItems(sm, sm')
<1> DEFINE u == ResetIcon(sm, TRUE)
           m == ResetIcon([sm EXCEPT !.isOpen = TRUE], TRUE)
           c == CheckContent(m, apps)
<1>1. ButtonOK(u) /\ SameItems(sm, u) /\ ~u.blinks
  BY ResetFact DEF MenuIInv
<1>2. m = [u EXCEPT !.isOpen = TRUE]
  BY DEF MenuIInv, ButtonOK, Menus, ResetIcon
<1> HIDE DEF u, m
<1>3. ButtonOK(m) /\ SameItems(sm, m)
  BY <1>1, <1>2 DEF ButtonOK, Menus, SameItems
<1>4. ButtonOK(c) /\ SameItems(m, c)
  BY <1>3, ContentFact
<1>5. sm' = Attach(c)
  BY DEF OpenMenu, m
<1> HIDE DEF c
<1>6. ButtonOK(Attach(c)) /\ SameItems(c, Attach(c))
  BY <1>4, AttachFact
<1> QED
  BY <1>3, <1>4, <1>5, <1>6 DEF SameItems

LEMMA FullscreenFact ==
  ASSUME MenuIInv, NEW on \in BOOLEAN, Fullscreen(on)
  PROVE  ButtonOK(sm') /\ SameItems(sm, sm')
<1> DEFINE m == [sm EXCEPT !.fullscreen = on]
           slot == IF sm.lastUrgent \in Entries(apps) THEN At(apps, sm.lastUrgent) - 1 ELSE Len(apps)
           m1 == IF ~HasItems(m) THEN m ELSE IF on /\ m.blinks THEN Detach(m) ELSE Attach(m)
           a == Attach(m1)
           m2 == IF slot <= SwitcherSlots /\ m.blinkingId = None THEN ResetIcon(a, TRUE) ELSE a
<1>1. sm' = IF on THEN m1 ELSE m2
  BY DEF Fullscreen
<1> HIDE DEF slot
<1>2. ButtonOK(sm) /\ sm \in Menus
  BY DEF MenuIInv, ButtonOK
<1>3. CASE on
  <2>1. ButtonOK(m) /\ SameItems(sm, m) /\ m.fullscreen
    BY <1>2, <1>3 DEF ButtonOK, Menus, SameItems
  <2> HIDE DEF m
  <2>2. ButtonOK(Attach(m)) /\ SameItems(m, Attach(m))
    BY <2>1, AttachFact
  <2>3. ButtonOK(Detach(m)) /\ SameItems(m, Detach(m))
    BY <2>1, DetachFact
  <2>4. ButtonOK(m1) /\ SameItems(sm, m1)
    BY <2>1, <2>2, <2>3 DEF SameItems
  <2> QED
    BY <1>1, <1>3, <2>4
<1>4. CASE ~on
  <2>1. m1 = m \/ m1 = Attach(m)
    BY <1>4
  <2>2. a = [sm EXCEPT !.fullscreen = FALSE, !.attached = TRUE]
    BY <1>2, <1>4, <2>1 DEF Attach, Menus
  <2> HIDE DEF a
  <2>3. ButtonOK(a) /\ SameItems(sm, a)
    BY <1>2, <2>2 DEF ButtonOK, Menus, SameItems
  <2>4. ButtonOK(ResetIcon(a, TRUE)) /\ SameItems(a, ResetIcon(a, TRUE))
    BY <2>3, ResetFact
  <2>5. ButtonOK(m2) /\ SameItems(sm, m2)
    BY <2>3, <2>4 DEF SameItems
  <2> QED
    BY <1>1, <1>4, <2>5
<1> QED
  BY <1>3, <1>4

(* The applications stay as they are, and so does what the menu tells of them. *)
LEMMA SameAppsFact ==
  ASSUME AppsOK, SameApps(sm, sm'), UNCHANGED entryVars
  PROVE  AppsOK'
<1>1. /\ apps' = apps /\ urgent' = urgent /\ ignored' = ignored /\ asleep' = asleep
      /\ sm'.appBlinking = sm.appBlinking /\ sm'.inactive = sm.inactive
      /\ sm'.lastUrgent \in {sm.lastUrgent, None}
  BY DEF SameApps, entryVars
<1>2. CallsBlink'
  BY <1>1 DEF AppsOK, CallsBlink
<1>3. UrgentHere'
  BY <1>1 DEF AppsOK, UrgentHere
<1> QED
  BY <1>1, <1>2, <1>3 DEF AppsOK

LEMMA AppStartedFact ==
  ASSUME MenuIInv, NEW a \in AppEntries, NEW hint \in BOOLEAN, AppStarted(a, hint)
  PROVE  ButtonOK(sm') /\ SameNotices(sm, sm') /\ AppsOK'
<1> DEFINE m == [sm EXCEPT !.appBlinking = urgent']
<1>1. /\ apps \in Seq(AppEntries) /\ Once(apps) /\ urgent \subseteq Entries(apps)
      /\ ignored \subseteq AppEntries /\ asleep \subseteq AppEntries /\ UrgentHere /\ ButtonOK(sm)
  BY DEF MenuIInv, AppsOK
<1>2. /\ apps' = <<a>> \o apps /\ urgent' \subseteq urgent \union {a} /\ ignored' = ignored
      /\ asleep' = asleep /\ sm' = CheckContent(m, apps') /\ a \notin Entries(apps)
  BY DEF AppStarted
<1>3. apps' \in Seq(AppEntries) /\ Once(apps') /\ Entries(apps') = Entries(apps) \union {a}
  BY <1>1, <1>2, PrependFact
<1>4. Entries(apps) \subseteq AppEntries
  BY <1>1 DEF Entries
<1>5. urgent' \subseteq AppEntries
  BY <1>1, <1>2, <1>4
<1>6. ButtonOK(m) /\ SameNotices(sm, m) /\ m.appBlinking = urgent' /\ m.lastUrgent = sm.lastUrgent
  BY <1>1, <1>5 DEF ButtonOK, Menus, SameNotices
<1> HIDE DEF m
<1>7. ButtonOK(sm') /\ SameItems(m, sm')
  BY <1>2, <1>6, ContentFact
<1>8. SameNotices(sm, sm') /\ sm'.appBlinking = urgent' /\ sm'.lastUrgent \in {sm.lastUrgent, None}
  BY <1>6, <1>7 DEF SameItems, SameNotices
<1>9. CallsBlink' /\ UrgentHere'
  BY <1>1, <1>3, <1>8 DEF CallsBlink, UrgentHere
<1> QED
  BY <1>1, <1>2, <1>3, <1>7, <1>8, <1>9 DEF AppsOK

LEMMA AppEndedFact ==
  ASSUME MenuIInv, NEW a \in AppEntries, AppEnded(a)
  PROVE  ButtonOK(sm') /\ SameNotices(sm, sm') /\ AppsOK'
<1> DEFINE w == [sm EXCEPT !.appBlinking = sm.appBlinking \ {a}]
           u == ResetIcon(w, TRUE)
           m == IF w.lastUrgent = a THEN [u EXCEPT !.lastUrgent = None] ELSE w
<1>1. /\ apps \in Seq(AppEntries) /\ Once(apps) /\ urgent \subseteq Entries(apps)
      /\ ignored \subseteq AppEntries /\ asleep \subseteq AppEntries
      /\ CallsBlink /\ UrgentHere /\ ButtonOK(sm) /\ sm \in Menus
  BY DEF MenuIInv, AppsOK, ButtonOK
<1>2. /\ apps' = TakenOut(apps, a) /\ urgent' = urgent \ {a} /\ ignored' = ignored \ {a}
      /\ asleep' = asleep \ {a} /\ sm' = CheckContent(m, apps')
  BY DEF AppEnded
<1>3. apps' \in Seq(AppEntries) /\ Once(apps') /\ Entries(apps') = Entries(apps) \ {a}
  BY <1>1, <1>2, TakenOutFact
<1>4. ButtonOK(w) /\ SameNotices(sm, w) /\ w.appBlinking = sm.appBlinking \ {a}
      /\ w.lastUrgent = sm.lastUrgent
  BY <1>1 DEF ButtonOK, Menus, SameNotices
<1> HIDE DEF w
<1>5. ButtonOK(u) /\ SameItems(w, u)
  BY <1>4, ResetFact
<1> HIDE DEF u
<1>6. ButtonOK(m) /\ SameItems(w, m) /\ m.lastUrgent # a
  <2>1. a # None
    BY MenuAssumption
  <2> QED
    BY <1>4, <1>5, <2>1 DEF ButtonOK, Menus, SameItems
<1> HIDE DEF m
<1>7. ButtonOK(sm') /\ SameItems(m, sm')
  BY <1>2, <1>6, ContentFact
<1>8. /\ SameNotices(sm, sm') /\ sm'.appBlinking = sm.appBlinking \ {a}
      /\ sm'.lastUrgent \in {sm.lastUrgent, None} \ {a}
  <2>1. a # None
    BY MenuAssumption
  <2> QED
    BY <1>4, <1>6, <1>7, <2>1 DEF SameItems, SameNotices
<1>9. CallsBlink'
  BY <1>1, <1>2, <1>8 DEF CallsBlink, SameNotices
<1>10. UrgentHere'
  BY <1>1, <1>3, <1>8 DEF UrgentHere
<1> QED
  BY <1>1, <1>2, <1>3, <1>7, <1>8, <1>9, <1>10 DEF AppsOK

LEMMA InfoChangedFact ==
  ASSUME ButtonOK(sm), NEW a \in AppEntries, NEW hint \in BOOLEAN, NEW ignores \in BOOLEAN
  PROVE  LET y == InfoChanged(sm, a, hint, ignores)
         IN /\ ButtonOK(y) /\ SameNotices(sm, y)
            /\ sm.appBlinking \ {a} \subseteq y.appBlinking
            /\ hint /\ ~ignores /\ ~sm.inactive => a \in y.appBlinking
            /\ y.lastUrgent \in {sm.lastUrgent, None, a}
<1> DEFINE y == InfoChanged(sm, a, hint, ignores)
           wanted == hint /\ ~ignores
           hidden == At(apps, a) > SwitcherSlots \/ sm.fullscreen
           u == ResetIcon(sm, TRUE)
           m1 == IF ~hint /\ sm.lastUrgent = a THEN [u EXCEPT !.lastUrgent = None] ELSE sm
           v == StartBlinking(m1)
           m2 == IF wanted /\ hidden THEN [v EXCEPT !.lastUrgent = a] ELSE m1
           blinking == IF ~wanted THEN m2.appBlinking \ {a}
                       ELSE IF sm.inactive THEN m2.appBlinking ELSE m2.appBlinking \union {a}
           m3 == [m2 EXCEPT !.appBlinking = blinking]
<1>1. y = IF ~hint /\ ignores THEN sm ELSE IF m3.fullscreen /\ m3.blinks THEN Detach(m3) ELSE m3
  <2> DEFINE z == [m2 EXCEPT !.appBlinking = IF ~wanted THEN @ \ {a}
                                             ELSE IF sm.inactive THEN @ ELSE @ \union {a}]
  <2>1. y = IF ~hint /\ ignores THEN sm ELSE IF z.fullscreen /\ z.blinks THEN Detach(z) ELSE z
    BY DEF InfoChanged
  <2> HIDE DEF m2, wanted
  <2>2. z = m3
    OBVIOUS
  <2> QED
    BY <2>1, <2>2
<1> HIDE DEF y, hidden
<1>2. sm \in Menus
  BY DEF ButtonOK
<1>3. ButtonOK(u) /\ SameItems(sm, u)
  BY ResetFact
<1> HIDE DEF u
<1>4. /\ ButtonOK(m1) /\ SameNotices(sm, m1) /\ m1.appBlinking = sm.appBlinking
      /\ m1.lastUrgent \in {sm.lastUrgent, None}
  BY <1>2, <1>3 DEF ButtonOK, Menus, SameItems, SameNotices
<1> HIDE DEF m1
<1>5. ButtonOK(v) /\ SameItems(m1, v)
  BY <1>4, BlinkFact
<1> HIDE DEF v
<1>6. /\ ButtonOK(m2) /\ SameNotices(sm, m2) /\ m2.appBlinking = sm.appBlinking
      /\ m2.lastUrgent \in {sm.lastUrgent, None, a}
  <2>1. CASE wanted /\ hidden
    <3>1. v \in Menus /\ m2 = [v EXCEPT !.lastUrgent = a]
      BY <1>5, <2>1 DEF ButtonOK
    <3> HIDE DEF m2, wanted
    <3> QED
      BY <1>4, <1>5, <3>1 DEF ButtonOK, Menus, SameItems, SameNotices
  <2>2. CASE ~(wanted /\ hidden)
    BY <1>4, <2>2
  <2> QED
    BY <2>1, <2>2
<1> HIDE DEF m2
<1>7. /\ blinking \subseteq AppEntries /\ sm.appBlinking \ {a} \subseteq blinking
      /\ wanted /\ ~sm.inactive => a \in blinking
  BY <1>2, <1>6 DEF Menus
<1> HIDE DEF blinking, wanted
<1>8. /\ ButtonOK(m3) /\ SameNotices(sm, m3) /\ m3.appBlinking = blinking
      /\ m3.lastUrgent \in {sm.lastUrgent, None, a}
  BY <1>6, <1>7 DEF ButtonOK, Menus, SameNotices
<1> HIDE DEF m3
<1>9. CASE y = sm /\ ~hint /\ ignores
  BY <1>9 DEF SameNotices, y
<1>10. CASE y = m3
  BY <1>7, <1>8, <1>10 DEF y, wanted
<1>11. CASE y = Detach(m3) /\ m3.fullscreen
  <2>1. ButtonOK(y) /\ SameItems(m3, y)
    BY <1>8, <1>11, DetachFact
  <2>2. /\ SameNotices(sm, y) /\ y.appBlinking = blinking
        /\ y.lastUrgent \in {sm.lastUrgent, None, a}
    BY <1>8, <2>1 DEF SameItems, SameNotices
  <2> QED
    BY <1>7, <2>1, <2>2 DEF y, wanted
<1> QED
  BY <1>1, <1>9, <1>10, <1>11

LEMMA WindowChangedFact ==
  ASSUME MenuIInv, NEW a \in AppEntries, NEW hint \in BOOLEAN, NEW wakes \in BOOLEAN,
         NEW buttonsFirst \in BOOLEAN, WindowChanged(a, hint, wakes, buttonsFirst)
  PROVE  ButtonOK(sm') /\ SameNotices(sm, sm') /\ AppsOK'
<1> DEFINE ignores == a \in ignored /\ (hint \/ ~buttonsFirst)
           y == InfoChanged(sm, a, hint, ignores)
<1>1. /\ apps \in Seq(AppEntries) /\ Once(apps) /\ urgent \subseteq Entries(apps)
      /\ ignored \subseteq AppEntries /\ asleep \subseteq AppEntries
      /\ CallsBlink /\ UrgentHere /\ ButtonOK(sm)
  BY DEF MenuIInv, AppsOK
<1>2. /\ a \in Entries(apps) /\ apps' = apps
      /\ urgent' = IF hint THEN urgent \union {a} ELSE urgent \ {a}
      /\ ignored' = IF hint THEN ignored ELSE ignored \ {a}
      /\ asleep' \subseteq asleep /\ asleep \subseteq asleep' \union {a}
      /\ sm' = IF a \in asleep' THEN sm ELSE y
  BY DEF WindowChanged
<1>3. ignores \in BOOLEAN /\ (hint => (ignores <=> a \in ignored))
  OBVIOUS
<1> HIDE DEF ignores
<1>4. /\ ButtonOK(y) /\ SameNotices(sm, y) /\ sm.appBlinking \ {a} \subseteq y.appBlinking
      /\ hint /\ ~ignores /\ ~sm.inactive => a \in y.appBlinking
      /\ y.lastUrgent \in {sm.lastUrgent, None, a}
  BY <1>1, <1>3, InfoChangedFact
<1> HIDE DEF y
<1>5. /\ ButtonOK(sm') /\ SameNotices(sm, sm') /\ sm'.lastUrgent \in {sm.lastUrgent, None, a}
      /\ sm.appBlinking \ {a} \subseteq sm'.appBlinking
      /\ hint /\ ~ignores /\ ~sm.inactive /\ a \notin asleep' => a \in sm'.appBlinking
  BY <1>1, <1>2, <1>4 DEF SameNotices
<1>6. CallsBlink'
  <2> SUFFICES ASSUME ~sm'.inactive, NEW b \in (urgent' \ ignored') \ asleep'
               PROVE  b \in sm'.appBlinking
    BY DEF CallsBlink
  <2>1. ~sm.inactive
    BY <1>5 DEF SameNotices
  <2>2. CASE b = a
    BY <1>2, <1>3, <1>5, <2>1, <2>2
  <2>3. CASE b # a
    <3>1. b \in (urgent \ ignored) \ asleep
      BY <1>2, <2>3
    <3> QED
      BY <1>1, <1>5, <2>1, <2>3, <3>1 DEF CallsBlink
  <2> QED
    BY <2>2, <2>3
<1>7. UrgentHere'
  BY <1>1, <1>2, <1>5 DEF UrgentHere
<1>8. urgent' \subseteq Entries(apps') /\ ignored' \subseteq AppEntries /\ asleep' \subseteq AppEntries
  BY <1>1, <1>2
<1> QED
  BY <1>1, <1>2, <1>5, <1>6, <1>7, <1>8 DEF AppsOK

LEMMA DisplayFact ==
  ASSUME MenuIInv, NEW off \in BOOLEAN, DisplayState(off)
  PROVE  ButtonOK(sm') /\ ItemsOK(open, sm') /\ AppsOK'
<1> DEFINE blinking == IF off THEN {} ELSE {i \in sm.single : ~open[i].ack}
           calling == Calling([sm EXCEPT !.inactive = off])
           m == [sm EXCEPT !.inactive = off, !.appBlinking = calling, !.blinking = blinking]
<1>1. /\ off # sm.inactive /\ UNCHANGED entryVars
      /\ sm' = IF ~off /\ m.animation THEN StartBlinking(m) ELSE ResetIcon(m, FALSE)
  BY DEF DisplayState
<1>2. ButtonOK(sm) /\ sm \in Menus /\ ItemsOK(open, sm) /\ AppsOK
  BY DEF MenuIInv, ButtonOK
<1>3. /\ blinking \subseteq sm.single
      /\ blinking \intersect Followed(open, sm) =
           IF off THEN {} ELSE {i \in Followed(open, sm) : ~open[i].ack}
  BY DEF Followed
<1>4. calling = IF off THEN {} ELSE {a \in Entries(apps) : a \in urgent \ ignored}
  BY <1>2 DEF Calling, Menus
<1> HIDE DEF blinking, calling
<1>5. calling \subseteq AppEntries
  BY <1>2, <1>4 DEF AppsOK, Entries
<1>6. /\ m \in Menus /\ m.single = sm.single /\ m.group = sm.group /\ m.blinking = blinking
      /\ m.inactive = off /\ m.isOpen = sm.isOpen /\ m.blinks = sm.blinks /\ m.attached = sm.attached
      /\ m.animation = sm.animation /\ m.fullscreen = sm.fullscreen /\ m.timeouts = sm.timeouts
      /\ m.appBlinking = calling /\ m.lastUrgent = sm.lastUrgent
  BY <1>2, <1>3, <1>5 DEF Menus
<1>7. ItemsOK(open, m)
  BY <1>2, <1>3, <1>6 DEF ItemsOK, Followed
<1>8. ButtonOK(sm') /\ SameItems(m, sm')
  <2>1. CASE ~off
    <3>1. ButtonOK(m)
      BY <1>1, <1>2, <1>6, <2>1 DEF ButtonOK, Menus
    <3> HIDE DEF m
    <3>2. ButtonOK(StartBlinking(m)) /\ SameItems(m, StartBlinking(m))
      BY <3>1, BlinkFact
    <3>3. ButtonOK(ResetIcon(m, FALSE)) /\ SameItems(m, ResetIcon(m, FALSE))
      BY <3>1, ResetFact
    <3> QED
      BY <1>1, <3>2, <3>3
  <2>2. CASE off
    <3> DEFINE y == ResetIcon(m, FALSE)
    <3>1. sm' = y
      BY <1>1, <2>2
    <3> HIDE DEF m
    <3>2. y = [m EXCEPT !.blinks = FALSE]
      BY <1>6 DEF ResetIcon, Menus
    <3> HIDE DEF y
    <3>3. ButtonOK(y) /\ SameItems(m, y)
      BY <1>2, <1>6, <3>2 DEF ButtonOK, SameItems, Menus
    <3> QED
      BY <3>1, <3>3
  <2> QED
    BY <2>1, <2>2
<1> HIDE DEF m
<1>9. ItemsOK(open, sm')
  BY <1>7, <1>8, SameItemsFact DEF SameItems, SameNotices
<1>10. sm'.appBlinking = calling /\ sm'.inactive = off /\ sm'.lastUrgent \in {sm.lastUrgent, None}
  BY <1>6, <1>8 DEF SameItems
<1>11. AppsOK'
  <2>1. CallsBlink'
    BY <1>1, <1>2, <1>4, <1>10 DEF entryVars, AppsOK, CallsBlink
  <2>2. UrgentHere'
    BY <1>1, <1>2, <1>10 DEF entryVars, AppsOK, UrgentHere
  <2> QED
    BY <1>1, <1>2, <2>1, <2>2 DEF entryVars, AppsOK
<1> QED
  BY <1>8, <1>9, <1>11

LEMMA SomeChangedFact ==
  ASSUME MenuIInv, SomeChanged
  PROVE  ButtonOK(sm') /\ SameNotices(sm, sm') /\ AppsOK'
<1> DEFINE calling == Calling(sm)
<1>1. sm' = [sm EXCEPT !.appBlinking = calling] /\ UNCHANGED entryVars
  BY DEF SomeChanged
<1>2. ButtonOK(sm) /\ sm \in Menus /\ AppsOK
  BY DEF MenuIInv, ButtonOK
<1>3. calling = IF sm.inactive THEN {} ELSE {a \in Entries(apps) : a \in urgent \ ignored}
  BY DEF Calling
<1> HIDE DEF calling
<1>4. calling \subseteq AppEntries
  BY <1>2, <1>3 DEF AppsOK, Entries
<1>5. /\ ButtonOK(sm') /\ SameNotices(sm, sm') /\ sm'.appBlinking = calling
      /\ sm'.lastUrgent = sm.lastUrgent
  BY <1>1, <1>2, <1>4 DEF ButtonOK, Menus, SameNotices
<1>6. CallsBlink'
  BY <1>1, <1>2, <1>3, <1>5 DEF entryVars, AppsOK, CallsBlink, SameNotices
<1>7. UrgentHere'
  BY <1>1, <1>2, <1>5 DEF entryVars, AppsOK, UrgentHere
<1> QED
  BY <1>1, <1>2, <1>5, <1>6, <1>7 DEF entryVars, AppsOK

LEMMA MenuInitFact == MenuInit => MenuIInv
<1> SUFFICES ASSUME MenuInit PROVE MenuIInv
  OBVIOUS
<1>1. open \in Opens
  BY DEF MenuInit, Opens
<1>2. ButtonOK(sm)
  BY DEF MenuInit, ButtonOK, Menus
<1>3. ItemsOK(open, sm)
  BY DEF MenuInit, ItemsOK, Followed, Opened
<1>4. AppsOK
  <2>1. apps = <<>> /\ urgent = {} /\ ignored = {} /\ asleep = {} /\ sm.lastUrgent = None
    BY DEF MenuInit
  <2> QED
    BY <2>1 DEF AppsOK, Once, Entries, CallsBlink, UrgentHere
<1> QED
  BY <1>1, <1>2, <1>3, <1>4, MenuAssumption DEF MenuInit, MenuIInv

LEMMA MenuStepFact == MenuIInv /\ [MenuNext]_menuVars => MenuIInv'
<1> SUFFICES ASSUME MenuIInv, [MenuNext]_menuVars PROVE MenuIInv'
  OBVIOUS
<1>1. CASE UNCHANGED menuVars
  <2>1. UNCHANGED <<open, apps, urgent, ignored, asleep, sm>>
    BY <1>1 DEF menuVars, entryVars
  <2> QED
    BY <2>1 DEF MenuIInv, AppsOK, CallsBlink, UrgentHere
<1> SUFFICES ASSUME MenuNext PROVE MenuIInv'
  BY <1>1
<1> DEFINE Good == open' \in Opens /\ ButtonOK(sm') /\ ItemsOK(open', sm')
<1>2. /\ open \in Opens /\ ButtonOK(sm) /\ ItemsOK(open, sm) /\ AppsOK
  BY DEF MenuIInv
<1>3. Good /\ AppsOK' => MenuIInv'
  BY DEF MenuNext, MenuIInv
<1>4. open' = open /\ ButtonOK(sm') /\ SameNotices(sm, sm') => Good
  BY <1>2, SameItemsFact
<1> HIDE DEF Good
<1>5. UNCHANGED entryVars /\ Good /\ SameApps(sm, sm') => MenuIInv'
  BY <1>2, <1>3, SameAppsFact
<1>6. UNCHANGED <<open, entryVars>> /\ ButtonOK(sm') /\ SameItems(sm, sm') => MenuIInv'
  <2> SUFFICES ASSUME UNCHANGED <<open, entryVars>>, ButtonOK(sm'), SameItems(sm, sm')
               PROVE  MenuIInv'
    OBVIOUS
  <2>1. SameNotices(sm, sm') /\ SameApps(sm, sm')
    BY DEF SameItems, SameNotices, SameApps
  <2> QED
    BY <1>4, <1>5, <2>1
<1>7. ASSUME NEW i \in NoticeIds, NEW category \in Categories, Notified(i, category) PROVE MenuIInv'
  <2>1. Good /\ SameApps(sm, sm')
    BY <1>7, NotifiedFact DEF Good
  <2> QED
    BY <1>5, <1>7, <2>1 DEF Notified
<1>8. ASSUME NEW i \in NoticeIds, NotificationGone(i) PROVE MenuIInv'
  <2>1. Good /\ SameApps(sm, sm')
    BY <1>2, <1>8, RemoveItemFact DEF Good, NotificationGone
  <2> QED
    BY <1>5, <1>8, <2>1 DEF NotificationGone
<1>9. ASSUME NEW i \in NoticeIds, ActivateSingle(i) PROVE MenuIInv'
  <2>1. ActivateItem({i}, TRUE)
    BY <1>9 DEF ActivateSingle
  <2>2. Good /\ SameApps(sm, sm')
    BY <2>1, ActivateItemFact DEF Good
  <2> QED
    BY <1>5, <2>1, <2>2 DEF ActivateItem
<1>10. CASE ActivateGroup
  <2>1. ActivateItem(sm.group, FALSE)
    BY <1>10 DEF ActivateGroup
  <2>2. Good /\ SameApps(sm, sm')
    BY <2>1, ActivateItemFact DEF Good
  <2> QED
    BY <1>5, <2>1, <2>2 DEF ActivateItem
<1>11. CASE ClearAll
  <2>1. Good /\ SameApps(sm, sm')
    BY <1>11, ClearAllFact DEF Good
  <2> QED
    BY <1>5, <1>11, <2>1 DEF ClearAll
<1>12. CASE OpenMenu
  BY <1>6, <1>12, OpenMenuFact DEF OpenMenu
<1>13. CASE CloseMenu
  <2>1. Good /\ SameApps(sm, sm')
    BY <1>13, PopdownFact DEF Good, CloseMenu
  <2> QED
    BY <1>5, <1>13, <2>1 DEF CloseMenu
<1>14. ASSUME NEW a \in AppEntries, NEW hint \in BOOLEAN, AppStarted(a, hint) PROVE MenuIInv'
  BY <1>3, <1>4, <1>14, AppStartedFact DEF AppStarted
<1>15. ASSUME NEW a \in AppEntries, AppEnded(a) PROVE MenuIInv'
  BY <1>3, <1>4, <1>15, AppEndedFact DEF AppEnded
<1>16. ASSUME NEW a \in AppEntries, NEW hint \in BOOLEAN, NEW wakes \in BOOLEAN,
              NEW buttonsFirst \in BOOLEAN, WindowChanged(a, hint, wakes, buttonsFirst)
       PROVE  MenuIInv'
  BY <1>3, <1>4, <1>16, WindowChangedFact DEF WindowChanged
<1>17. CASE SomeChanged
  BY <1>3, <1>4, <1>17, SomeChangedFact DEF SomeChanged
<1>18. ASSUME NEW a \in AppEntries, Ignore(a) \/ Hibernate(a) PROVE MenuIInv'
  <2>1. /\ UNCHANGED <<open, apps, urgent, sm>>
        /\ ignored \subseteq ignored' /\ ignored' \subseteq ignored \union {a}
        /\ asleep \subseteq asleep' /\ asleep' \subseteq asleep \union {a}
    BY <1>18 DEF Ignore, Hibernate
  <2>2. CallsBlink' /\ UrgentHere'
    BY <1>2, <2>1 DEF AppsOK, CallsBlink, UrgentHere
  <2>3. ignored' \subseteq AppEntries /\ asleep' \subseteq AppEntries
    BY <1>2, <2>1 DEF AppsOK
  <2>4. AppsOK'
    BY <1>2, <2>1, <2>2, <2>3 DEF AppsOK
  <2>5. Good
    BY <1>2, <2>1 DEF Good
  <2> QED
    BY <1>3, <2>4, <2>5
<1>19. ASSUME NEW on \in BOOLEAN, Fullscreen(on) PROVE MenuIInv'
  BY <1>6, <1>19, FullscreenFact DEF Fullscreen
<1>20. ASSUME NEW off \in BOOLEAN, DisplayState(off) PROVE MenuIInv'
  <2>1. Good /\ AppsOK'
    BY <1>2, <1>20, DisplayFact DEF Good, DisplayState
  <2> QED
    BY <1>3, <2>1
<1>21. CASE AutoAttach
  <2> DEFINE y == Attach(sm)
             t == y.timeouts - 1
  <2>1. ButtonOK(y) /\ SameItems(sm, y) /\ y.attached /\ y.timeouts = sm.timeouts
    BY <1>2, AttachFact DEF Attach, ButtonOK, Menus
  <2>2. sm' = [y EXCEPT !.timeouts = t] /\ sm.timeouts > 0
    BY <1>21 DEF AutoAttach
  <2> HIDE DEF y
  <2>3. t \in Nat
    BY <1>2, <2>1, <2>2 DEF ButtonOK, Menus
  <2> HIDE DEF t
  <2>4. ButtonOK(sm') /\ SameItems(sm, sm')
    BY <2>1, <2>2, <2>3 DEF ButtonOK, Menus, SameItems
  <2> QED
    BY <1>6, <1>21, <2>4 DEF AutoAttach
<1> QED
  BY <1>7, <1>8, <1>9, <1>10, <1>11, <1>12, <1>13, <1>14, <1>15, <1>16, <1>17, <1>18, <1>19,
     <1>20, <1>21
     DEF MenuNext, MenuStep

(* HDSwitcherMenu: whatever notifications, applications and the user do, and *)
(* in whatever order, each item stands for notifications that are open, what *)
(* has no group is listed, items blink until they were seen, those of the    *)
(* applications that want attention blink, no icon is that of a window that  *)
(* has gone, the button has what it shows, and one out of the panel comes back. *)
THEOREM MenuSafe == MenuSpec => []MenuInv
<1>1. MenuSpec => []MenuIInv
  BY MenuInitFact, MenuStepFact, PTL DEF MenuSpec
<1> QED
  BY <1>1, MenuIInvImpliesInv, PTL

-----------------------------------------------------------------------------
(* The library of the window manager and the switcher. *)

(* Each object is in one place, in the hash of awake windows or in that of   *)
(* hibernating ones, and belongs to the application of its window.           *)
InPlace(h) == {h.windows[x] : x \in Xids} \union {h.sleeping[k] : k \in Keys}

PlacesOK(h) ==
  /\ \A x, y \in Xids : h.windows[x] # None /\ h.windows[x] = h.windows[y] => x = y
  /\ \A j, k \in Keys : h.sleeping[j] # None /\ h.sleeping[j] = h.sleeping[k] => j = k
  /\ \A x \in Xids, k \in Keys : h.windows[x] # None => h.windows[x] # h.sleeping[k]
  /\ \A x \in Xids : h.windows[x] # None => h.parent[h.windows[x]] = AppOf[x]
  /\ \A x \in Xids : h.sleeping[KeyOf[x]] # None => h.parent[h.sleeping[KeyOf[x]]] = AppOf[x]
  /\ Objects(h) \subseteq InPlace(h)

(* The lists of the switcher and its buttons; a fresh object has no entry yet. *)
EntriesOK(h, fresh) ==
  /\ \A a \in Apps : a \in Entries(h.applications) <=> h.children[a] # <<>>
  /\ \A a \in Apps : Entries(h.children[a]) = {o \in Objs \ fresh : h.parent[o] = a}
  /\ Once(h.applications) /\ \A a \in Apps : Once(h.children[a])
  /\ ~h.refresh => \A p \in Positions :
       h.buttons[p] = IF p <= Len(h.applications) THEN h.applications[p] ELSE None

ActiveOK(h) ==
  /\ {h.active, h.lastActive} \subseteq Objects(h) \union {None}
  /\ h.active # None => h.lastActive = h.active
  /\ \A a \in Apps : h.appActive[a] # None => h.parent[h.appActive[a]] = a

LibraryOK(h) == h \in Libraries /\ PlacesOK(h) /\ EntriesOK(h, {}) /\ ActiveOK(h)

AwakeIn(h) == {x \in Xids : h.windows[x] # None}

(* An event is pending, and one that has news of the list before it. *)
Behind(es, kind) ==
  \E i, j \in DOMAIN es : i < j /\ es[i] = "list" /\ es[j] = kind

Announced(es, kind) == \E i \in DOMAIN es : es[i] = kind

(* No news of the list adds a window any more. *)
AllKnown == Entries(prop.list) \intersect Entries(stack) \subseteq AwakeIn(hd)

ListInStep == ~Announced(events, "list") /\ prop.list = stack => AwakeIn(hd) = Entries(stack)

ListCovers == desktop \/ prop.current = Current => Entries(stack) \subseteq Entries(prop.list)

HintInStep == prop.current # None /\ ~desktop => ~prop.showing

(* What was current is news of the past: the desktop is news that follows. *)
Overtaken(es) ==
  \A j \in DOMAIN es : es[j] = "current" => \E k \in DOMAIN es : k > j /\ es[k] = "showing"

(* Once the news of the desktop have been handled nothing makes a window active. *)
DesktopInStep ==
  desktop /\ prop.showing =>
    /\ Behind(events, "showing") \/ AllKnown
    /\ Announced(events, "showing") \/ hd.active = None
    /\ prop.current = None \/ Overtaken(events)

(* Once the news of the current window have been handled none other is active. *)
CurrentInStep ==
  ~asked /\ Current # None /\ prop.current = Current =>
    /\ Behind(events, "current") \/ AllKnown
    /\ Announced(events, "current") \/ hd.active = hd.windows[prop.current]

NewsOK ==
  /\ ListInStep /\ ListCovers /\ HintInStep /\ DesktopInStep /\ CurrentInStep

HdWmIInv == HdWmTypeOK /\ Once(stack) /\ LibraryOK(hd) /\ NewsOK


(* A list is empty when it has no entries. *)
LEMMA EmptyListFact ==
  ASSUME NEW S, NEW s \in Seq(S)
  PROVE  s = <<>> <=> Entries(s) = {}
<1>1. Len(s) \in Nat /\ DOMAIN s = 1 .. Len(s) /\ (s = <<>> <=> Len(s) = 0)
  OBVIOUS
<1>2. CASE s = <<>>
  BY <1>1, <1>2 DEF Entries
<1>3. CASE s # <<>>
  <2>1. 1 \in DOMAIN s
    BY <1>1, <1>3
  <2> QED
    BY <1>3, <2>1 DEF Entries
<1> QED
  BY <1>2, <1>3

SameHolders(h, y) ==
  /\ y.windows = h.windows /\ y.sleeping = h.sleeping /\ y.parent = h.parent
  /\ y.hibernating = h.hibernating /\ y.appActive = h.appActive
  /\ y.active = h.active /\ y.lastActive = h.lastActive

(* The entry of an object goes, and with the last one its application. *)
LEMMA RemoveEntryFact ==
  ASSUME NEW h \in Libraries, EntriesOK(h, {}), NEW o \in Objs, NEW a \in Apps, h.parent[o] = a
  PROVE  LET y == RemoveEntry(h, o, a)
         IN y \in Libraries /\ EntriesOK(y, {o}) /\ SameHolders(h, y)
<1> DEFINE left == TakenOut(h.children[a], o)
           y == RemoveEntry(h, o, a)
           apps2 == IF left = <<>> THEN TakenOut(h.applications, a) ELSE h.applications
           first == {p \in Positions : h.buttons[p] = a
                                         /\ \A q \in Positions : h.buttons[q] = a => p <= q}
           b == IF left = <<>> THEN [p \in Positions |-> IF p \in first THEN None ELSE h.buttons[p]]
                ELSE h.buttons
<1>1. /\ h.children \in [Apps -> Seq(Objs)] /\ h.applications \in Seq(Apps)
      /\ h.buttons \in [Positions -> Apps \union {None}]
  BY DEF Libraries
<1>2. left \in Seq(Objs) /\ Once(left) /\ Entries(left) = Entries(h.children[a]) \ {o}
  BY <1>1, TakenOutFact DEF EntriesOK
<1>3. /\ TakenOut(h.applications, a) \in Seq(Apps) /\ Once(TakenOut(h.applications, a))
      /\ Entries(TakenOut(h.applications, a)) = Entries(h.applications) \ {a}
  BY <1>1, TakenOutFact DEF EntriesOK
<1>4. apps2 \in Seq(Apps) /\ Once(apps2)
  BY <1>1, <1>3 DEF EntriesOK
<1>5. /\ a \in Entries(h.applications)
      /\ \A c \in Apps : c \in Entries(apps2) <=>
                          c \in Entries(h.applications) /\ (c = a => left # <<>>)
  <2>1. o \in Entries(h.children[a])
    BY DEF EntriesOK
  <2>2. h.children[a] # <<>>
    BY <1>1, <2>1, EmptyListFact
  <2>3. a \in Entries(h.applications)
    BY <2>2 DEF EntriesOK
  <2> QED
    BY <1>3, <2>3
<1>6. b \in [Positions -> Apps \union {None}]
  BY <1>1
<1>7. y = [h EXCEPT !.children = [h.children EXCEPT ![a] = left], !.applications = apps2,
                    !.buttons = b, !.refresh = TRUE]
  BY DEF RemoveEntry
<1> HIDE DEF left, apps2, b, y
<1>8. [h.children EXCEPT ![a] = left] \in [Apps -> Seq(Objs)]
  BY <1>1, <1>2
<1>9. y \in Libraries /\ SameHolders(h, y) /\ y.children = [h.children EXCEPT ![a] = left]
      /\ y.applications = apps2 /\ y.refresh = TRUE
  BY <1>4, <1>6, <1>7, <1>8 DEF Libraries, SameHolders
<1>10. \A c \in Apps : y.children[c] = IF c = a THEN left ELSE h.children[c]
  BY <1>1, <1>9
<1>11. EntriesOK(y, {o})
  <2>1. \A c \in Apps : Once(y.children[c])
    BY <1>2, <1>10 DEF EntriesOK
  <2>2. \A c \in Apps : Entries(y.children[c]) = {p \in Objs \ {o} : y.parent[p] = c}
    <3> SUFFICES ASSUME NEW c \in Apps
                 PROVE  Entries(y.children[c]) = {p \in Objs \ {o} : h.parent[p] = c}
      BY <1>9 DEF SameHolders
    <3>1. Entries(h.children[c]) = {p \in Objs : h.parent[p] = c}
      BY DEF EntriesOK
    <3> QED
      BY <1>2, <1>10, <3>1
  <2>3. \A c \in Apps : c \in Entries(y.applications) <=> y.children[c] # <<>>
    BY <1>5, <1>9, <1>10 DEF EntriesOK
  <2>4. Once(y.applications) /\ y.refresh
    BY <1>4, <1>9
  <2> QED
    BY ONLY <2>1, <2>2, <2>3, <2>4 DEF EntriesOK
<1> QED
  BY <1>9, <1>11 DEF y

(* The entry of a fresh object comes. *)
LEMMA AddEntryFact ==
  ASSUME NEW h \in Libraries, NEW o \in Objs, EntriesOK(h, {o}), NEW a \in Apps, h.parent[o] = a
  PROVE  LET y == AddEntry(h, o, a)
         IN y \in Libraries /\ EntriesOK(y, {}) /\ SameHolders(h, y)
<1> DEFINE new == <<o>> \o h.children[a]
           y == AddEntry(h, o, a)
           apps2 == IF a \in Entries(h.applications) THEN h.applications ELSE <<a>> \o h.applications
<1>1. h.children \in [Apps -> Seq(Objs)] /\ h.applications \in Seq(Apps)
  BY DEF Libraries
<1>2. o \notin Entries(h.children[a])
  BY DEF EntriesOK
<1>3. /\ new \in Seq(Objs) /\ Once(new) /\ Entries(new) = Entries(h.children[a]) \union {o}
      /\ new # <<>>
  BY <1>1, <1>2, PrependFact DEF EntriesOK
<1>4. /\ apps2 \in Seq(Apps) /\ Once(apps2) /\ Entries(apps2) = Entries(h.applications) \union {a}
  BY <1>1, PrependFact DEF EntriesOK
<1>5. y = [h EXCEPT !.children = [h.children EXCEPT ![a] = new], !.applications = apps2,
                    !.refresh = TRUE]
  BY DEF AddEntry
<1> HIDE DEF new, apps2, y
<1>6. [h.children EXCEPT ![a] = new] \in [Apps -> Seq(Objs)]
  BY <1>1, <1>3
<1>7. y \in Libraries /\ SameHolders(h, y) /\ y.children = [h.children EXCEPT ![a] = new]
      /\ y.applications = apps2 /\ y.refresh = TRUE
  BY <1>4, <1>5, <1>6 DEF Libraries, SameHolders
<1>8. \A c \in Apps : y.children[c] = IF c = a THEN new ELSE h.children[c]
  BY <1>1, <1>7
<1>9. EntriesOK(y, {})
  <2>1. \A c \in Apps : Once(y.children[c])
    BY <1>3, <1>8 DEF EntriesOK
  <2>2. \A c \in Apps : Entries(y.children[c]) = {p \in Objs : y.parent[p] = c}
    <3> SUFFICES ASSUME NEW c \in Apps
                 PROVE  Entries(y.children[c]) = {p \in Objs : h.parent[p] = c}
      BY <1>7 DEF SameHolders
    <3>1. Entries(h.children[c]) = {p \in Objs \ {o} : h.parent[p] = c}
      BY DEF EntriesOK
    <3> QED
      BY <1>3, <1>8, <3>1
  <2>3. \A c \in Apps : c \in Entries(y.applications) <=> y.children[c] # <<>>
    BY <1>3, <1>4, <1>7, <1>8 DEF EntriesOK
  <2> QED
    BY <1>4, <1>7, <2>1, <2>2, <2>3 DEF EntriesOK
<1> QED
  BY <1>7, <1>9 DEF y

(* An object that is freed leaves no entry and no pointer. *)
LEMMA FinalizeFact ==
  ASSUME NEW h \in Libraries, NEW o \in Objs, NEW a \in Apps, h.parent[o] = a,
         NEW fresh, fresh = {} \/ fresh = {o}, EntriesOK(h, fresh), ActiveOK(h)
  PROVE  LET y == Finalize(h, o)
         IN /\ y \in Libraries /\ EntriesOK(y, {}) /\ ActiveOK(y)
            /\ y.windows = h.windows /\ y.sleeping = h.sleeping /\ y.hibernating = h.hibernating
            /\ y.parent = [h.parent EXCEPT ![o] = None] /\ y.active = Unless(h.active, o)
<1> DEFINE r == IF o \in Entries(h.children[a]) THEN RemoveEntry(h, o, a) ELSE h
           y == Finalize(h, o)
<1>1. r \in Libraries /\ EntriesOK(r, {o}) /\ SameHolders(h, r)
  <2>1. CASE fresh = {}
    <3>1. o \in Entries(h.children[a])
      BY <2>1 DEF EntriesOK
    <3>2. /\ RemoveEntry(h, o, a) \in Libraries /\ EntriesOK(RemoveEntry(h, o, a), {o})
          /\ SameHolders(h, RemoveEntry(h, o, a))
      BY <2>1, RemoveEntryFact
    <3> QED
      BY <3>1, <3>2
  <2>2. CASE fresh = {o}
    <3>1. o \notin Entries(h.children[a])
      BY <2>2 DEF EntriesOK
    <3> QED
      BY <2>2, <3>1 DEF SameHolders
  <2> QED
    BY <2>1, <2>2
<1>2. y = [r EXCEPT !.parent = [r.parent EXCEPT ![o] = None],
                    !.appActive = [r.appActive EXCEPT ![a] = Unless(r.appActive[a], o)],
                    !.active = Unless(r.active, o), !.lastActive = Unless(r.lastActive, o)]
  BY DEF Finalize
<1> HIDE DEF r, y
<1>3. /\ r.parent \in [Objs -> Apps \union {None}] /\ r.appActive \in [Apps -> Objs \union {None}]
      /\ r.active \in Objs \union {None} /\ r.lastActive \in Objs \union {None}
  BY <1>1 DEF Libraries
<1>4. /\ [r.parent EXCEPT ![o] = None] \in [Objs -> Apps \union {None}]
      /\ [r.appActive EXCEPT ![a] = Unless(r.appActive[a], o)] \in [Apps -> Objs \union {None}]
      /\ Unless(r.active, o) \in Objs \union {None} /\ Unless(r.lastActive, o) \in Objs \union {None}
  BY <1>3 DEF Unless
<1>5. /\ y \in Libraries /\ y.parent = [r.parent EXCEPT ![o] = None]
      /\ y.appActive = [r.appActive EXCEPT ![a] = Unless(r.appActive[a], o)]
      /\ y.active = Unless(r.active, o) /\ y.lastActive = Unless(r.lastActive, o)
      /\ y.windows = r.windows /\ y.sleeping = r.sleeping /\ y.hibernating = r.hibernating
      /\ y.children = r.children /\ y.applications = r.applications
      /\ y.buttons = r.buttons /\ y.refresh = r.refresh
  BY <1>1, <1>2, <1>4 DEF Libraries
<1>6. \A p \in Objs : y.parent[p] = IF p = o THEN None ELSE h.parent[p]
  BY <1>1, <1>3, <1>5 DEF SameHolders
<1>7. EntriesOK(y, {})
  <2>1. \A c \in Apps : {p \in Objs \ {o} : r.parent[p] = c} = {p \in Objs : y.parent[p] = c}
    BY <1>1, <1>6, HdWmAssumption DEF SameHolders
  <2> QED
    BY ONLY <1>1, <1>5, <2>1 DEF EntriesOK
<1>8. ActiveOK(y)
  <2>1. /\ y.active = Unless(h.active, o) /\ y.lastActive = Unless(h.lastActive, o)
        /\ \A c \in Apps : y.appActive[c] = IF c = a THEN Unless(h.appActive[c], o) ELSE h.appActive[c]
    BY <1>1, <1>3, <1>5 DEF SameHolders
  <2>2. h.active \in Objects(h) \union {None} /\ h.lastActive \in Objects(h) \union {None}
    BY DEF ActiveOK
  <2>3. Objects(y) = Objects(h) \ {o}
    BY <1>6 DEF Objects
  <2>4. /\ y.active \in Objects(y) \union {None} /\ y.lastActive \in Objects(y) \union {None}
        /\ (y.active # None => y.lastActive = y.active)
    BY <2>1, <2>2, <2>3 DEF Unless, ActiveOK
  <2>5. \A c \in Apps : y.appActive[c] # None => y.parent[y.appActive[c]] = c
    <3> SUFFICES ASSUME NEW c \in Apps, y.appActive[c] # None PROVE y.parent[y.appActive[c]] = c
      OBVIOUS
    <3>1. h.appActive[c] # None /\ y.appActive[c] = h.appActive[c] /\ h.parent[h.appActive[c]] = c
      BY <2>1 DEF Unless, ActiveOK
    <3>2. h.appActive[c] # o
      BY <2>1, <3>1 DEF Unless
    <3>3. h.appActive[c] \in Objs
      BY <1>1, <1>3, <3>1 DEF SameHolders
    <3> QED
      BY <1>6, <3>1, <3>2, <3>3
  <2> QED
    BY <2>4, <2>5 DEF ActiveOK
<1> QED
  BY <1>1, <1>5, <1>7, <1>8 DEF SameHolders, y

-----------------------------------------------------------------------------
(* The places of objects. *)

Holders(h) ==
  /\ h.windows \in [Xids -> Objs \union {None}] /\ h.sleeping \in [Keys -> Objs \union {None}]
  /\ h.parent \in [Objs -> Apps \union {None}]

(* A window that is destroyed. *)
LEMMA GoneFact ==
  ASSUME NEW h, NEW y, Holders(h), PlacesOK(h), NEW x \in Xids, h.windows[x] # None,
         y.windows = [h.windows EXCEPT ![x] = None], y.sleeping = h.sleeping,
         y.parent = [h.parent EXCEPT ![h.windows[x]] = None]
  PROVE  PlacesOK(y)
<1>1. /\ \A z \in Xids : y.windows[z] = IF z = x THEN None ELSE h.windows[z]
      /\ \A p \in Objs : y.parent[p] = IF p = h.windows[x] THEN None ELSE h.parent[p]
  BY DEF Holders
<1>2. \A z \in Xids : z # x /\ h.windows[z] # None => h.windows[z] # h.windows[x]
  BY DEF PlacesOK
<1>3. \A z \in Xids : KeyOf[z] \in Keys /\ h.sleeping[KeyOf[z]] # h.windows[x]
  BY DEF PlacesOK, Keys
<1>4. \A z \in Xids : y.windows[z] # None => y.parent[y.windows[z]] = AppOf[z]
  BY <1>1, <1>2 DEF PlacesOK, Holders
<1>5. \A z \in Xids : y.sleeping[KeyOf[z]] # None => y.parent[y.sleeping[KeyOf[z]]] = AppOf[z]
  BY <1>1, <1>3 DEF PlacesOK, Holders
<1>6. Objects(y) \subseteq InPlace(y)
  <2> SUFFICES ASSUME NEW p \in Objs, y.parent[p] # None PROVE p \in InPlace(y)
    BY DEF Objects
  <2>1. p # h.windows[x] /\ p \in InPlace(h)
    BY <1>1 DEF PlacesOK, Objects
  <2> QED
    BY <1>1, <2>1 DEF InPlace
<1> QED
  BY <1>1, <1>4, <1>5, <1>6 DEF PlacesOK

(* A window that hibernates takes the place of what had its key. *)
LEMMA AsleepFact ==
  ASSUME NEW h, NEW y, Holders(h), PlacesOK(h), NEW x \in Xids, h.windows[x] # None,
         y.windows = [h.windows EXCEPT ![x] = None],
         y.sleeping = [h.sleeping EXCEPT ![KeyOf[x]] = h.windows[x]],
         y.parent = IF h.sleeping[KeyOf[x]] = None THEN h.parent
                    ELSE [h.parent EXCEPT ![h.sleeping[KeyOf[x]]] = None]
  PROVE  PlacesOK(y)
<1> DEFINE k == KeyOf[x]
           o == h.windows[x]
           d == h.sleeping[k]
<1>1. k \in Keys /\ \A z \in Xids : KeyOf[z] \in Keys
  BY DEF Keys
<1>2. o \in Objs /\ d \in Objs \union {None} /\ d # o /\ o # None
  BY <1>1 DEF Holders, PlacesOK
<1>3. /\ \A z \in Xids : y.windows[z] = IF z = x THEN None ELSE h.windows[z]
      /\ \A j \in Keys : y.sleeping[j] = IF j = k THEN o ELSE h.sleeping[j]
      /\ \A p \in Objs : y.parent[p] = IF p = d THEN None ELSE h.parent[p]
  BY <1>1, <1>2, HdWmAssumption DEF Holders
<1>4. /\ \A z \in Xids : z # x /\ h.windows[z] # None => h.windows[z] # o /\ h.windows[z] # d
      /\ \A j \in Keys : j # k /\ h.sleeping[j] # None => h.sleeping[j] # d /\ h.sleeping[j] # o
  BY <1>1 DEF PlacesOK
<1>5. h.parent[o] = AppOf[x] /\ \A z \in Xids : KeyOf[z] = k => AppOf[z] = AppOf[x]
  BY HdWmAssumption DEF PlacesOK
<1> HIDE DEF k, o, d
<1>6. \A z \in Xids : y.windows[z] # None => y.parent[y.windows[z]] = AppOf[z]
  <2> SUFFICES ASSUME NEW z \in Xids, y.windows[z] # None PROVE y.parent[y.windows[z]] = AppOf[z]
    OBVIOUS
  <2>1. /\ z # x /\ y.windows[z] = h.windows[z] /\ h.windows[z] \in Objs
        /\ h.parent[h.windows[z]] = AppOf[z] /\ h.windows[z] # d
    BY <1>3, <1>4 DEF PlacesOK, Holders
  <2> QED
    BY <1>3, <2>1
<1>7. \A z \in Xids : y.sleeping[KeyOf[z]] # None => y.parent[y.sleeping[KeyOf[z]]] = AppOf[z]
  <2> SUFFICES ASSUME NEW z \in Xids, y.sleeping[KeyOf[z]] # None
               PROVE  y.parent[y.sleeping[KeyOf[z]]] = AppOf[z]
    OBVIOUS
  <2>1. CASE KeyOf[z] = k
    BY <1>1, <1>2, <1>3, <1>5, <2>1
  <2>2. CASE KeyOf[z] # k
    <3>1. /\ y.sleeping[KeyOf[z]] = h.sleeping[KeyOf[z]] /\ h.sleeping[KeyOf[z]] \in Objs
          /\ h.parent[h.sleeping[KeyOf[z]]] = AppOf[z] /\ h.sleeping[KeyOf[z]] # d
      BY <1>1, <1>3, <1>4, <2>2 DEF PlacesOK, Holders
    <3> QED
      BY <1>3, <3>1
  <2> QED
    BY <2>1, <2>2
<1>8. Objects(y) \subseteq InPlace(y)
  <2> SUFFICES ASSUME NEW p \in Objs, y.parent[p] # None PROVE p \in InPlace(y)
    BY DEF Objects
  <2>1. p # d /\ p \in InPlace(h)
    BY <1>3 DEF PlacesOK, Objects
  <2>2. CASE \E z \in Xids : p = h.windows[z]
    <3>1. PICK z \in Xids : p = h.windows[z]
      BY <2>2
    <3>2. CASE z = x
      <4>1. p = y.sleeping[k]
        BY <1>1, <1>3, <3>1, <3>2 DEF o
      <4> QED
        BY <1>1, <4>1 DEF InPlace
    <3>3. CASE z # x
      BY <1>3, <3>1, <3>3 DEF InPlace
    <3> QED
      BY <3>2, <3>3
  <2>3. CASE \E j \in Keys : p = h.sleeping[j]
    <3>1. PICK j \in Keys : p = h.sleeping[j]
      BY <2>3
    <3>2. j # k
      BY <2>1, <3>1 DEF d
    <3> QED
      BY <1>3, <3>1, <3>2 DEF InPlace
  <2> QED
    BY <2>1, <2>2, <2>3 DEF InPlace
<1>9. /\ \A v, w \in Xids : y.windows[v] # None /\ y.windows[v] = y.windows[w] => v = w
      /\ \A i, j \in Keys : y.sleeping[i] # None /\ y.sleeping[i] = y.sleeping[j] => i = j
      /\ \A z \in Xids, j \in Keys : y.windows[z] # None => y.windows[z] # y.sleeping[j]
  BY <1>2, <1>3, <1>4 DEF PlacesOK
<1> QED
  BY <1>6, <1>7, <1>8, <1>9 DEF PlacesOK

(* A window that comes back. *)
LEMMA WokenFact ==
  ASSUME NEW h, NEW y, Holders(h), PlacesOK(h), NEW x \in Xids, h.windows[x] = None,
         h.sleeping[KeyOf[x]] # None,
         y.windows = [h.windows EXCEPT ![x] = h.sleeping[KeyOf[x]]],
         y.sleeping = [h.sleeping EXCEPT ![KeyOf[x]] = None], y.parent = h.parent
  PROVE  PlacesOK(y)
<1> DEFINE k == KeyOf[x]
           o == h.sleeping[k]
<1>1. k \in Keys /\ \A z \in Xids : KeyOf[z] \in Keys
  BY DEF Keys
<1>2. /\ \A z \in Xids : y.windows[z] = IF z = x THEN o ELSE h.windows[z]
      /\ \A j \in Keys : y.sleeping[j] = IF j = k THEN None ELSE h.sleeping[j]
  BY <1>1 DEF Holders
<1>3. o # None /\ h.parent[o] = AppOf[x]
  BY DEF PlacesOK
<1>4. /\ \A z \in Xids : h.windows[z] # None => h.windows[z] # o
      /\ \A j \in Keys : j # k => h.sleeping[j] # o
  BY <1>1, <1>3 DEF PlacesOK
<1> HIDE DEF k, o
<1>5. \A z \in Xids : y.windows[z] # None => y.parent[y.windows[z]] = AppOf[z]
  BY <1>2, <1>3 DEF PlacesOK
<1>6. \A z \in Xids : y.sleeping[KeyOf[z]] # None => y.parent[y.sleeping[KeyOf[z]]] = AppOf[z]
  BY <1>1, <1>2 DEF PlacesOK
<1>7. InPlace(h) \ {None} \subseteq InPlace(y)
  <2> SUFFICES ASSUME NEW p \in InPlace(h), p # None PROVE p \in InPlace(y)
    OBVIOUS
  <2>1. CASE \E z \in Xids : p = h.windows[z]
    <3>1. PICK z \in Xids : p = h.windows[z]
      BY <2>1
    <3>2. p = y.windows[z]
      BY <1>2, <3>1
    <3> QED
      BY <3>2 DEF InPlace
  <2>2. CASE \E j \in Keys : p = h.sleeping[j]
    <3>1. PICK j \in Keys : p = h.sleeping[j]
      BY <2>2
    <3>2. p = IF j = k THEN y.windows[x] ELSE y.sleeping[j]
      BY <1>2, <3>1 DEF o
    <3> QED
      BY <3>1, <3>2 DEF InPlace
  <2> QED
    BY <2>1, <2>2 DEF InPlace
<1>8. Objects(y) \subseteq InPlace(y)
  <2>1. Objects(y) = Objects(h) /\ None \notin Objects(h)
    BY HdWmAssumption DEF Objects
  <2> QED
    BY <1>7, <2>1 DEF PlacesOK
<1>9. /\ \A v, w \in Xids : y.windows[v] # None /\ y.windows[v] = y.windows[w] => v = w
      /\ \A i, j \in Keys : y.sleeping[i] # None /\ y.sleeping[i] = y.sleeping[j] => i = j
      /\ \A z \in Xids, j \in Keys : y.windows[z] # None => y.windows[z] # y.sleeping[j]
  BY <1>2, <1>3, <1>4 DEF PlacesOK
<1> QED
  BY <1>5, <1>6, <1>8, <1>9 DEF PlacesOK

(* A window with a fresh object. *)
LEMMA CreatedFact ==
  ASSUME NEW h, NEW y, Holders(h), PlacesOK(h), NEW x \in Xids, h.windows[x] = None,
         NEW o \in Objs, h.parent[o] = None,
         y.windows = [h.windows EXCEPT ![x] = o], y.sleeping = h.sleeping,
         y.parent = [h.parent EXCEPT ![o] = AppOf[x]]
  PROVE  PlacesOK(y)
<1>1. /\ \A z \in Xids : y.windows[z] = IF z = x THEN o ELSE h.windows[z]
      /\ \A p \in Objs : y.parent[p] = IF p = o THEN AppOf[x] ELSE h.parent[p]
  BY DEF Holders
<1>2. o # None /\ AppOf[x] # None /\ AppOf \in [Xids -> Apps] /\ None \notin Apps
  BY HdWmAssumption
<1>3. /\ \A z \in Xids : h.windows[z] # o
      /\ \A z \in Xids : KeyOf[z] \in Keys /\ h.sleeping[KeyOf[z]] # o
  BY <1>2 DEF PlacesOK, Keys
<1>4. \A j \in Keys : h.sleeping[j] # o
  BY <1>3 DEF Keys
<1>5. \A z \in Xids : y.windows[z] # None => y.parent[y.windows[z]] = AppOf[z]
  BY <1>1, <1>3 DEF PlacesOK, Holders
<1>6. \A z \in Xids : y.sleeping[KeyOf[z]] # None => y.parent[y.sleeping[KeyOf[z]]] = AppOf[z]
  BY <1>1, <1>3 DEF PlacesOK, Holders
<1>7. Objects(y) \subseteq InPlace(y)
  <2> SUFFICES ASSUME NEW p \in Objs, y.parent[p] # None PROVE p \in InPlace(y)
    BY DEF Objects
  <2>1. CASE p = o
    BY <1>1, <2>1 DEF InPlace
  <2>2. CASE p # o
    <3>1. p \in InPlace(h) /\ p # None
      BY <1>1, <2>2, HdWmAssumption DEF PlacesOK, Objects
    <3>2. CASE \E z \in Xids : p = h.windows[z]
      <4>1. PICK z \in Xids : p = h.windows[z]
        BY <3>2
      <4>2. p = y.windows[z]
        BY <1>1, <3>1, <4>1
      <4> QED
        BY <4>2 DEF InPlace
    <3> QED
      BY <3>1, <3>2 DEF InPlace
  <2> QED
    BY <2>1, <2>2
<1>8. /\ \A v, w \in Xids : y.windows[v] # None /\ y.windows[v] = y.windows[w] => v = w
      /\ \A i, j \in Keys : y.sleeping[i] # None /\ y.sleeping[i] = y.sleeping[j] => i = j
      /\ \A z \in Xids, j \in Keys : y.windows[z] # None => y.windows[z] # y.sleeping[j]
  BY <1>1, <1>3, <1>4 DEF PlacesOK
<1> QED
  BY <1>5, <1>6, <1>7, <1>8 DEF PlacesOK

(* A window that is closed while it hibernates. *)
LEMMA ForgottenFact ==
  ASSUME NEW h, NEW y, Holders(h), PlacesOK(h), NEW k \in Keys, h.sleeping[k] # None,
         y.windows = h.windows, y.sleeping = [h.sleeping EXCEPT ![k] = None],
         y.parent = [h.parent EXCEPT ![h.sleeping[k]] = None]
  PROVE  PlacesOK(y)
<1> DEFINE o == h.sleeping[k]
<1>1. /\ \A j \in Keys : y.sleeping[j] = IF j = k THEN None ELSE h.sleeping[j]
      /\ \A p \in Objs : y.parent[p] = IF p = o THEN None ELSE h.parent[p]
      /\ o # None /\ \A z \in Xids : KeyOf[z] \in Keys
  BY DEF Holders, Keys
<1>2. /\ \A z \in Xids : h.windows[z] # None => h.windows[z] # o
      /\ \A j \in Keys : j # k => h.sleeping[j] # o
  BY <1>1 DEF PlacesOK
<1> HIDE DEF o
<1>3. \A z \in Xids : y.windows[z] # None => y.parent[y.windows[z]] = AppOf[z]
  BY <1>1, <1>2 DEF PlacesOK, Holders
<1>4. \A z \in Xids : y.sleeping[KeyOf[z]] # None => y.parent[y.sleeping[KeyOf[z]]] = AppOf[z]
  BY <1>1, <1>2 DEF PlacesOK, Holders
<1>5. Objects(y) \subseteq InPlace(y)
  <2> SUFFICES ASSUME NEW p \in Objs, y.parent[p] # None PROVE p \in InPlace(y)
    BY DEF Objects
  <2>1. p # o /\ p \in InPlace(h)
    BY <1>1 DEF PlacesOK, Objects
  <2> QED
    BY <1>1, <2>1 DEF InPlace, o
<1>6. /\ \A v, w \in Xids : y.windows[v] # None /\ y.windows[v] = y.windows[w] => v = w
      /\ \A i, j \in Keys : y.sleeping[i] # None /\ y.sleeping[i] = y.sleeping[j] => i = j
      /\ \A z \in Xids, j \in Keys : y.windows[z] # None => y.windows[z] # y.sleeping[j]
  BY <1>1, <1>2 DEF PlacesOK
<1> QED
  BY <1>3, <1>4, <1>5, <1>6 DEF PlacesOK

(* Nothing becomes active, and what stays awake stays active. *)
NoneRaised(h, y) ==
  /\ y.active \in {h.active, None}
  /\ \A z \in Xids : y.windows[z] # None =>
       y.windows[z] = h.windows[z] /\ (h.active = h.windows[z] => y.active = h.active)

(* The button of an application is drawn again. *)
LEMMA ShowChangedFact ==
  ASSUME NEW h \in Libraries, EntriesOK(h, {}), NEW a \in Apps
  PROVE  LET y == ShowChanged(h, a)
         IN y \in Libraries /\ EntriesOK(y, {}) /\ SameHolders(h, y)
<1> DEFINE b == [p \in Positions |-> IF p <= Len(h.applications) /\ h.applications[p] = a
                                       THEN a ELSE h.buttons[p]]
           y == ShowChanged(h, a)
<1>1. h.buttons \in [Positions -> Apps \union {None}]
  BY DEF Libraries
<1>2. b \in [Positions -> Apps \union {None}]
  BY <1>1
<1>3. y = [h EXCEPT !.buttons = b]
  BY DEF ShowChanged
<1>4. ~h.refresh => \A p \in Positions :
        b[p] = IF p <= Len(h.applications) THEN h.applications[p] ELSE None
  BY DEF EntriesOK
<1> HIDE DEF b, y
<1>5. /\ y \in Libraries /\ SameHolders(h, y) /\ y.buttons = b /\ y.refresh = h.refresh
      /\ y.children = h.children /\ y.applications = h.applications
  BY <1>2, <1>3 DEF Libraries, SameHolders
<1>6. EntriesOK(y, {})
  BY <1>4, <1>5 DEF EntriesOK, SameHolders
<1> QED
  BY <1>5, <1>6 DEF y

LEMMA HoldersFact == ASSUME NEW h \in Libraries PROVE Holders(h)
BY DEF Libraries, Holders

(* A window that is not on the list any more. *)
LEMMA StealFact ==
  ASSUME NEW h, LibraryOK(h), NEW x \in Xids, h.windows[x] # None
  PROVE  LET y == Steal(h, x)
         IN /\ LibraryOK(y) /\ NoneRaised(h, y) /\ y.hibernating = h.hibernating
            /\ y.windows = [h.windows EXCEPT ![x] = None]
            /\ y.sleeping = IF AppOf[x] \in h.hibernating
                            THEN [h.sleeping EXCEPT ![KeyOf[x]] = h.windows[x]] ELSE h.sleeping
            /\ y.parent = IF AppOf[x] \notin h.hibernating
                          THEN [h.parent EXCEPT ![h.windows[x]] = None]
                          ELSE IF h.sleeping[KeyOf[x]] = None THEN h.parent
                          ELSE [h.parent EXCEPT ![h.sleeping[KeyOf[x]]] = None]
<1> DEFINE o == h.windows[x]
           a == AppOf[x]
           k == KeyOf[x]
           d == h.sleeping[k]
           y == Steal(h, x)
<1>1. /\ h \in Libraries /\ PlacesOK(h) /\ EntriesOK(h, {}) /\ ActiveOK(h) /\ Holders(h)
  BY HoldersFact DEF LibraryOK
<1>2. /\ o \in Objs /\ h.parent[o] = a /\ a \in Apps /\ k \in Keys /\ d # o
      /\ d \in Objs \union {None} /\ (d # None => h.parent[d] = a)
  BY <1>1, HdWmAssumption DEF Holders, PlacesOK, Keys
<1>3. \A z \in Xids : z # x /\ h.windows[z] # None => h.windows[z] # o /\ h.windows[z] # d
  BY <1>1, <1>2 DEF PlacesOK
<1>4. [h.windows EXCEPT ![x] = None] \in [Xids -> Objs \union {None}]
  BY <1>1 DEF Holders
<1>5. \A z \in Xids : [h.windows EXCEPT ![x] = None][z] = IF z = x THEN None ELSE h.windows[z]
  BY <1>1 DEF Holders
<1>6. CASE a \notin h.hibernating
  <2> DEFINE g == [h EXCEPT !.windows = [h.windows EXCEPT ![x] = None]]
  <2>1. /\ g \in Libraries /\ g.windows = [h.windows EXCEPT ![x] = None]
        /\ g.sleeping = h.sleeping /\ g.parent = h.parent /\ g.hibernating = h.hibernating
        /\ g.active = h.active /\ g.lastActive = h.lastActive /\ g.appActive = h.appActive
        /\ g.applications = h.applications /\ g.children = h.children
        /\ g.buttons = h.buttons /\ g.refresh = h.refresh
    BY <1>1, <1>4 DEF Libraries
  <2>2. y = Finalize(g, o)
    BY <1>6 DEF Steal
  <2> HIDE DEF g, o, a, y
  <2>3. EntriesOK(g, {}) /\ ActiveOK(g)
    BY <1>1, <2>1 DEF EntriesOK, ActiveOK, Objects
  <2>4. /\ y \in Libraries /\ EntriesOK(y, {}) /\ ActiveOK(y)
        /\ y.windows = g.windows /\ y.sleeping = g.sleeping /\ y.hibernating = g.hibernating
        /\ y.parent = [g.parent EXCEPT ![o] = None] /\ y.active = Unless(g.active, o)
    BY <1>2, <2>1, <2>2, <2>3, FinalizeFact
  <2>5. PlacesOK(y)
    BY <1>1, <2>1, <2>4, GoneFact DEF o
  <2>6. NoneRaised(h, y)
    BY <1>3, <1>5, <2>1, <2>4 DEF NoneRaised, Unless
  <2> QED
    BY <1>6, <2>1, <2>4, <2>5, <2>6 DEF LibraryOK, y, a, o
<1>7. CASE a \in h.hibernating
  <2> DEFINE h1 == IF d = None THEN h ELSE Finalize(h, d)
             w == [h.windows EXCEPT ![x] = None]
             s == [h.sleeping EXCEPT ![k] = o]
             g == [h1 EXCEPT !.sleeping = s, !.windows = w]
  <2>1. /\ h1 \in Libraries /\ EntriesOK(h1, {}) /\ ActiveOK(h1)
        /\ h1.windows = h.windows /\ h1.sleeping = h.sleeping /\ h1.hibernating = h.hibernating
        /\ h1.parent = (IF d = None THEN h.parent ELSE [h.parent EXCEPT ![d] = None])
        /\ h1.active \in {h.active, None} /\ (h.active # d => h1.active = h.active)
    <3>1. CASE d = None
      BY <1>1, <3>1
    <3>2. CASE d # None
      <4>1. d \in Objs /\ h.parent[d] = a
        BY <1>2, <3>2
      <4> HIDE DEF d, a
      <4>2. LET f == Finalize(h, d)
            IN /\ f \in Libraries /\ EntriesOK(f, {}) /\ ActiveOK(f)
               /\ f.windows = h.windows /\ f.sleeping = h.sleeping /\ f.hibernating = h.hibernating
               /\ f.parent = [h.parent EXCEPT ![d] = None] /\ f.active = Unless(h.active, d)
        BY <1>1, <1>2, <4>1, FinalizeFact
      <4> QED
        BY <3>2, <4>2 DEF Unless
    <3> QED
      BY <3>1, <3>2
  <2>2. y = ShowChanged(g, a)
    <3>1. h1.sleeping = h.sleeping /\ h1.windows = h.windows
      BY <2>1
    <3>2. y = FallAsleep(h, x)
      BY <1>7 DEF Steal
    <3>3. FallAsleep(h, x) = ShowChanged([h1 EXCEPT !.sleeping = [h1.sleeping EXCEPT ![k] = o],
                                                    !.windows = [h1.windows EXCEPT ![x] = None]], a)
      BY DEF FallAsleep
    <3> QED
      BY <3>1, <3>2, <3>3
  <2>3. s \in [Keys -> Objs \union {None}]
    BY <1>1, <1>2 DEF Holders
  <2> HIDE DEF h1, y
  <2>4. /\ g \in Libraries /\ g.windows = w /\ g.sleeping = s /\ g.parent = h1.parent
        /\ g.hibernating = h1.hibernating /\ g.active = h1.active /\ g.lastActive = h1.lastActive
        /\ g.appActive = h1.appActive /\ g.applications = h1.applications
        /\ g.children = h1.children /\ g.buttons = h1.buttons /\ g.refresh = h1.refresh
    BY <1>4, <2>1, <2>3 DEF Libraries
  <2> HIDE DEF g, w, s, o, a, d, k
  <2>5. EntriesOK(g, {}) /\ ActiveOK(g)
    BY <2>1, <2>4 DEF EntriesOK, ActiveOK, Objects
  <2>6. y \in Libraries /\ EntriesOK(y, {}) /\ SameHolders(g, y)
    BY <1>2, <2>2, <2>4, <2>5, ShowChangedFact
  <2>7. ActiveOK(y)
    BY <2>5, <2>6 DEF ActiveOK, SameHolders, Objects
  <2>8. /\ y.windows = w /\ y.sleeping = s /\ y.hibernating = h.hibernating
        /\ y.parent = (IF d = None THEN h.parent ELSE [h.parent EXCEPT ![d] = None])
        /\ y.active \in {h.active, None} /\ (h.active # d => y.active = h.active)
    BY <2>1, <2>4, <2>6 DEF SameHolders
  <2>9. PlacesOK(y)
    BY <1>1, <2>8, AsleepFact DEF w, s, o, d, k
  <2>10. NoneRaised(h, y)
    BY <1>3, <1>5, <2>8 DEF NoneRaised, w
  <2> QED
    BY <1>7, <2>6, <2>7, <2>8, <2>9, <2>10 DEF LibraryOK, y, a, o, w, s, d, k
<1> QED
  BY <1>6, <1>7

-----------------------------------------------------------------------------
(* A window that is listed. *)

(* There is memory for one object more: no more are in the hashes than there  *)
(* are windows and keys.                                                    *)
LEMMA FreeFact ==
  ASSUME NEW h, LibraryOK(h), NEW x \in Xids, h.windows[x] = None, h.sleeping[KeyOf[x]] = None
  PROVE  FreeObj(h) \in Objs /\ h.parent[FreeObj(h)] = None
<1> DEFINE X == Xids \ {x}
           W == {h.windows[z] : z \in X}
           S == {h.sleeping[KeyOf[z]] : z \in X}
           F == {o \in Objs : h.parent[o] = None}
<1>1. h \in Libraries /\ PlacesOK(h) /\ Holders(h)
  BY HoldersFact DEF LibraryOK
<1>2. IsFiniteSet(Xids) /\ IsFiniteSet(X) /\ Cardinality(X) = Cardinality(Xids) - 1
      /\ Cardinality(Xids) \in Nat /\ Cardinality(X) \in Nat
  BY HdWmAssumption, FS_RemoveElement, FS_CardinalityType
<1>3. IsFiniteSet(W) /\ Cardinality(W) <= Cardinality(X) /\ Cardinality(W) \in Nat
  <2> DEFINE f == [z \in X |-> h.windows[z]]
  <2>1. f \in Surjection(X, W)
    BY DEF Surjection
  <2> HIDE DEF f
  <2> QED
    BY <1>2, <2>1, FS_Surjection, FS_CardinalityType
<1>4. IsFiniteSet(S) /\ Cardinality(S) <= Cardinality(X) /\ Cardinality(S) \in Nat
  <2> DEFINE f == [z \in X |-> h.sleeping[KeyOf[z]]]
  <2>1. f \in Surjection(X, S)
    BY DEF Surjection
  <2> HIDE DEF f
  <2> QED
    BY <1>2, <2>1, FS_Surjection, FS_CardinalityType
<1>5. IsFiniteSet(W \union S) /\ Cardinality(W \union S) <= Cardinality(W) + Cardinality(S)
      /\ Cardinality(W \union S) \in Nat
  <2> HIDE DEF W, S
  <2>1. IsFiniteSet(W \intersect S)
    BY <1>3, FS_Intersection
  <2>2. Cardinality(W \intersect S) \in Nat
    BY <2>1, FS_CardinalityType
  <2>3. /\ IsFiniteSet(W \union S)
        /\ Cardinality(W \union S) = Cardinality(W) + Cardinality(S) - Cardinality(W \intersect S)
    BY <1>3, <1>4, FS_Union
  <2>4. Cardinality(W \union S) \in Nat
    BY <2>3, FS_CardinalityType
  <2> QED
    BY <1>3, <1>4, <2>2, <2>3, <2>4
<1>6. ~ (Objs \subseteq W \union S)
  <2> SUFFICES ASSUME Objs \subseteq W \union S PROVE FALSE
    OBVIOUS
  <2>1. Cardinality(Objs) <= Cardinality(W \union S) /\ Cardinality(Objs) \in Nat
    BY <1>5, FS_Subset, FS_CardinalityType
  <2> QED
    BY <1>2, <1>3, <1>4, <1>5, <2>1, HdWmAssumption
<1>7. F # {}
  <2>1. PICK o \in Objs : o \notin W \union S
    BY <1>6
  <2>2. o \notin InPlace(h)
    <3>1. o # None
      BY HdWmAssumption
    <3>2. \A z \in Xids : h.windows[z] # o
      BY <2>1, <3>1
    <3>3. \A z \in Xids : h.sleeping[KeyOf[z]] # o
      BY <2>1, <3>1
    <3> QED
      BY <3>2, <3>3 DEF InPlace, Keys
  <2>3. h.parent[o] = None
    BY <1>1, <2>2 DEF PlacesOK, Objects
  <2> QED
    BY <2>3
<1>8. Least(F) \in F /\ \A m \in F : Least(F) <= m
  BY <1>7, HdWmAssumption, LeastFact
<1> QED
  BY <1>8 DEF FreeObj

(* The object of a window, woken or fresh, before it has an entry. *)
NewOK(h, x, g) ==
  LET o == g.windows[x]
      fresh == IF h.sleeping[KeyOf[x]] = None THEN {o} ELSE {}
  IN /\ g \in Libraries /\ PlacesOK(g) /\ EntriesOK(g, fresh) /\ ActiveOK(g)
     /\ o \in Objs /\ g.parent[o] = AppOf[x] /\ g.active = h.active
     /\ g.windows = [h.windows EXCEPT ![x] = o] /\ g.hibernating \subseteq h.hibernating
     /\ g.sleeping = [h.sleeping EXCEPT ![KeyOf[x]] = None]
     /\ h.sleeping[KeyOf[x]] # None => o = h.sleeping[KeyOf[x]] /\ g.parent = h.parent
     /\ h.sleeping[KeyOf[x]] = None =>
          h.parent[o] = None /\ g.parent = [h.parent EXCEPT ![o] = AppOf[x]]

LEMMA NewFact ==
  ASSUME NEW h, LibraryOK(h), NEW x \in Xids, h.windows[x] = None
  PROVE  NewOK(h, x, NewObject(h, x))
<1> DEFINE k == KeyOf[x]
           g == NewObject(h, x)
           a == AppOf[x]
<1>1. /\ h \in Libraries /\ PlacesOK(h) /\ EntriesOK(h, {}) /\ ActiveOK(h) /\ Holders(h)
  BY HoldersFact DEF LibraryOK
<1>2. k \in Keys /\ a \in Apps /\ a # None
  BY HdWmAssumption DEF Keys
<1>3. CASE h.sleeping[k] # None
  <2> DEFINE o == h.sleeping[k]
             w == [h.windows EXCEPT ![x] = o]
             s == [h.sleeping EXCEPT ![k] = None]
  <2>1. g = [h EXCEPT !.windows = w, !.sleeping = s, !.hibernating = h.hibernating \ {a}]
    BY <1>3 DEF NewObject
  <2>2. /\ o \in Objs /\ h.parent[o] = a
        /\ w \in [Xids -> Objs \union {None}] /\ s \in [Keys -> Objs \union {None}]
    BY <1>1, <1>2, <1>3 DEF Holders, PlacesOK
  <2>3. w[x] = o
    BY <1>1 DEF Holders
  <2> HIDE DEF w, s, g, o
  <2>4. /\ g \in Libraries /\ g.windows = w /\ g.sleeping = s
        /\ g.hibernating = h.hibernating \ {a}
        /\ g.parent = h.parent /\ g.active = h.active /\ g.lastActive = h.lastActive
        /\ g.appActive = h.appActive /\ g.applications = h.applications
        /\ g.children = h.children /\ g.buttons = h.buttons /\ g.refresh = h.refresh
    BY <1>1, <2>1, <2>2 DEF Libraries
  <2>5. EntriesOK(g, {}) /\ ActiveOK(g)
    BY <1>1, <2>4 DEF EntriesOK, ActiveOK, Objects
  <2>6. PlacesOK(g)
    BY <1>1, <1>3, <2>4, WokenFact DEF w, s, o
  <2> QED
    BY <1>3, <2>2, <2>3, <2>4, <2>5, <2>6 DEF g, w, s, o, NewOK
<1>4. CASE h.sleeping[k] = None
  <2> DEFINE o == FreeObj(h)
             w == [h.windows EXCEPT ![x] = o]
             p == [h.parent EXCEPT ![o] = a]
  <2>1. g = [h EXCEPT !.windows = w, !.parent = p]
    BY <1>4 DEF NewObject
  <2>2. o \in Objs /\ h.parent[o] = None
    BY <1>4, FreeFact
  <2>3. /\ w \in [Xids -> Objs \union {None}] /\ p \in [Objs -> Apps \union {None}]
        /\ w[x] = o /\ \A q \in Objs : p[q] = IF q = o THEN a ELSE h.parent[q]
    BY <1>1, <1>2, <2>2 DEF Holders
  <2>4. h.sleeping = [h.sleeping EXCEPT ![k] = None]
    BY <1>1, <1>2, <1>4 DEF Holders
  <2> HIDE DEF w, p, g, o
  <2>5. /\ g \in Libraries /\ g.windows = w /\ g.parent = p /\ g.sleeping = h.sleeping
        /\ g.hibernating = h.hibernating /\ g.active = h.active /\ g.lastActive = h.lastActive
        /\ g.appActive = h.appActive /\ g.applications = h.applications
        /\ g.children = h.children /\ g.buttons = h.buttons /\ g.refresh = h.refresh
    BY <1>1, <2>1, <2>3 DEF Libraries
  <2>6. EntriesOK(g, {o})
    <3>1. \A c \in Apps : {q \in Objs : h.parent[q] = c} = {q \in Objs \ {o} : g.parent[q] = c}
      <4>1. \A c \in Apps : c # None /\ c # h.parent[o]
        BY <2>2, HdWmAssumption
      <4>2. \A c \in Apps, q \in Objs : h.parent[q] = c <=> q # o /\ g.parent[q] = c
        BY <2>3, <2>5, <4>1
      <4> QED
        BY <4>2
    <3>2. \A c \in Apps : Entries(h.children[c]) = {q \in Objs : h.parent[q] = c}
      BY <1>1 DEF EntriesOK
    <3>3. \A c \in Apps : Entries(g.children[c]) = {q \in Objs \ {o} : g.parent[q] = c}
      BY <2>5, <3>1, <3>2
    <3>4. /\ \A c \in Apps : c \in Entries(g.applications) <=> g.children[c] # <<>>
          /\ Once(g.applications) /\ \A c \in Apps : Once(g.children[c])
          /\ ~g.refresh => \A i \in Positions :
               g.buttons[i] = IF i <= Len(g.applications) THEN g.applications[i] ELSE None
      BY <1>1, <2>5 DEF EntriesOK
    <3> QED
      BY ONLY <3>3, <3>4 DEF EntriesOK
  <2>7. ActiveOK(g)
    <3>1. Objects(h) \subseteq Objects(g)
      BY <1>2, <2>3, <2>5 DEF Objects
    <3>2. \A c \in Apps : h.appActive[c] # None =>
            h.appActive[c] \in Objs /\ h.appActive[c] # o /\ h.parent[h.appActive[c]] = c
      <4> SUFFICES ASSUME NEW c \in Apps, h.appActive[c] # None
                   PROVE  h.appActive[c] \in Objs /\ h.appActive[c] # o
                            /\ h.parent[h.appActive[c]] = c
        OBVIOUS
      <4>1. h.appActive[c] \in Objs /\ h.parent[h.appActive[c]] = c
        BY <1>1 DEF ActiveOK, Libraries
      <4> QED
        BY <2>2, <4>1, HdWmAssumption
    <3>3. \A c \in Apps : g.appActive[c] # None => g.parent[g.appActive[c]] = c
      BY <2>3, <2>5, <3>2
    <3> QED
      BY <1>1, <2>5, <3>1, <3>3 DEF ActiveOK
  <2>8. PlacesOK(g)
    BY <1>1, <2>2, <2>5, CreatedFact DEF w, p
  <2> QED
    BY <1>4, <2>2, <2>3, <2>4, <2>5, <2>6, <2>7, <2>8 DEF g, w, p, k, a, NewOK
<1> QED
  BY <1>3, <1>4

(* What one window of the list does to the library. *)
ListedOK(h, x, y) ==
  /\ LibraryOK(y) /\ y.hibernating \subseteq h.hibernating
  /\ \A z \in Xids : z # x \/ h.windows[x] # None => y.windows[z] = h.windows[z]
  /\ y.windows[x] # None <=> h.windows[x] # None \/ x \in Entries(stack)
  /\ x \notin Entries(stack) \/ h.windows[x] # None => NoneRaised(h, y)
  /\ \A k \in Keys : y.sleeping[k] \in {h.sleeping[k], None}
  /\ h.windows[x] = None /\ y.windows[x] # None => y.sleeping[KeyOf[x]] = None
  /\ \A p \in Objs : h.parent[p] # None /\ y.parent[p] # h.parent[p] =>
       x \notin Entries(stack) /\ p = h.sleeping[KeyOf[x]]

(* A window that is known, or that has gone. *)
LEMMA SameFact ==
  ASSUME NEW h, LibraryOK(h), NEW x \in Xids, h.windows[x] # None \/ x \notin Entries(stack)
  PROVE  ListedOK(h, x, h)
BY DEF ListedOK, NoneRaised

(* A window that is new to the library. *)
LEMMA AddWindowFact ==
  ASSUME NEW h, LibraryOK(h), NEW x \in Xids, h.windows[x] = None, x \in Entries(stack)
  PROVE  ListedOK(h, x, AddWindow(NewObject(h, x), x))
<1> DEFINE g == NewObject(h, x)
           o == g.windows[x]
           k == KeyOf[x]
           a == AppOf[x]
           fresh == IF h.sleeping[k] = None THEN {o} ELSE {}
           h1 == [g EXCEPT !.active = o, !.lastActive = o,
                           !.appActive = [g.appActive EXCEPT ![a] = o]]
           y == AddWindow(g, x)
<1>1. /\ h \in Libraries /\ Holders(h) /\ k \in Keys /\ a \in Apps /\ None \notin Objs \union Apps
  BY HoldersFact, HdWmAssumption DEF LibraryOK, Keys
<1>2. /\ g \in Libraries /\ PlacesOK(g) /\ EntriesOK(g, fresh) /\ ActiveOK(g)
      /\ o \in Objs /\ g.parent[o] = a /\ g.active = h.active
      /\ g.windows = [h.windows EXCEPT ![x] = o] /\ g.hibernating \subseteq h.hibernating
      /\ g.sleeping = [h.sleeping EXCEPT ![k] = None]
      /\ h.sleeping[k] # None => o = h.sleeping[k] /\ g.parent = h.parent
      /\ h.sleeping[k] = None => h.parent[o] = None /\ g.parent = [h.parent EXCEPT ![o] = a]
  <2>1. NewOK(h, x, g)
    BY NewFact
  <2> HIDE DEF g
  <2> QED
    BY ONLY <2>1 DEF NewOK
<1>3. y = IF o \in Entries(g.children[a]) THEN h1 ELSE AddEntry(h1, o, a)
  BY DEF AddWindow
<1> HIDE DEF g, y, k, a
<1>4. [g.appActive EXCEPT ![a] = o] \in [Apps -> Objs \union {None}]
  BY <1>2 DEF Libraries
<1>5. /\ h1 \in Libraries /\ h1.active = o /\ h1.lastActive = o
      /\ h1.appActive = [g.appActive EXCEPT ![a] = o]
      /\ h1.windows = g.windows /\ h1.sleeping = g.sleeping /\ h1.parent = g.parent
      /\ h1.hibernating = g.hibernating /\ h1.applications = g.applications
      /\ h1.children = g.children /\ h1.buttons = g.buttons /\ h1.refresh = g.refresh
  BY <1>2, <1>4 DEF Libraries
<1> HIDE DEF h1
<1>6. EntriesOK(h1, fresh)
  BY <1>2, <1>5 DEF EntriesOK
<1>7. ActiveOK(h1)
  <2>1. o \in Objects(h1)
    BY <1>1, <1>2, <1>5 DEF Objects
  <2>2. \A c \in Apps : h1.appActive[c] = IF c = a THEN o ELSE g.appActive[c]
    BY <1>2, <1>5 DEF Libraries
  <2> QED
    BY <1>2, <1>5, <2>1, <2>2 DEF ActiveOK
<1>8. y \in Libraries /\ EntriesOK(y, {}) /\ SameHolders(h1, y)
  <2>1. CASE fresh = {}
    <3>1. o \in Entries(g.children[a])
      BY <1>1, <1>2, <2>1 DEF EntriesOK
    <3> QED
      BY <1>3, <1>5, <1>6, <2>1, <3>1 DEF SameHolders
  <2>2. CASE fresh = {o}
    <3>1. o \notin Entries(g.children[a])
      BY <1>1, <1>2, <2>2 DEF EntriesOK
    <3>2. LET u == AddEntry(h1, o, a) IN u \in Libraries /\ EntriesOK(u, {}) /\ SameHolders(h1, u)
      BY <1>1, <1>2, <1>5, <1>6, <2>2, AddEntryFact
    <3> QED
      BY <1>3, <3>1, <3>2
  <2> QED
    BY <2>1, <2>2
<1>9. PlacesOK(y) /\ ActiveOK(y)
  BY <1>2, <1>5, <1>7, <1>8 DEF PlacesOK, ActiveOK, SameHolders, Objects, InPlace
<1>10. /\ \A z \in Xids : y.windows[z] = IF z = x THEN o ELSE h.windows[z]
       /\ \A j \in Keys : y.sleeping[j] = IF j = k THEN None ELSE h.sleeping[j]
       /\ y.hibernating \subseteq h.hibernating /\ o # None /\ y.parent = g.parent
  BY <1>1, <1>2, <1>5, <1>8 DEF Holders, SameHolders
<1>11. \A p \in Objs : h.parent[p] # None => y.parent[p] = h.parent[p]
  BY <1>1, <1>2, <1>10 DEF Holders
<1> HIDE DEF o
<1> QED
  BY <1>1, <1>8, <1>9, <1>10, <1>11 DEF ListedOK, LibraryOK, y, g, k

(* A window whose properties can be read no more when it is added. *)
LEMMA AbortFact ==
  ASSUME NEW h, LibraryOK(h), NEW x \in Xids, h.windows[x] = None, x \notin Entries(stack)
  PROVE  ListedOK(h, x, AbortWindow(NewObject(h, x), x))
<1> DEFINE g == NewObject(h, x)
           o == g.windows[x]
           k == KeyOf[x]
           a == AppOf[x]
           fresh == IF h.sleeping[k] = None THEN {o} ELSE {}
           w == [g.windows EXCEPT ![x] = None]
           h1 == [g EXCEPT !.windows = w]
           y == AbortWindow(g, x)
<1>1. /\ h \in Libraries /\ Holders(h) /\ PlacesOK(h) /\ k \in Keys /\ a \in Apps
      /\ None \notin Objs \union Apps
  BY HoldersFact, HdWmAssumption DEF LibraryOK, Keys
<1>2. /\ g \in Libraries /\ PlacesOK(g) /\ EntriesOK(g, fresh) /\ ActiveOK(g)
      /\ o \in Objs /\ g.parent[o] = a /\ g.active = h.active
      /\ g.windows = [h.windows EXCEPT ![x] = o] /\ g.hibernating \subseteq h.hibernating
      /\ g.sleeping = [h.sleeping EXCEPT ![k] = None]
      /\ h.sleeping[k] # None => o = h.sleeping[k] /\ g.parent = h.parent
      /\ h.sleeping[k] = None => h.parent[o] = None /\ g.parent = [h.parent EXCEPT ![o] = a]
  <2>1. NewOK(h, x, g)
    BY NewFact
  <2> HIDE DEF g
  <2> QED
    BY ONLY <2>1 DEF NewOK
<1>3. y = Finalize(h1, o)
  BY DEF AbortWindow
<1>4. w \in [Xids -> Objs \union {None}]
  BY <1>2 DEF Libraries
<1> HIDE DEF g, y, k, a, w
<1>5. /\ h1 \in Libraries /\ h1.windows = w /\ h1.sleeping = g.sleeping /\ h1.parent = g.parent
      /\ h1.active = g.active /\ h1.lastActive = g.lastActive /\ h1.appActive = g.appActive
      /\ h1.hibernating = g.hibernating /\ h1.applications = g.applications
      /\ h1.children = g.children /\ h1.buttons = g.buttons /\ h1.refresh = g.refresh
  BY <1>2, <1>4 DEF Libraries
<1> HIDE DEF h1
<1>6. EntriesOK(h1, fresh) /\ ActiveOK(h1) /\ (fresh = {} \/ fresh = {o})
  BY <1>2, <1>5 DEF EntriesOK, ActiveOK, Objects
<1> HIDE DEF fresh, o
<1>7. /\ y \in Libraries /\ EntriesOK(y, {}) /\ ActiveOK(y)
      /\ y.windows = h1.windows /\ y.sleeping = h1.sleeping /\ y.hibernating = h1.hibernating
      /\ y.parent = [h1.parent EXCEPT ![o] = None] /\ y.active = Unless(h1.active, o)
  BY <1>1, <1>2, <1>3, <1>5, <1>6, FinalizeFact
<1>8. Holders(g) /\ g.windows[x] # None
  BY <1>1, <1>2, HoldersFact DEF o
<1>9. PlacesOK(y)
  BY <1>2, <1>5, <1>7, <1>8, GoneFact DEF w, o
<1>10. /\ \A z \in Xids : y.windows[z] = h.windows[z]
       /\ \A j \in Keys : y.sleeping[j] = IF j = k THEN None ELSE h.sleeping[j]
       /\ y.hibernating \subseteq h.hibernating /\ y.parent = [g.parent EXCEPT ![o] = None]
  BY <1>1, <1>2, <1>5, <1>7 DEF Holders, w
<1>11. \A p \in Objs : h.parent[p] # None /\ y.parent[p] # h.parent[p] => p = h.sleeping[k]
  BY <1>1, <1>2, <1>10 DEF Holders
<1>12. \A z \in Xids : h.windows[z] # None => h.windows[z] # o
  <2>1. CASE h.sleeping[k] # None
    BY <1>1, <1>2, <2>1 DEF PlacesOK
  <2>2. CASE h.sleeping[k] = None
    <3> SUFFICES ASSUME NEW z \in Xids, h.windows[z] # None PROVE h.windows[z] # o
      OBVIOUS
    <3>1. h.parent[h.windows[z]] = AppOf[z] /\ AppOf[z] \in Apps
      BY <1>1, HdWmAssumption DEF PlacesOK
    <3> QED
      BY <1>1, <1>2, <2>2, <3>1
  <2> QED
    BY <2>1, <2>2
<1>13. NoneRaised(h, y)
  BY <1>2, <1>5, <1>7, <1>10, <1>12 DEF NoneRaised, Unless
<1> QED
  BY <1>1, <1>7, <1>9, <1>10, <1>11, <1>13 DEF ListedOK, LibraryOK, y, g, k

LEMMA ListedFact ==
  ASSUME NEW h, LibraryOK(h), NEW x \in Xids, NEW early \in BOOLEAN
  PROVE  ListedOK(h, x, ListedWindow(h, x, early))
<1>1. CASE h.windows[x] # None
  BY <1>1, SameFact DEF ListedWindow
<1>2. CASE h.windows[x] = None /\ x \in Entries(stack)
  BY <1>2, AddWindowFact DEF ListedWindow
<1>3. CASE h.windows[x] = None /\ x \notin Entries(stack) /\ early
  BY <1>3, SameFact DEF ListedWindow
<1>4. CASE h.windows[x] = None /\ x \notin Entries(stack) /\ ~early
  BY <1>4, AbortFact DEF ListedWindow
<1> QED
  BY <1>1, <1>2, <1>3, <1>4

LEMMA NoneRaisedFact ==
  ASSUME NEW h, NEW g, NEW y, NoneRaised(h, g), NoneRaised(g, y)
  PROVE  NoneRaised(h, y)
BY DEF NoneRaised

(* While keys tell windows apart no window that hibernates has the key of an *)
(* awake one, and nothing that hibernates is lost to another window.         *)
KeysApart(h) == \A x \in Xids : h.windows[x] # None => h.sleeping[KeyOf[x]] = None

Injective == \A x, y \in Xids : KeyOf[x] = KeyOf[y] => x = y

(* After the first n windows of the order have left the hash. *)
StolenOK(h, order, n, g) ==
  /\ LibraryOK(g) /\ g.hibernating = h.hibernating /\ NoneRaised(h, g)
  /\ \A x \in Xids : g.windows[x] = IF \E i \in 1 .. n : order[i] = x THEN None ELSE h.windows[x]
  /\ Injective /\ KeysApart(h) =>
       /\ KeysApart(g)
       /\ \A p \in Objs : h.parent[p] \in h.hibernating => g.parent[p] = h.parent[p]
       /\ \A x \in Xids : (\A i \in 1 .. n : order[i] # x) => g.sleeping[KeyOf[x]] = h.sleeping[KeyOf[x]]

(* One more window leaves the hash. *)
LEMMA StolenFact ==
  ASSUME NEW h, LibraryOK(h), NEW L \in Nat, NEW order \in [1 .. L -> Xids], Once(order),
         NEW n \in 0 .. L, n < L, NEW g, StolenOK(h, order, n, g), h.windows[order[n + 1]] # None
  PROVE  StolenOK(h, order, n + 1, Steal(g, order[n + 1]))
<1> DEFINE x == order[n + 1]
           y == Steal(g, x)
           k == KeyOf[x]
<1>1. /\ n + 1 \in 1 .. L /\ x \in Xids /\ \A i \in 1 .. n : i \in 1 .. L /\ i # n + 1
      /\ \A i \in 1 .. n + 1 : i \in 1 .. n \/ i = n + 1
      /\ 1 .. n \subseteq 1 .. n + 1 /\ n + 1 \in 1 .. n + 1
  OBVIOUS
<1>2. \A i \in 1 .. n : order[i] # x
  BY <1>1 DEF Once
<1>3. /\ LibraryOK(g) /\ g.hibernating = h.hibernating /\ NoneRaised(h, g)
      /\ \A z \in Xids : g.windows[z] = IF \E i \in 1 .. n : order[i] = z THEN None ELSE h.windows[z]
  BY DEF StolenOK
<1>4. g.windows[x] = h.windows[x] /\ g.windows[x] # None
  BY <1>1, <1>2, <1>3
<1> HIDE DEF x
<1>5. /\ LibraryOK(y) /\ NoneRaised(g, y) /\ y.hibernating = g.hibernating
      /\ y.windows = [g.windows EXCEPT ![x] = None]
      /\ y.sleeping = IF AppOf[x] \in g.hibernating
                      THEN [g.sleeping EXCEPT ![KeyOf[x]] = g.windows[x]] ELSE g.sleeping
      /\ y.parent = IF AppOf[x] \notin g.hibernating
                    THEN [g.parent EXCEPT ![g.windows[x]] = None]
                    ELSE IF g.sleeping[KeyOf[x]] = None THEN g.parent
                    ELSE [g.parent EXCEPT ![g.sleeping[KeyOf[x]]] = None]
  BY <1>1, <1>3, <1>4, StealFact
<1> HIDE DEF y
<1>6. LibraryOK(y) /\ y.hibernating = h.hibernating /\ NoneRaised(h, y)
  BY <1>3, <1>5, NoneRaisedFact
<1>7. \A z \in Xids : y.windows[z] = IF z = x THEN None ELSE g.windows[z]
  BY <1>3, <1>5, HoldersFact DEF LibraryOK, Holders
<1>8. \A z \in Xids : (\E i \in 1 .. n + 1 : order[i] = z) <=> z = x \/ \E i \in 1 .. n : order[i] = z
  BY <1>1 DEF x
<1>9. ASSUME Injective, KeysApart(h)
      PROVE  /\ KeysApart(y)
             /\ \A p \in Objs : h.parent[p] \in h.hibernating => y.parent[p] = h.parent[p]
             /\ \A z \in Xids : (\A i \in 1 .. n + 1 : order[i] # z) =>
                  y.sleeping[KeyOf[z]] = h.sleeping[KeyOf[z]]
  <2>1. /\ KeysApart(g)
        /\ \A p \in Objs : h.parent[p] \in h.hibernating => g.parent[p] = h.parent[p]
        /\ \A z \in Xids : (\A i \in 1 .. n : order[i] # z) =>
             g.sleeping[KeyOf[z]] = h.sleeping[KeyOf[z]]
    BY <1>9 DEF StolenOK
  <2>2. /\ Holders(g) /\ k \in Keys /\ g.sleeping[k] = None /\ g.parent[g.windows[x]] = AppOf[x]
        /\ \A z \in Xids : KeyOf[z] \in Keys /\ (z # x => KeyOf[z] # k)
    BY <1>1, <1>3, <1>4, <1>9, <2>1, HoldersFact DEF LibraryOK, PlacesOK, KeysApart, Keys, Injective
  <2>3. \A z \in Xids : z # x => y.sleeping[KeyOf[z]] = g.sleeping[KeyOf[z]]
    BY <1>5, <2>2 DEF Holders
  <2>4. KeysApart(y)
    BY <1>7, <2>1, <2>3 DEF KeysApart
  <2>5. \A p \in Objs : h.parent[p] \in h.hibernating => y.parent[p] = h.parent[p]
    <3> SUFFICES ASSUME NEW p \in Objs, h.parent[p] \in h.hibernating PROVE y.parent[p] = g.parent[p]
      BY <2>1
    <3>1. AppOf[x] \notin g.hibernating => p # g.windows[x]
      BY <1>3, <2>1, <2>2
    <3> QED
      BY <1>5, <2>2, <3>1 DEF Holders
  <2>6. \A z \in Xids : (\A i \in 1 .. n + 1 : order[i] # z) =>
                  y.sleeping[KeyOf[z]] = h.sleeping[KeyOf[z]]
    BY <1>1, <1>8, <2>1, <2>3
  <2> QED
    BY <2>4, <2>5, <2>6
<1> QED
  BY <1>3, <1>6, <1>7, <1>8, <1>9 DEF StolenOK, x, y

(* All windows that are not listed leave the hash. *)
LEMMA StealAllFact ==
  ASSUME NEW h, LibraryOK(h), NEW L \in Nat, NEW order \in [1 .. L -> Xids], Once(order),
         Len(order) = L, \A n \in 1 .. L : h.windows[order[n]] # None
  PROVE  StolenOK(h, order, L, StealAll(h, order))
<1> DEFINE Step(x, n) == Steal(x, order[n])
           F(g, k) == [n \in 0 .. k |-> IF n = 0 THEN h ELSE Step(g[n - 1], n)]
           after == CHOOSE g : g = F(g, L)
<1>1. StealAll(h, order) = after[L]
  BY DEF StealAll
<1>2. \A x : \A n \in 0 .. L : n < L /\ StolenOK(h, order, n, x) =>
        StolenOK(h, order, n + 1, Step(x, n + 1))
  <2> SUFFICES ASSUME NEW x, NEW n \in 0 .. L, n < L, StolenOK(h, order, n, x)
               PROVE  StolenOK(h, order, n + 1, Step(x, n + 1))
    OBVIOUS
  <2>1. n + 1 \in 1 .. L
    OBVIOUS
  <2>2. h.windows[order[n + 1]] # None
    BY <2>1
  <2> QED
    BY <2>2, StolenFact
<1>3. StolenOK(h, order, 0, h)
  BY DEF StolenOK, NoneRaised
<1> HIDE DEF Step
<1>4. \E g : g = F(g, L)
  <2> DEFINE S == {k \in Nat : \E g : g = F(g, k)}
  <2>1. 0 \in S
    <3> DEFINE g == [n \in 0 .. 0 |-> h]
    <3>1. g = F(g, 0)
      OBVIOUS
    <3> QED
      BY <3>1
  <2>2. ASSUME NEW k \in 0 .. L, k \in S PROVE k + 1 \in S
    <3>1. PICK g : g = F(g, k)
      BY <2>2
    <3> DEFINE f == [n \in 0 .. k + 1 |-> IF n = 0 THEN h ELSE Step(g[n - 1], n)]
    <3>2. \A n \in 0 .. k : f[n] = g[n]
      <4> TAKE n \in 0 .. k
      <4>1. n \in 0 .. k + 1 /\ f[n] = IF n = 0 THEN h ELSE Step(g[n - 1], n)
        OBVIOUS
      <4>2. g[n] = IF n = 0 THEN h ELSE Step(g[n - 1], n)
        BY <3>1
      <4> QED
        BY <4>1, <4>2
    <3>3. f = F(f, k + 1)
      <4>1. \A n \in 0 .. k + 1 : n # 0 => n - 1 \in 0 .. k
        OBVIOUS
      <4>2. \A n \in 0 .. k + 1 : n # 0 => f[n - 1] = g[n - 1]
        BY ONLY <3>2, <4>1
      <4> QED
        BY <4>2
    <3> HIDE DEF f
    <3>4. k + 1 \in Nat
      OBVIOUS
    <3> QED
      BY <3>3, <3>4
  <2> HIDE DEF S
  <2>3. 0 .. L \subseteq S
    BY <2>1, <2>2, StepsFact
  <2>4. L \in S
    BY <2>3
  <2> QED
    BY <2>4 DEF S
<1>5. after = F(after, L)
  BY <1>4
<1> HIDE DEF after
<1>6. 0 .. L \subseteq {n \in 0 .. L : StolenOK(h, order, n, after[n])}
  <2> DEFINE S == {n \in 0 .. L : StolenOK(h, order, n, after[n])}
  <2>1. 0 \in S
    <3>1. after[0] = h /\ 0 \in 0 .. L
      BY <1>5
    <3> QED
      BY <1>3, <3>1
  <2>2. ASSUME NEW n \in 0 .. L, n \in S, n < L PROVE n + 1 \in S
    <3>1. n + 1 \in 1 .. L /\ n + 1 \in 0 .. L /\ n + 1 # 0 /\ n + 1 - 1 = n
      BY <2>2
    <3>2. after[n + 1] = Step(after[n], n + 1)
      BY <1>5, <3>1
    <3> QED
      BY <1>2, <2>2, <3>1, <3>2
  <2> HIDE DEF S
  <2>3. 0 .. L \subseteq S
    BY <2>1, <2>2, StepsFact
  <2> QED
    BY <2>3 DEF S
<1>7. StolenOK(h, order, L, after[L])
  BY <1>6
<1> QED
  BY <1>1, <1>7

(* After the first n windows of the list have been looked up. *)
LookedUpOK(h, list, n, g) ==
  /\ LibraryOK(g) /\ g.hibernating \subseteq h.hibernating
  /\ \A z \in Xids : h.windows[z] # None => g.windows[z] = h.windows[z]
  /\ \A z \in Xids : g.windows[z] # None <=>
       h.windows[z] # None \/ (z \in Entries(stack) /\ \E i \in 1 .. n : list[i] = z)
  /\ (\A i \in 1 .. n : list[i] \in Entries(stack) => h.windows[list[i]] # None) => NoneRaised(h, g)
  /\ KeysApart(h) => KeysApart(g)
  /\ \A k \in Keys : g.sleeping[k] \in {h.sleeping[k], None}
  /\ \A p \in Objs : h.parent[p] # None /\ g.parent[p] # h.parent[p] =>
       \E i \in 1 .. n : list[i] \notin Entries(stack) /\ p = h.sleeping[KeyOf[list[i]]]

(* One more window of the list is looked up. *)
LEMMA LookedUpFact ==
  ASSUME NEW h, LibraryOK(h), NEW list \in Seq(Xids), NEW early \in BOOLEAN,
         NEW n \in 0 .. Len(list), n < Len(list), NEW g, LookedUpOK(h, list, n, g)
  PROVE  LookedUpOK(h, list, n + 1, ListedWindow(g, list[n + 1], early))
<1> DEFINE x == list[n + 1]
           y == ListedWindow(g, x, early)
           Shown == Entries(stack)
<1>1. /\ n + 1 \in 1 .. Len(list) /\ x \in Xids
      /\ \A i \in 1 .. n + 1 : i \in 1 .. n \/ i = n + 1
      /\ 1 .. n \subseteq 1 .. n + 1 /\ n + 1 \in 1 .. n + 1
  OBVIOUS
<1>2. /\ LibraryOK(g) /\ g.hibernating \subseteq h.hibernating
      /\ \A z \in Xids : h.windows[z] # None => g.windows[z] = h.windows[z]
      /\ \A z \in Xids : g.windows[z] # None <=>
           h.windows[z] # None \/ (z \in Shown /\ \E i \in 1 .. n : list[i] = z)
      /\ (\A i \in 1 .. n : list[i] \in Shown => h.windows[list[i]] # None) => NoneRaised(h, g)
      /\ KeysApart(h) => KeysApart(g)
      /\ \A k \in Keys : g.sleeping[k] \in {h.sleeping[k], None}
      /\ \A p \in Objs : h.parent[p] # None /\ g.parent[p] # h.parent[p] =>
           \E i \in 1 .. n : list[i] \notin Shown /\ p = h.sleeping[KeyOf[list[i]]]
  BY DEF LookedUpOK
<1>3. ListedOK(g, x, y)
  BY <1>1, <1>2, ListedFact
<1> HIDE DEF y, Shown
<1>4. /\ LibraryOK(y) /\ y.hibernating \subseteq g.hibernating
      /\ \A z \in Xids : z # x \/ g.windows[x] # None => y.windows[z] = g.windows[z]
      /\ y.windows[x] # None <=> g.windows[x] # None \/ x \in Shown
      /\ x \notin Shown \/ g.windows[x] # None => NoneRaised(g, y)
      /\ \A k \in Keys : y.sleeping[k] \in {g.sleeping[k], None}
      /\ g.windows[x] = None /\ y.windows[x] # None => y.sleeping[KeyOf[x]] = None
      /\ \A p \in Objs : g.parent[p] # None /\ y.parent[p] # g.parent[p] =>
           x \notin Shown /\ p = g.sleeping[KeyOf[x]]
  BY ONLY <1>3 DEF ListedOK, Shown
<1>5. \A z \in Xids : (\E i \in 1 .. n + 1 : list[i] = z) <=> z = x \/ \E i \in 1 .. n : list[i] = z
  BY <1>1
<1> HIDE DEF x
<1>6. \A z \in Xids : h.windows[z] # None => y.windows[z] = h.windows[z]
  BY <1>1, <1>2, <1>4
<1>7. \A z \in Xids : y.windows[z] # None <=>
           h.windows[z] # None \/ (z \in Shown /\ \E i \in 1 .. n + 1 : list[i] = z)
  <2> SUFFICES ASSUME NEW z \in Xids
               PROVE  y.windows[z] # None <=>
                        h.windows[z] # None \/ (z \in Shown /\ \E i \in 1 .. n + 1 : list[i] = z)
    OBVIOUS
  <2>1. CASE z = x
    BY <1>2, <1>4, <1>5, <2>1
  <2>2. CASE z # x
    BY <1>2, <1>4, <1>5, <2>2
  <2> QED
    BY <2>1, <2>2
<1>8. ASSUME \A i \in 1 .. n + 1 : list[i] \in Shown => h.windows[list[i]] # None
      PROVE  NoneRaised(h, y)
  <2>1. NoneRaised(h, g)
    BY <1>1, <1>2, <1>8
  <2>2. x \in Shown => h.windows[x] # None
    BY <1>1, <1>8 DEF x
  <2>3. NoneRaised(g, y)
    BY <1>1, <1>2, <1>4, <2>2
  <2> QED
    BY <2>1, <2>3, NoneRaisedFact
<1>9. ASSUME KeysApart(h) PROVE KeysApart(y)
  <2> SUFFICES ASSUME NEW z \in Xids, y.windows[z] # None PROVE y.sleeping[KeyOf[z]] = None
    BY DEF KeysApart
  <2>1. KeyOf[z] \in Keys
    BY DEF Keys
  <2>2. CASE g.windows[z] # None
    BY <1>2, <1>4, <1>9, <2>1, <2>2 DEF KeysApart
  <2>3. CASE g.windows[z] = None
    <3>1. z = x
      BY <1>1, <1>4, <2>3
    <3> QED
      BY <1>4, <2>3, <3>1
  <2> QED
    BY <2>2, <2>3
<1>10. \A k \in Keys : y.sleeping[k] \in {h.sleeping[k], None}
  BY <1>2, <1>4
<1>11. \A p \in Objs : h.parent[p] # None /\ y.parent[p] # h.parent[p] =>
         \E i \in 1 .. n + 1 : list[i] \notin Shown /\ p = h.sleeping[KeyOf[list[i]]]
  <2> SUFFICES ASSUME NEW p \in Objs, h.parent[p] # None, y.parent[p] # h.parent[p]
               PROVE  \E i \in 1 .. n + 1 : list[i] \notin Shown /\ p = h.sleeping[KeyOf[list[i]]]
    OBVIOUS
  <2>1. CASE g.parent[p] # h.parent[p]
    BY <1>1, <1>2, <2>1
  <2>2. CASE g.parent[p] = h.parent[p]
    <3>1. x \notin Shown /\ p = g.sleeping[KeyOf[x]] /\ KeyOf[x] \in Keys
      BY <1>1, <1>4, <2>2 DEF Keys
    <3>2. p = h.sleeping[KeyOf[x]]
      BY <1>2, <3>1, HdWmAssumption
    <3> QED
      BY <1>1, <3>1, <3>2 DEF x
  <2> QED
    BY <2>1, <2>2
<1>12. y.hibernating \subseteq h.hibernating
  BY <1>2, <1>4
<1> QED
  BY <1>4, <1>6, <1>7, <1>8, <1>9, <1>10, <1>11, <1>12 DEF LookedUpOK, x, y, Shown

(* All windows of the list are looked up. *)
LEMMA ListAllFact ==
  ASSUME NEW h, LibraryOK(h), NEW list \in Seq(Xids), NEW L \in Nat, Len(list) = L,
         NEW early \in BOOLEAN
  PROVE  LookedUpOK(h, list, L, ListAll(h, list, early))
<1> DEFINE Step(x, n) == ListedWindow(x, list[n], early)
           F(g, k) == [n \in 0 .. k |-> IF n = 0 THEN h ELSE Step(g[n - 1], n)]
           after == CHOOSE g : g = F(g, L)
<1>1. ListAll(h, list, early) = after[L]
  BY DEF ListAll
<1>2. \A x : \A n \in 0 .. L : n < L /\ LookedUpOK(h, list, n, x) =>
        LookedUpOK(h, list, n + 1, Step(x, n + 1))
  BY LookedUpFact
<1>3. LookedUpOK(h, list, 0, h)
  BY DEF LookedUpOK, NoneRaised
<1> HIDE DEF Step
<1>4. \E g : g = F(g, L)
  <2> DEFINE S == {k \in Nat : \E g : g = F(g, k)}
  <2>1. 0 \in S
    <3> DEFINE g == [n \in 0 .. 0 |-> h]
    <3>1. g = F(g, 0)
      OBVIOUS
    <3> QED
      BY <3>1
  <2>2. ASSUME NEW k \in 0 .. L, k \in S PROVE k + 1 \in S
    <3>1. PICK g : g = F(g, k)
      BY <2>2
    <3> DEFINE f == [n \in 0 .. k + 1 |-> IF n = 0 THEN h ELSE Step(g[n - 1], n)]
    <3>2. \A n \in 0 .. k : f[n] = g[n]
      <4> TAKE n \in 0 .. k
      <4>1. n \in 0 .. k + 1 /\ f[n] = IF n = 0 THEN h ELSE Step(g[n - 1], n)
        OBVIOUS
      <4>2. g[n] = IF n = 0 THEN h ELSE Step(g[n - 1], n)
        BY <3>1
      <4> QED
        BY <4>1, <4>2
    <3>3. f = F(f, k + 1)
      <4>1. \A n \in 0 .. k + 1 : n # 0 => n - 1 \in 0 .. k
        OBVIOUS
      <4>2. \A n \in 0 .. k + 1 : n # 0 => f[n - 1] = g[n - 1]
        BY ONLY <3>2, <4>1
      <4> QED
        BY <4>2
    <3> HIDE DEF f
    <3>4. k + 1 \in Nat
      OBVIOUS
    <3> QED
      BY <3>3, <3>4
  <2> HIDE DEF S
  <2>3. 0 .. L \subseteq S
    BY <2>1, <2>2, StepsFact
  <2>4. L \in S
    BY <2>3
  <2> QED
    BY <2>4 DEF S
<1>5. after = F(after, L)
  BY <1>4
<1> HIDE DEF after
<1>6. 0 .. L \subseteq {n \in 0 .. L : LookedUpOK(h, list, n, after[n])}
  <2> DEFINE S == {n \in 0 .. L : LookedUpOK(h, list, n, after[n])}
  <2>1. 0 \in S
    <3>1. after[0] = h /\ 0 \in 0 .. L
      BY <1>5
    <3> QED
      BY <1>3, <3>1
  <2>2. ASSUME NEW n \in 0 .. L, n \in S, n < L PROVE n + 1 \in S
    <3>1. n + 1 \in 1 .. L /\ n + 1 \in 0 .. L /\ n + 1 # 0 /\ n + 1 - 1 = n
      BY <2>2
    <3>2. after[n + 1] = Step(after[n], n + 1)
      BY <1>5, <3>1
    <3> QED
      BY <1>2, <2>2, <3>1, <3>2
  <2> HIDE DEF S
  <2>3. 0 .. L \subseteq S
    BY <2>1, <2>2, StepsFact
  <2> QED
    BY <2>3 DEF S
<1>7. LookedUpOK(h, list, L, after[L])
  BY <1>6
<1> QED
  BY <1>1, <1>7

(* What the library knows after it has read the list. *)
LEMMA ClientListFact ==
  ASSUME LibraryOK(hd), prop.list \in Seq(Xids), ProcessClientList(hd)
  PROVE  /\ LibraryOK(hd') /\ hd'.hibernating \subseteq hd.hibernating
         /\ AwakeIn(hd') = Entries(prop.list) \intersect (AwakeIn(hd) \union Entries(stack))
         /\ AllKnown => NoneRaised(hd, hd')
         /\ Injective /\ KeysApart(hd) =>
              /\ KeysApart(hd')
              /\ \A p \in Objs : hd.parent[p] \in hd.hibernating /\ hd'.parent[p] = None =>
                   \E x \in Entries(prop.list) \ Entries(stack) :
                     AppOf[x] = hd.parent[p] /\ hd.sleeping[KeyOf[x]] = p
<1> DEFINE gone == {x \in Xids : hd.windows[x] # None} \ Entries(prop.list)
           L == Cardinality(gone)
           M == Len(prop.list)
<1>1. L \in Nat
  <2>1. IsFiniteSet(gone)
    BY HdWmAssumption, FS_Subset
  <2> HIDE DEF gone
  <2> QED
    BY <2>1, FS_CardinalityType
<1>2. PICK order \in Orders(gone), early \in BOOLEAN :
        hd' = ListAll(StealAll(hd, order), prop.list, early)
  BY DEF ProcessClientList
<1>3. order \in [1 .. L -> gone] /\ Once(order) /\ Entries(order) = gone
  BY DEF Orders
<1> HIDE DEF L
<1>4. /\ order \in [1 .. L -> Xids] /\ Len(order) = L /\ DOMAIN order = 1 .. L
      /\ \A n \in 1 .. L : hd.windows[order[n]] # None
      /\ \A x \in Xids : (\E n \in 1 .. L : order[n] = x) <=> x \in gone
  BY <1>1, <1>3 DEF Entries
<1> DEFINE s == StealAll(hd, order)
<1>5. StolenOK(hd, order, L, s)
  BY <1>1, <1>3, <1>4, StealAllFact
<1> HIDE DEF s
<1>6. /\ LibraryOK(s) /\ s.hibernating = hd.hibernating /\ NoneRaised(hd, s)
      /\ \A x \in Xids : s.windows[x] = IF x \in gone THEN None ELSE hd.windows[x]
      /\ Injective /\ KeysApart(hd) =>
           /\ KeysApart(s)
           /\ \A p \in Objs : hd.parent[p] \in hd.hibernating => s.parent[p] = hd.parent[p]
           /\ \A x \in Xids \ gone : s.sleeping[KeyOf[x]] = hd.sleeping[KeyOf[x]]
  BY <1>4, <1>5 DEF StolenOK
<1>7. LookedUpOK(s, prop.list, M, hd')
  BY <1>2, <1>6, ListAllFact DEF s
<1>8. M \in Nat /\ DOMAIN prop.list = 1 .. M /\ \A i \in 1 .. M : prop.list[i] \in Xids
  OBVIOUS
<1> HIDE DEF M
<1>9. \A x : x \in Entries(prop.list) <=> \E i \in 1 .. M : prop.list[i] = x
  BY <1>8 DEF Entries
<1>10. /\ LibraryOK(hd') /\ hd'.hibernating \subseteq s.hibernating
       /\ \A z \in Xids : hd'.windows[z] # None <=>
            s.windows[z] # None \/ (z \in Entries(stack) /\ z \in Entries(prop.list))
       /\ (\A x \in Entries(prop.list) \intersect Entries(stack) : s.windows[x] # None) => NoneRaised(s, hd')
       /\ KeysApart(s) => KeysApart(hd')
       /\ \A p \in Objs : s.parent[p] # None /\ hd'.parent[p] # s.parent[p] =>
            \E x \in Entries(prop.list) \ Entries(stack) : p = s.sleeping[KeyOf[x]]
  BY <1>7, <1>9 DEF LookedUpOK
<1>11. AwakeIn(hd') = Entries(prop.list) \intersect (AwakeIn(hd) \union Entries(stack))
  <2>1. Entries(prop.list) \subseteq Xids
    BY <1>8, <1>9
  <2> QED
    BY <1>6, <1>10, <2>1 DEF AwakeIn
<1>12. AllKnown => NoneRaised(hd, hd')
  <2> SUFFICES ASSUME AllKnown PROVE NoneRaised(hd, hd')
    OBVIOUS
  <2>1. \A x \in Entries(prop.list) \intersect Entries(stack) : s.windows[x] # None
    BY <1>6 DEF AllKnown, AwakeIn
  <2> QED
    BY <1>6, <1>10, <2>1, NoneRaisedFact
<1>13. ASSUME Injective, KeysApart(hd)
       PROVE  /\ KeysApart(hd')
              /\ \A p \in Objs : hd.parent[p] \in hd.hibernating /\ hd'.parent[p] = None =>
                   \E x \in Entries(prop.list) \ Entries(stack) :
                     AppOf[x] = hd.parent[p] /\ hd.sleeping[KeyOf[x]] = p
  <2>1. KeysApart(hd')
    BY <1>6, <1>10, <1>13
  <2>2. ASSUME NEW p \in Objs, hd.parent[p] \in hd.hibernating, hd'.parent[p] = None
        PROVE  \E x \in Entries(prop.list) \ Entries(stack) :
                     AppOf[x] = hd.parent[p] /\ hd.sleeping[KeyOf[x]] = p
    <3>1. s.parent[p] = hd.parent[p] /\ hd.parent[p] # None
      BY <1>6, <1>13, <2>2, HdWmAssumption DEF LibraryOK, Libraries
    <3>2. PICK x \in Entries(prop.list) \ Entries(stack) : p = s.sleeping[KeyOf[x]]
      BY <1>10, <2>2, <3>1
    <3>3. x \in Xids \ gone
      BY <1>8, <1>9, <3>2
    <3>4. hd.sleeping[KeyOf[x]] = p
      BY <1>6, <1>13, <3>2, <3>3
    <3>5. hd.parent[p] = AppOf[x]
      BY <3>3, <3>4, HdWmAssumption DEF LibraryOK, PlacesOK
    <3> QED
      BY <3>2, <3>4, <3>5
  <2> QED
    BY <2>1, <2>2
<1> QED
  BY <1>6, <1>10, <1>11, <1>12, <1>13

-----------------------------------------------------------------------------
(* Events that are sent and handled. *)

(* An event that is sent last. *)
LEMMA SentFact ==
  ASSUME NEW S, NEW es \in Seq(S), NEW e
  PROVE  LET fs == Append(es, e)
         IN /\ \A k : (Announced(es, k) \/ e = k => Announced(fs, k))
                      /\ (Announced(fs, k) => Announced(es, k) \/ e = k)
                      /\ (Behind(es, k) => Behind(fs, k))
                      /\ (Announced(es, "list") /\ e = k => Behind(fs, k))
            /\ (e # "current" /\ Overtaken(es)) \/ e = "showing" => Overtaken(fs)
<1> DEFINE fs == Append(es, e)
           l == Len(es)
<1>1. /\ l \in Nat /\ DOMAIN es = 1 .. l /\ DOMAIN fs = 1 .. l + 1 /\ fs[l + 1] = e
      /\ \A n \in 1 .. l : fs[n] = es[n]
  OBVIOUS
<1>2. /\ \A n \in 1 .. l : n \in 1 .. l + 1 /\ n < l + 1
      /\ l + 1 \in 1 .. l + 1 /\ \A n \in 1 .. l + 1 : n \in 1 .. l \/ n = l + 1
  BY <1>1
<1> HIDE DEF fs, l
<1>3. \A k : (Announced(es, k) \/ e = k => Announced(fs, k))
             /\ (Announced(fs, k) => Announced(es, k) \/ e = k)
  BY <1>1, <1>2 DEF Announced
<1>4. \A k : Behind(es, k) => Behind(fs, k)
  BY <1>1, <1>2 DEF Behind
<1>5. \A k : Announced(es, "list") /\ e = k => Behind(fs, k)
  BY <1>1, <1>2 DEF Announced, Behind
<1>6. e = "showing" => Overtaken(fs)
  BY <1>1, <1>2 DEF Overtaken
<1>7. e # "current" /\ Overtaken(es) => Overtaken(fs)
  <2> SUFFICES ASSUME e # "current", Overtaken(es), NEW j \in 1 .. l + 1, fs[j] = "current"
               PROVE  \E k \in 1 .. l + 1 : k > j /\ fs[k] = "showing"
    BY <1>1 DEF Overtaken
  <2>1. j \in 1 .. l /\ es[j] = "current"
    BY <1>1, <1>2
  <2>2. PICK k \in 1 .. l : k > j /\ es[k] = "showing"
    BY <1>1, <2>1 DEF Overtaken
  <2> QED
    BY <1>1, <1>2, <2>2
<1> QED
  BY <1>3, <1>4, <1>5, <1>6, <1>7 DEF fs

(* The first event is handled. *)
LEMMA HandledFact ==
  ASSUME NEW S, NEW es \in Seq(S), es # <<>>
  PROVE  LET fs == Tail(es)
             e == Head(es)
         IN /\ fs \in Seq(S) /\ e \in S
            /\ \A k : /\ Announced(fs, k) => Announced(es, k)
                      /\ Announced(es, k) /\ e # k => Announced(fs, k)
                      /\ Behind(es, k) => Announced(fs, k)
                      /\ Behind(es, k) /\ e # "list" => Behind(fs, k)
            /\ Overtaken(es) => Overtaken(fs)
            /\ Overtaken(es) /\ e = "current" => Announced(es, "showing")
<1> DEFINE fs == Tail(es)
           e == Head(es)
           l == Len(es)
<1>1. /\ l \in Nat /\ l >= 1 /\ DOMAIN es = 1 .. l /\ e = es[1] /\ fs \in Seq(S) /\ e \in S
      /\ DOMAIN fs = 1 .. l - 1 /\ \A n \in 1 .. l - 1 : fs[n] = es[n + 1]
  OBVIOUS
<1>2. /\ 1 \in 1 .. l /\ \A n \in 1 .. l - 1 : n + 1 \in 1 .. l
      /\ \A n \in 1 .. l : n = 1 \/ (n - 1 \in 1 .. l - 1 /\ n - 1 + 1 = n)
      /\ \A m, n \in 1 .. l : m < n => m - 1 < n - 1 /\ n # 1
      /\ \A m, n \in 1 .. l - 1 : m + 1 < n + 1 <=> m < n
  BY <1>1
<1> HIDE DEF fs, l, e
<1>3. \A n \in 1 .. l : n # 1 => n - 1 \in 1 .. l - 1 /\ fs[n - 1] = es[n]
  BY <1>1, <1>2
<1>4. \A k : /\ Announced(fs, k) => Announced(es, k)
             /\ Announced(es, k) /\ e # k => Announced(fs, k)
  BY <1>1, <1>2, <1>3 DEF Announced
<1>5. ASSUME NEW k, Behind(es, k)
      PROVE  Announced(fs, k) /\ (e # "list" => Behind(fs, k))
  <2>1. PICK i \in 1 .. l, j \in 1 .. l : i < j /\ es[i] = "list" /\ es[j] = k
    BY <1>1, <1>5 DEF Behind
  <2>2. j - 1 \in 1 .. l - 1 /\ fs[j - 1] = k
    BY <1>2, <1>3, <2>1
  <2>3. e # "list" => i - 1 \in 1 .. l - 1 /\ fs[i - 1] = "list" /\ i - 1 < j - 1
    BY <1>1, <1>2, <1>3, <2>1
  <2> QED
    BY <1>1, <2>2, <2>3 DEF Announced, Behind
<1>6. ASSUME Overtaken(es) PROVE Overtaken(fs) /\ (e = "current" => Announced(es, "showing"))
  <2>1. ASSUME NEW j \in 1 .. l - 1, fs[j] = "current"
        PROVE  \E k \in 1 .. l - 1 : k > j /\ fs[k] = "showing"
    <3>1. PICK k \in 1 .. l : k > j + 1 /\ es[k] = "showing"
      BY <1>1, <1>2, <1>6, <2>1 DEF Overtaken
    <3>2. k # 1 /\ k - 1 > j
      BY <1>1, <3>1
    <3> QED
      BY <1>3, <3>1, <3>2
  <2>2. e = "current" => Announced(es, "showing")
    BY <1>1, <1>2, <1>6 DEF Overtaken, Announced
  <2> QED
    BY <1>1, <2>1, <2>2 DEF Overtaken
<1> QED
  BY <1>1, <1>4, <1>5, <1>6 DEF fs, e

(* The type invariant without the library. *)
WorldOK ==
  /\ running \subseteq Apps /\ timers \subseteq running
  /\ stack \in Seq(Xids) /\ desktop \in BOOLEAN /\ asked \in BOOLEAN
  /\ prop \in [list : Seq(Xids), showing : BOOLEAN, current : Xids \union {None}]
  /\ events \in Seq({"list", "showing", "current"})
  /\ Once(stack)

(* The invariant in three parts: the world, the library, the news on their way. *)
LEMMA IInvParts == HdWmIInv <=> WorldOK /\ LibraryOK(hd) /\ NewsOK
BY DEF HdWmIInv, HdWmTypeOK, WorldOK, LibraryOK

(* The inductive invariant is strong enough. *)
LEMMA HdWmInvFact == HdWmIInv => SwitcherInv
<1> SUFFICES ASSUME HdWmIInv PROVE SwitcherInv
  OBVIOUS
<1>1. LibraryOK(hd) /\ hd \in Libraries /\ PlacesOK(hd) /\ EntriesOK(hd, {}) /\ ActiveOK(hd)
      /\ WorldOK /\ NewsOK /\ Holders(hd)
  BY IInvParts, HoldersFact DEF LibraryOK
<1>2. SwitcherComplete
  <2>1. Objects(hd) = InPlace(hd) \ {None}
    <3>1. Objects(hd) \subseteq InPlace(hd) \ {None}
      BY <1>1, HdWmAssumption DEF PlacesOK, Objects
    <3>2. \A x \in Xids : hd.windows[x] # None => hd.windows[x] \in Objects(hd)
      BY <1>1, HdWmAssumption DEF PlacesOK, Objects, Holders
    <3>3. \A x \in Xids : hd.sleeping[KeyOf[x]] # None => hd.sleeping[KeyOf[x]] \in Objects(hd)
      <4> SUFFICES ASSUME NEW x \in Xids, hd.sleeping[KeyOf[x]] # None
                   PROVE  hd.sleeping[KeyOf[x]] \in Objects(hd)
        OBVIOUS
      <4>1. /\ KeyOf[x] \in Keys /\ AppOf[x] \in Apps /\ AppOf[x] # None
            /\ hd.parent[hd.sleeping[KeyOf[x]]] = AppOf[x]
        BY <1>1, HdWmAssumption DEF PlacesOK, Keys
      <4> QED
        BY <1>1, <4>1 DEF Holders, Objects
    <3> QED
      BY <3>1, <3>2, <3>3 DEF InPlace, Keys
  <2>2. \A a \in Apps : Entries(hd.children[a]) = {o \in Objs : hd.parent[o] = a}
    BY <1>1 DEF EntriesOK
  <2> QED
    BY <1>1, <2>1, <2>2 DEF SwitcherComplete, EntriesOK, InPlace
<1>3. ActiveLive
  BY <1>1 DEF ActiveLive, ActiveOK
<1>4. ButtonsInStep
  BY <1>1 DEF ButtonsInStep, EntriesOK
<1>5. ActiveInStep
  <2> SUFFICES ASSUME events = <<>>, Published, ~asked
               PROVE  /\ desktop => hd.active = None
                      /\ Current # None => hd.active # None /\ hd.active = hd.windows[Current]
                      /\ AwakeIn(hd) = Entries(stack)
    BY DEF ActiveInStep, AwakeIn
  <2>1. \A k : ~Announced(events, k) /\ ~Behind(events, k)
    BY DEF Announced, Behind
  <2>2. prop.list = stack /\ prop.showing = desktop /\ prop.current = Current
    BY DEF Published
  <2>3. AwakeIn(hd) = Entries(stack)
    BY <1>1, <2>1, <2>2 DEF NewsOK, ListInStep
  <2>4. desktop => hd.active = None
    BY <1>1, <2>1, <2>2 DEF NewsOK, DesktopInStep
  <2>5. Current # None => hd.active # None /\ hd.active = hd.windows[Current]
    <3> SUFFICES ASSUME Current # None PROVE hd.active # None /\ hd.active = hd.windows[Current]
      OBVIOUS
    <3>1. hd.active = hd.windows[Current]
      BY <1>1, <2>1, <2>2 DEF NewsOK, CurrentInStep
    <3>2. Current \in Entries(stack)
      <4>1. stack \in Seq(Xids) /\ stack # <<>> /\ Current = stack[Len(stack)]
        BY <1>1 DEF WorldOK, Current
      <4>2. Len(stack) \in DOMAIN stack
        BY <4>1
      <4> QED
        BY <4>1, <4>2 DEF Entries
    <3> QED
      BY <2>3, <3>1, <3>2 DEF AwakeIn
  <2> QED
    BY <2>3, <2>4, <2>5
<1> QED
  BY <1>2, <1>3, <1>4, <1>5 DEF HdWmIInv, SwitcherInv

(* What the window manager shows is one of its windows. *)
LEMMA CurrentFact ==
  ASSUME WorldOK
  PROVE  Current # None => Current \in Entries(stack) /\ Current \in Xids /\ ~desktop
<1> SUFFICES ASSUME Current # None PROVE Current \in Entries(stack) /\ Current \in Xids /\ ~desktop
  OBVIOUS
<1>1. stack \in Seq(Xids) /\ stack # <<>> /\ Current = stack[Len(stack)] /\ ~desktop
  BY DEF WorldOK, Current
<1>2. Len(stack) \in DOMAIN stack
  BY <1>1
<1> QED
  BY <1>1, <1>2 DEF Entries

-----------------------------------------------------------------------------
(* The window manager: what it does to windows and properties. *)

(* A window is mapped: no news of it is on its way yet. *)
LEMMA MapWindowFact ==
  ASSUME HdWmIInv, NEW x \in Xids, MapWindow(x)
  PROVE  HdWmIInv'
<1>1. /\ WorldOK /\ LibraryOK(hd) /\ NewsOK /\ x \notin Entries(stack) /\ stack \in Seq(Xids)
      /\ Once(stack) /\ stack' = Append(stack, x) /\ desktop' = FALSE
      /\ running' = running /\ timers' = timers /\ asked' = asked /\ prop' = prop
      /\ events' = events /\ hd' = hd
  BY IInvParts DEF MapWindow, WorldOK
<1>2. prop.list = stack /\ prop.showing = desktop /\ prop.current = Current
  BY DEF MapWindow, Published
<1>3. /\ stack' \in Seq(Xids) /\ Once(stack') /\ DOMAIN stack' = 1 .. Len(stack) + 1
      /\ stack'[Len(stack) + 1] = x
  BY <1>1, AppendFact
<1>4. stack' # stack /\ Current' = x
  <2>1. Len(stack) \in Nat /\ Len(stack') = Len(stack) + 1 /\ stack' # <<>>
    BY <1>1
  <2> QED
    BY <1>1, <1>3, <2>1 DEF Current
<1>5. prop.current # x
  BY <1>1, <1>2, CurrentFact, HdWmAssumption
<1>6. prop.current # None => ~prop.showing
  BY <1>1, <1>2, CurrentFact
<1>7. WorldOK'
  BY <1>1, <1>3 DEF WorldOK
<1>8. NewsOK'
  BY <1>1, <1>2, <1>4, <1>5, <1>6 DEF NewsOK, ListInStep, ListCovers, HintInStep,
                                       DesktopInStep, CurrentInStep
<1> QED
  BY <1>1, <1>7, <1>8, IInvParts DEF HdWmIInv, HdWmTypeOK, WorldOK, LibraryOK

(* Another window comes to the top. *)
LEMMA RaiseWindowFact ==
  ASSUME HdWmIInv, NEW x \in Xids, Raise(x)
  PROVE  HdWmIInv'
<1> DEFINE t == TakenOut(stack, x)
<1>1. /\ WorldOK /\ LibraryOK(hd) /\ NewsOK /\ x \in Entries(stack) /\ stack \in Seq(Xids)
      /\ Once(stack) /\ stack' = Append(t, x) /\ desktop' = FALSE /\ Current # x
      /\ running' = running /\ timers' = timers /\ asked' = asked /\ prop' = prop
      /\ events' = events /\ hd' = hd
  BY IInvParts DEF Raise, WorldOK
<1>2. prop.list = stack /\ prop.showing = desktop /\ prop.current = Current
  BY DEF Raise, Published
<1>3. t \in Seq(Xids) /\ Once(t) /\ Entries(t) = Entries(stack) \ {x}
  BY <1>1, TakenOutFact
<1> HIDE DEF t
<1>4. /\ stack' \in Seq(Xids) /\ Once(stack') /\ DOMAIN stack' = 1 .. Len(t) + 1
      /\ stack'[Len(t) + 1] = x
  BY <1>1, <1>3, AppendFact
<1>5. Current' = x
  <2>1. Len(t) \in Nat /\ Len(stack') = Len(t) + 1 /\ stack' # <<>>
    BY <1>1, <1>3
  <2> QED
    BY <1>1, <1>4, <2>1 DEF Current
<1>6. prop.current # None => ~prop.showing
  BY <1>1, <1>2, CurrentFact
<1>7. WorldOK'
  BY <1>1, <1>4 DEF WorldOK
<1>8. NewsOK'
  <2>1. ListInStep'
    <3> SUFFICES ASSUME ~Announced(events, "list"), prop.list = stack' PROVE AwakeIn(hd) = Entries(stack')
      BY <1>1 DEF ListInStep
    <3> QED
      BY <1>1, <1>2 DEF NewsOK, ListInStep
  <2> QED
    BY <1>1, <1>2, <1>5, <1>6, <2>1 DEF NewsOK, ListCovers, HintInStep, DesktopInStep, CurrentInStep
<1> QED
  BY <1>1, <1>7, <1>8, IInvParts DEF HdWmIInv, HdWmTypeOK, WorldOK, LibraryOK

(* A window goes: what the library knows becomes too much, never too little. *)
LEMMA UnmapFact ==
  ASSUME HdWmIInv, NEW x \in Xids, Unmap(x)
  PROVE  HdWmIInv'
<1>1. /\ WorldOK /\ LibraryOK(hd) /\ NewsOK /\ x \in Entries(stack) /\ stack \in Seq(Xids)
      /\ Once(stack) /\ stack' = TakenOut(stack, x) /\ desktop' = desktop
      /\ running' = running /\ timers' = timers /\ asked' = asked /\ prop' = prop
      /\ events' = events /\ hd' = hd
  BY IInvParts DEF Unmap, WorldOK
<1>2. prop.list = stack /\ prop.showing = desktop /\ prop.current = Current
  BY DEF Unmap, Published
<1>3. stack' \in Seq(Xids) /\ Once(stack') /\ Entries(stack') = Entries(stack) \ {x} /\ stack' # stack
  BY <1>1, TakenOutFact
<1>4. WorldOK'
  BY <1>1, <1>3 DEF WorldOK
<1>5. AllKnown => AllKnown'
  BY <1>1, <1>3 DEF AllKnown
<1>6. ListInStep' /\ ListCovers' /\ HintInStep'
  BY <1>1, <1>2, <1>3 DEF NewsOK, ListInStep, ListCovers, HintInStep
<1>7. DesktopInStep'
  BY <1>1, <1>5 DEF NewsOK, DesktopInStep
<1>8. CurrentInStep'
  <2> SUFFICES ASSUME ~asked, Current' # None, prop.current = Current'
               PROVE  /\ Behind(events, "current") \/ AllKnown'
                      /\ Announced(events, "current") \/ hd.active = hd.windows[prop.current]
    BY <1>1 DEF CurrentInStep
  <2>1. Current # None /\ prop.current = Current
    BY <1>2
  <2> QED
    BY <1>1, <1>5, <2>1 DEF NewsOK, CurrentInStep
<1>9. NewsOK'
  BY <1>6, <1>7, <1>8 DEF NewsOK
<1> QED
  BY <1>1, <1>4, <1>9, IInvParts DEF HdWmIInv, HdWmTypeOK, WorldOK, LibraryOK

(* The desktop is shown. *)
LEMMA ShowDesktopFact ==
  ASSUME HdWmIInv, ShowDesktop
  PROVE  HdWmIInv'
<1>1. /\ WorldOK /\ LibraryOK(hd) /\ NewsOK /\ stack' = stack /\ desktop' = TRUE /\ asked' = FALSE
      /\ running' = running /\ timers' = timers /\ prop' = prop
      /\ events' = events /\ hd' = hd
  BY IInvParts DEF ShowDesktop
<1>2. prop.list = stack /\ prop.showing = desktop /\ prop.current = Current
  BY DEF ShowDesktop, Published
<1>3. WorldOK'
  BY <1>1 DEF WorldOK
<1>4. Current' = None
  BY <1>1 DEF Current
<1>5. NewsOK'
  BY <1>1, <1>2, <1>4 DEF NewsOK, ListInStep, ListCovers, HintInStep, DesktopInStep,
                          CurrentInStep, AllKnown
<1> QED
  BY <1>1, <1>3, <1>5, IInvParts DEF HdWmIInv, HdWmTypeOK, WorldOK, LibraryOK

(* A property is set: its event is the last one. *)
LEMMA PublishFact ==
  ASSUME HdWmIInv, Publish
  PROVE  HdWmIInv'
<1>1. /\ WorldOK /\ LibraryOK(hd) /\ NewsOK /\ stack' = stack /\ desktop' = desktop
      /\ running' = running /\ timers' = timers /\ asked' = asked /\ hd' = hd
      /\ stack \in Seq(Xids) /\ desktop \in BOOLEAN
      /\ events \in Seq({"list", "showing", "current"})
      /\ prop \in [list : Seq(Xids), showing : BOOLEAN, current : Xids \union {None}]
  BY IInvParts DEF Publish, WorldOK
<1>2. Current' = Current
  BY <1>1 DEF Current
<1>3. Current \in Xids \union {None}
  BY <1>1, CurrentFact
<1>4. CASE prop.list # stack
  <2>1. prop' = [prop EXCEPT !.list = stack] /\ events' = Append(events, "list")
    BY <1>4 DEF Publish
  <2>2. prop'.list = stack /\ prop'.showing = prop.showing /\ prop'.current = prop.current
        /\ prop' \in [list : Seq(Xids), showing : BOOLEAN, current : Xids \union {None}]
    BY <1>1, <2>1
  <2>3. /\ \A k : (Announced(events, k) => Announced(events', k))
                  /\ (Behind(events, k) => Behind(events', k))
        /\ Announced(events', "list") /\ (Overtaken(events) => Overtaken(events'))
    BY <1>1, <2>1, SentFact
  <2>4. events' \in Seq({"list", "showing", "current"})
    BY <1>1, <2>1
  <2>5. WorldOK'
    BY <1>1, <2>2, <2>4 DEF WorldOK
  <2>6. AllKnown /\ (desktop \/ prop.current = Current) => AllKnown'
    BY <1>1, <2>2 DEF AllKnown, NewsOK, ListCovers
  <2>7. ListInStep' /\ ListCovers' /\ HintInStep'
    BY <1>1, <1>2, <2>2, <2>3 DEF NewsOK, ListInStep, ListCovers, HintInStep
  <2>8. DesktopInStep'
    BY <1>1, <2>2, <2>3, <2>6 DEF NewsOK, DesktopInStep
  <2>9. CurrentInStep'
    BY <1>1, <1>2, <2>2, <2>3, <2>6 DEF NewsOK, CurrentInStep
  <2> QED
    BY <1>1, <2>5, <2>7, <2>8, <2>9, IInvParts
       DEF NewsOK, HdWmIInv, HdWmTypeOK, WorldOK, LibraryOK
<1>5. CASE prop.list = stack /\ prop.showing # desktop
  <2>1. prop' = [prop EXCEPT !.showing = desktop] /\ events' = Append(events, "showing")
    BY <1>5 DEF Publish
  <2>2. prop'.list = stack /\ prop'.showing = desktop /\ prop'.current = prop.current
        /\ prop' \in [list : Seq(Xids), showing : BOOLEAN, current : Xids \union {None}]
    BY <1>1, <1>5, <2>1
  <2>3. /\ \A k : (Announced(events, k) => Announced(events', k))
                  /\ (Announced(events', k) => Announced(events, k) \/ k = "showing")
                  /\ (Behind(events, k) => Behind(events', k))
        /\ Announced(events, "list") => Behind(events', "showing")
        /\ Announced(events', "showing") /\ Overtaken(events')
    BY <1>1, <2>1, SentFact
  <2>4. events' \in Seq({"list", "showing", "current"})
    BY <1>1, <2>1
  <2>5. WorldOK'
    BY <1>1, <2>2, <2>4 DEF WorldOK
  <2>6. (AllKnown => AllKnown') /\ (~Announced(events, "list") => AllKnown')
    BY <1>1, <1>5, <2>2 DEF AllKnown, NewsOK, ListInStep
  <2>7. ListInStep' /\ ListCovers' /\ HintInStep'
    BY <1>1, <1>2, <1>5, <2>2, <2>3 DEF NewsOK, ListInStep, ListCovers, HintInStep
  <2>8. DesktopInStep'
    BY <1>1, <2>2, <2>3, <2>6 DEF NewsOK, DesktopInStep
  <2>9. CurrentInStep'
    BY <1>1, <1>2, <2>2, <2>3, <2>6 DEF NewsOK, CurrentInStep
  <2> QED
    BY <1>1, <2>5, <2>7, <2>8, <2>9, IInvParts
       DEF NewsOK, HdWmIInv, HdWmTypeOK, WorldOK, LibraryOK
<1>6. CASE prop.list = stack /\ prop.showing = desktop
  <2>1. prop' = [prop EXCEPT !.current = Current] /\ events' = Append(events, "current")
    BY <1>6 DEF Publish
  <2>2. prop'.list = stack /\ prop'.showing = desktop /\ prop'.current = Current
        /\ prop' \in [list : Seq(Xids), showing : BOOLEAN, current : Xids \union {None}]
    BY <1>1, <1>3, <1>6, <2>1
  <2>3. /\ \A k : (Announced(events, k) => Announced(events', k))
                  /\ (Announced(events', k) => Announced(events, k) \/ k = "current")
                  /\ (Behind(events, k) => Behind(events', k))
        /\ Announced(events, "list") => Behind(events', "current")
        /\ Announced(events', "current")
    BY <1>1, <2>1, SentFact
  <2>4. events' \in Seq({"list", "showing", "current"})
    BY <1>1, <2>1
  <2>5. WorldOK'
    BY <1>1, <2>2, <2>4 DEF WorldOK
  <2>6. (AllKnown => AllKnown') /\ (~Announced(events, "list") => AllKnown')
    BY <1>1, <1>6, <2>2 DEF AllKnown, NewsOK, ListInStep
  <2>7. ListInStep' /\ ListCovers' /\ HintInStep'
    BY <1>1, <1>2, <1>6, <2>2, <2>3, CurrentFact DEF NewsOK, ListInStep, ListCovers, HintInStep
  <2>8. DesktopInStep'
    <3>1. desktop => prop'.current = None
      BY <2>2 DEF Current
    <3> QED
      BY <1>1, <1>6, <2>2, <2>3, <2>6, <3>1 DEF NewsOK, DesktopInStep
  <2>9. CurrentInStep'
    BY <1>1, <1>2, <2>2, <2>3, <2>6 DEF NewsOK, CurrentInStep
  <2> QED
    BY <1>1, <2>5, <2>7, <2>8, <2>9, IInvParts
       DEF NewsOK, HdWmIInv, HdWmTypeOK, WorldOK, LibraryOK
<1> QED
  BY <1>4, <1>5, <1>6

-----------------------------------------------------------------------------
(* What the library does by itself or for the user. *)

(* Steps of the library that send and handle no events. *)
LEMMA QuietFact ==
  ASSUME HdWmIInv, LibraryOK(hd'), running' \subseteq Apps, timers' \subseteq running',
         stack' = stack, desktop' = desktop, prop' = prop, events' = events,
         asked' = asked \/ asked' = TRUE, hd'.windows = hd.windows,
         hd.active = None => hd'.active = None,
         ~asked' => \A x \in Xids : hd.windows[x] # None /\ hd.active = hd.windows[x] =>
                      hd'.active = hd.active
  PROVE  HdWmIInv'
<1>1. WorldOK /\ NewsOK
  BY IInvParts
<1>2. WorldOK'
  BY <1>1 DEF WorldOK
<1>3. AwakeIn(hd') = AwakeIn(hd) /\ (AllKnown => AllKnown') /\ Current' = Current
  BY DEF AwakeIn, AllKnown, Current
<1>4. ListInStep' /\ ListCovers' /\ HintInStep' /\ DesktopInStep'
  BY <1>1, <1>3 DEF NewsOK, ListInStep, ListCovers, HintInStep, DesktopInStep
<1>5. CurrentInStep'
  <2> SUFFICES ASSUME ~asked', Current # None, prop.current = Current,
                      ~Announced(events, "current")
               PROVE  hd'.active = hd'.windows[prop.current]
    BY <1>1, <1>3 DEF NewsOK, CurrentInStep
  <2>1. ~asked /\ ~Behind(events, "current")
    BY <1>1 DEF Behind, Announced, WorldOK
  <2>2. AllKnown /\ hd.active = hd.windows[prop.current]
    BY <1>1, <2>1 DEF NewsOK, CurrentInStep
  <2>3. prop.current \in Xids /\ hd.windows[prop.current] # None
    BY <1>1, <2>2, CurrentFact DEF NewsOK, ListCovers, AllKnown, AwakeIn
  <2> QED
    BY <2>2, <2>3
<1>6. NewsOK'
  BY <1>4, <1>5 DEF NewsOK
<1> QED
  BY <1>2, <1>6, IInvParts DEF HdWmIInv, HdWmTypeOK, WorldOK, LibraryOK

LEMMA ProcessFact ==
  ASSUME HdWmIInv, NEW a \in Apps, Start(a) \/ Terminate(a)
  PROVE  HdWmIInv'
<1>1. /\ LibraryOK(hd') /\ hd' = hd /\ running' \subseteq Apps /\ timers' \subseteq running'
      /\ stack' = stack /\ desktop' = desktop /\ prop' = prop /\ events' = events /\ asked' = asked
  BY IInvParts DEF Start, Terminate, WorldOK
<1> QED
  BY <1>1, QuietFact

LEMMA KillFact ==
  ASSUME HdWmIInv, BackgroundKill
  PROVE  HdWmIInv'
<1> DEFINE new == hd.hibernating \union KillTargets(hd)
<1>1. hd \in Libraries /\ LibraryOK(hd) /\ WorldOK
  BY IInvParts DEF LibraryOK
<1>2. new \subseteq Apps /\ timers' \subseteq running'
  BY <1>1, HdWmAssumption DEF KillTargets, Libraries, BackgroundKill, WorldOK
<1>3. hd' = [hd EXCEPT !.hibernating = new]
  BY DEF BackgroundKill
<1> HIDE DEF new
<1>4. /\ hd' \in Libraries
      /\ hd'.windows = hd.windows /\ hd'.sleeping = hd.sleeping /\ hd'.parent = hd.parent
      /\ hd'.appActive = hd.appActive /\ hd'.active = hd.active /\ hd'.lastActive = hd.lastActive
      /\ hd'.applications = hd.applications /\ hd'.children = hd.children
      /\ hd'.buttons = hd.buttons /\ hd'.refresh = hd.refresh
  BY <1>1, <1>2, <1>3 DEF Libraries
<1>5. LibraryOK(hd')
  BY <1>1, <1>4 DEF LibraryOK, PlacesOK, EntriesOK, ActiveOK, Objects, InPlace
<1>6. /\ running' \subseteq Apps /\ stack' = stack /\ desktop' = desktop /\ prop' = prop
      /\ events' = events /\ asked' = asked
  BY <1>1 DEF BackgroundKill, WorldOK
<1> QED
  BY <1>2, <1>4, <1>5, <1>6, QuietFact

LEMMA TopItemFact ==
  ASSUME HdWmIInv, NEW o \in Objs, TopItem(o)
  PROVE  HdWmIInv'
<1> DEFINE a == hd.parent[o]
           new == [hd.appActive EXCEPT ![a] = o]
<1>1. hd \in Libraries /\ LibraryOK(hd) /\ WorldOK
  BY IInvParts DEF LibraryOK
<1>2. a \in Apps /\ new \in [Apps -> Objs \union {None}]
      /\ \A c \in Apps : new[c] = IF c = a THEN o ELSE hd.appActive[c]
  BY <1>1 DEF TopItem, Libraries
<1>3. hd' = [hd EXCEPT !.appActive = new]
  BY DEF TopItem
<1> HIDE DEF new, a
<1>4. /\ hd' \in Libraries /\ hd'.appActive = new
      /\ hd'.windows = hd.windows /\ hd'.sleeping = hd.sleeping /\ hd'.parent = hd.parent
      /\ hd'.active = hd.active /\ hd'.lastActive = hd.lastActive
      /\ hd'.applications = hd.applications /\ hd'.children = hd.children
      /\ hd'.buttons = hd.buttons /\ hd'.refresh = hd.refresh
  BY <1>1, <1>2, <1>3 DEF Libraries
<1>5. PlacesOK(hd') /\ EntriesOK(hd', {})
  BY <1>1, <1>4 DEF LibraryOK, PlacesOK, EntriesOK, Objects, InPlace
<1>6. ActiveOK(hd')
  BY <1>1, <1>2, <1>4 DEF LibraryOK, ActiveOK, Objects, a
<1>7. LibraryOK(hd')
  BY <1>4, <1>5, <1>6 DEF LibraryOK
<1>8. /\ running' \subseteq Apps /\ timers' \subseteq running' /\ stack' = stack
      /\ desktop' = desktop /\ prop' = prop /\ events' = events /\ asked' = asked
  BY <1>1 DEF TopItem, WorldOK, envVars
<1> QED
  BY <1>4, <1>7, <1>8, QuietFact

LEMMA TopDesktopFact ==
  ASSUME HdWmIInv, TopDesktop
  PROVE  HdWmIInv'
<1>1. hd \in Libraries /\ LibraryOK(hd) /\ WorldOK
  BY IInvParts DEF LibraryOK
<1>2. hd' = [hd EXCEPT !.active = None]
  BY DEF TopDesktop
<1>3. /\ hd' \in Libraries /\ hd'.active = None
      /\ hd'.windows = hd.windows /\ hd'.sleeping = hd.sleeping /\ hd'.parent = hd.parent
      /\ hd'.appActive = hd.appActive /\ hd'.lastActive = hd.lastActive
      /\ hd'.applications = hd.applications /\ hd'.children = hd.children
      /\ hd'.buttons = hd.buttons /\ hd'.refresh = hd.refresh
  BY <1>1, <1>2 DEF Libraries
<1>4. LibraryOK(hd')
  BY <1>1, <1>3 DEF LibraryOK, PlacesOK, EntriesOK, ActiveOK, Objects, InPlace
<1>5. /\ running' \subseteq Apps /\ timers' \subseteq running' /\ stack' = stack
      /\ desktop' = desktop /\ prop' = prop /\ events' = events /\ asked' = TRUE
  BY <1>1 DEF TopDesktop, WorldOK
<1> QED
  BY <1>3, <1>4, <1>5, QuietFact

LEMMA RefreshFact ==
  ASSUME HdWmIInv, RefreshButtons
  PROVE  HdWmIInv'
<1> DEFINE new == [p \in Positions |-> IF p <= Len(hd.applications)
                                       THEN hd.applications[p] ELSE None]
<1>1. hd \in Libraries /\ LibraryOK(hd) /\ WorldOK /\ hd.applications \in Seq(Apps)
  BY IInvParts DEF LibraryOK, Libraries
<1>2. new \in [Positions -> Apps \union {None}]
  <2> SUFFICES ASSUME NEW p \in Positions, p <= Len(hd.applications)
               PROVE  hd.applications[p] \in Apps
    OBVIOUS
  <2>1. p \in 1 .. Len(hd.applications)
    BY <1>1, HdWmAssumption DEF Positions
  <2> QED
    BY <1>1, <2>1
<1>3. hd' = [hd EXCEPT !.refresh = FALSE, !.buttons = new]
  BY DEF RefreshButtons
<1>4. \A p \in Positions :
        new[p] = IF p <= Len(hd.applications) THEN hd.applications[p] ELSE None
  OBVIOUS
<1> HIDE DEF new
<1>5. /\ hd' \in Libraries /\ hd'.refresh = FALSE /\ hd'.buttons = new
      /\ hd'.windows = hd.windows /\ hd'.sleeping = hd.sleeping /\ hd'.parent = hd.parent
      /\ hd'.appActive = hd.appActive /\ hd'.active = hd.active /\ hd'.lastActive = hd.lastActive
      /\ hd'.applications = hd.applications /\ hd'.children = hd.children
  BY <1>1, <1>2, <1>3 DEF Libraries
<1>6. PlacesOK(hd') /\ ActiveOK(hd')
  BY <1>1, <1>5 DEF LibraryOK, PlacesOK, ActiveOK, Objects, InPlace
<1>7. EntriesOK(hd', {})
  BY <1>1, <1>4, <1>5 DEF LibraryOK, EntriesOK
<1>8. LibraryOK(hd')
  BY <1>5, <1>6, <1>7 DEF LibraryOK
<1>9. /\ running' \subseteq Apps /\ timers' \subseteq running' /\ stack' = stack
      /\ desktop' = desktop /\ prop' = prop /\ events' = events /\ asked' = asked
  BY <1>1 DEF RefreshButtons, WorldOK, envVars
<1> QED
  BY <1>5, <1>8, <1>9, QuietFact

(* A window that counts as hibernating is closed. *)
LEMMA CloseFact ==
  ASSUME HdWmIInv, NEW x \in Xids, CloseHibernating(x)
  PROVE  /\ LibraryOK(hd') /\ hd'.windows = hd.windows
         /\ \A k \in Keys : hd'.sleeping[k] \in {hd.sleeping[k], None}
         /\ hd.active = None => hd'.active = None
         /\ \A z \in Xids : hd.windows[z] # None /\ hd.active = hd.windows[z] => hd'.active = hd.active
<1> DEFINE a == AppOf[x]
           k == KeyOf[x]
           h == [hd EXCEPT !.hibernating = hd.hibernating \ {a}]
           d == h.sleeping[k]
           f == Finalize(h, d)
           s == [f.sleeping EXCEPT ![k] = None]
           h1 == IF d = None THEN h ELSE [f EXCEPT !.sleeping = s]
           flags == IF Asleep(h1, a) # {} THEN h1.hibernating \union {a} ELSE h1.hibernating
<1>1. /\ hd \in Libraries /\ LibraryOK(hd) /\ Holders(hd) /\ a \in Apps /\ k \in Keys
      /\ PlacesOK(hd) /\ EntriesOK(hd, {}) /\ ActiveOK(hd)
  BY IInvParts, HoldersFact, HdWmAssumption DEF LibraryOK, Keys
<1>2. hd' = IF Asleep(h1, a) # {} THEN [h1 EXCEPT !.hibernating = h1.hibernating \union {a}] ELSE h1
  BY DEF CloseHibernating
<1>3. /\ h \in Libraries /\ h.windows = hd.windows /\ h.sleeping = hd.sleeping
      /\ h.parent = hd.parent /\ h.appActive = hd.appActive /\ h.active = hd.active
      /\ h.lastActive = hd.lastActive /\ h.applications = hd.applications
      /\ h.children = hd.children /\ h.buttons = hd.buttons /\ h.refresh = hd.refresh
  BY <1>1 DEF Libraries
<1>4. d = hd.sleeping[k]
  BY <1>3
<1> HIDE DEF h
<1>5. PlacesOK(h) /\ EntriesOK(h, {}) /\ ActiveOK(h)
  BY <1>1, <1>3 DEF PlacesOK, EntriesOK, ActiveOK, Objects, InPlace
<1>6. /\ h1 \in Libraries /\ PlacesOK(h1) /\ EntriesOK(h1, {}) /\ ActiveOK(h1)
      /\ h1.windows = hd.windows /\ (\A j \in Keys : h1.sleeping[j] \in {hd.sleeping[j], None})
      /\ h1.active = Unless(hd.active, d)
  <2>1. CASE d = None
    BY <1>3, <1>4, <1>5, <2>1 DEF Unless
  <2>2. CASE d # None
    <3>1. d \in Objs /\ hd.parent[d] = a
      BY <1>1, <1>4, <2>2 DEF Holders, PlacesOK
    <3> HIDE DEF d, f, a, k
    <3>2. /\ f \in Libraries /\ EntriesOK(f, {}) /\ ActiveOK(f)
          /\ f.windows = h.windows /\ f.sleeping = h.sleeping /\ f.hibernating = h.hibernating
          /\ f.parent = [h.parent EXCEPT ![d] = None] /\ f.active = Unless(h.active, d)
      BY <1>1, <1>3, <1>5, <3>1, FinalizeFact DEF f
    <3>3. /\ s \in [Keys -> Objs \union {None}]
          /\ \A j \in Keys : s[j] = IF j = k THEN None ELSE hd.sleeping[j]
      BY <1>1, <1>3, <3>2 DEF Holders
    <3> HIDE DEF s
    <3>4. /\ h1 \in Libraries /\ h1.windows = hd.windows /\ h1.sleeping = s /\ h1.parent = f.parent
          /\ h1.appActive = f.appActive /\ h1.active = f.active /\ h1.lastActive = f.lastActive
          /\ h1.applications = f.applications /\ h1.children = f.children
          /\ h1.buttons = f.buttons /\ h1.refresh = f.refresh
      BY <1>3, <2>2, <3>2, <3>3 DEF Libraries
    <3> HIDE DEF h1
    <3>5. EntriesOK(h1, {}) /\ ActiveOK(h1)
      BY <3>2, <3>4 DEF EntriesOK, ActiveOK, Objects
    <3>6. PlacesOK(h1)
      BY <1>1, <1>3, <1>4, <2>2, <3>2, <3>4, ForgottenFact DEF s
    <3> QED
      BY <1>3, <3>2, <3>3, <3>4, <3>5, <3>6
  <2> QED
    BY <2>1, <2>2
<1>7. flags \subseteq Apps
  BY <1>1, <1>6 DEF Libraries
<1>8. /\ hd' \in Libraries /\ hd'.windows = h1.windows /\ hd'.sleeping = h1.sleeping
      /\ hd'.parent = h1.parent /\ hd'.appActive = h1.appActive /\ hd'.active = h1.active
      /\ hd'.lastActive = h1.lastActive /\ hd'.applications = h1.applications
      /\ hd'.children = h1.children /\ hd'.buttons = h1.buttons /\ hd'.refresh = h1.refresh
  BY <1>2, <1>6, <1>7 DEF Libraries
<1> HIDE DEF h1, s, f, d
<1>9. LibraryOK(hd')
  BY <1>6, <1>8 DEF LibraryOK, PlacesOK, EntriesOK, ActiveOK, Objects, InPlace
<1>10. \A z \in Xids : hd.windows[z] # None => hd.windows[z] # d
  BY <1>1, <1>4 DEF PlacesOK
<1> QED
  BY <1>6, <1>8, <1>9, <1>10 DEF Unless

LEMMA CloseStepFact ==
  ASSUME HdWmIInv, NEW x \in Xids, CloseHibernating(x)
  PROVE  HdWmIInv'
<1>1. /\ LibraryOK(hd') /\ hd'.windows = hd.windows
      /\ hd.active = None => hd'.active = None
      /\ \A z \in Xids : hd.windows[z] # None /\ hd.active = hd.windows[z] => hd'.active = hd.active
  BY CloseFact
<1>2. /\ running' \subseteq Apps /\ timers' \subseteq running' /\ stack' = stack
      /\ desktop' = desktop /\ prop' = prop /\ events' = events /\ asked' = asked
  BY IInvParts DEF CloseHibernating, WorldOK, envVars
<1> QED
  BY <1>1, <1>2, QuietFact

-----------------------------------------------------------------------------
(* Events. *)

(* The list is read: no window of it is new any more. *)
LEMMA ListEventFact ==
  ASSUME HdWmIInv, HandleEvent, Head(events) = "list"
  PROVE  HdWmIInv'
<1>1. /\ WorldOK /\ NewsOK /\ LibraryOK(hd) /\ events \in Seq({"list", "showing", "current"})
      /\ prop.list \in Seq(Xids) /\ events # <<>> /\ events' = Tail(events)
      /\ ProcessClientList(hd) /\ stack \in Seq(Xids)
      /\ running' = running /\ timers' = timers /\ stack' = stack /\ desktop' = desktop
      /\ asked' = asked /\ prop' = prop
  BY IInvParts DEF HandleEvent, WorldOK
<1>2. /\ LibraryOK(hd')
      /\ AwakeIn(hd') = Entries(prop.list) \intersect (AwakeIn(hd) \union Entries(stack))
      /\ AllKnown => NoneRaised(hd, hd')
  BY <1>1, ClientListFact
<1>3. /\ events' \in Seq({"list", "showing", "current"})
      /\ \A k : (Announced(events, k) /\ k # "list" => Announced(events', k))
                /\ (Behind(events, k) => Announced(events', k))
      /\ Overtaken(events) => Overtaken(events')
  BY <1>1, HandledFact
<1>4. WorldOK'
  BY <1>1, <1>3 DEF WorldOK
<1>5. AllKnown' /\ Current' = Current
  BY <1>1, <1>2 DEF AllKnown, Current
<1>6. ListInStep' /\ ListCovers' /\ HintInStep'
  BY <1>1, <1>2, <1>5 DEF NewsOK, ListInStep, ListCovers, HintInStep
<1>7. DesktopInStep'
  BY <1>1, <1>2, <1>3, <1>5 DEF NewsOK, DesktopInStep, NoneRaised
<1>8. CurrentInStep'
  <2> SUFFICES ASSUME ~asked, Current # None, prop.current = Current,
                      ~Announced(events', "current")
               PROVE  hd'.active = hd'.windows[prop.current]
    BY <1>1, <1>5 DEF CurrentInStep
  <2>1. AllKnown /\ hd.active = hd.windows[prop.current]
    BY <1>1, <1>3 DEF NewsOK, CurrentInStep
  <2>2. prop.current \in Entries(prop.list) \intersect Entries(stack) /\ prop.current \in Xids
    BY <1>1, CurrentFact DEF NewsOK, ListCovers
  <2>3. hd'.windows[prop.current] # None
    BY <1>1, <1>5, <2>2 DEF AllKnown, AwakeIn
  <2> QED
    BY <1>2, <2>1, <2>2, <2>3 DEF NoneRaised
<1> QED
  BY <1>1, <1>2, <1>4, <1>6, <1>7, <1>8, IInvParts
     DEF NewsOK, HdWmIInv, HdWmTypeOK, WorldOK, LibraryOK

(* The hint is read: it may be newer than its event. *)
LEMMA ShowingEventFact ==
  ASSUME HdWmIInv, HandleEvent, Head(events) = "showing"
  PROVE  HdWmIInv' /\ hd'.windows = hd.windows /\ hd'.sleeping = hd.sleeping /\ hd'.parent = hd.parent
<1>1. /\ WorldOK /\ NewsOK /\ LibraryOK(hd) /\ events \in Seq({"list", "showing", "current"})
      /\ events # <<>> /\ events' = Tail(events) /\ hd \in Libraries /\ prop.showing \in BOOLEAN
      /\ hd' = (IF prop.showing THEN [hd EXCEPT !.active = None] ELSE hd)
      /\ running' = running /\ timers' = timers /\ stack' = stack /\ desktop' = desktop
      /\ asked' = asked /\ prop' = prop
  BY IInvParts DEF HandleEvent, WorldOK, LibraryOK
<1>2. /\ hd' \in Libraries /\ hd'.active = (IF prop.showing THEN None ELSE hd.active)
      /\ hd'.windows = hd.windows /\ hd'.sleeping = hd.sleeping /\ hd'.parent = hd.parent
      /\ hd'.appActive = hd.appActive /\ hd'.lastActive = hd.lastActive
      /\ hd'.applications = hd.applications /\ hd'.children = hd.children
      /\ hd'.buttons = hd.buttons /\ hd'.refresh = hd.refresh
  BY <1>1 DEF Libraries
<1>3. LibraryOK(hd')
  BY <1>1, <1>2 DEF LibraryOK, PlacesOK, EntriesOK, ActiveOK, Objects, InPlace
<1>4. /\ events' \in Seq({"list", "showing", "current"})
      /\ \A k : /\ Announced(events, k) /\ k # "showing" => Announced(events', k)
                /\ Behind(events, k) => Behind(events', k)
      /\ Overtaken(events) => Overtaken(events')
  BY <1>1, HandledFact
<1>5. WorldOK'
  BY <1>1, <1>4 DEF WorldOK
<1>6. (AllKnown => AllKnown') /\ Current' = Current /\ AwakeIn(hd') = AwakeIn(hd)
  BY <1>1, <1>2 DEF AllKnown, Current, AwakeIn
<1>7. ListInStep' /\ ListCovers' /\ HintInStep'
  BY <1>1, <1>4, <1>6 DEF NewsOK, ListInStep, ListCovers, HintInStep
<1>8. DesktopInStep'
  BY <1>1, <1>2, <1>4, <1>6 DEF NewsOK, DesktopInStep
<1>9. CurrentInStep'
  <2> SUFFICES ASSUME ~asked, Current # None, prop.current = Current
               PROVE  /\ Behind(events', "current") \/ AllKnown'
                      /\ Announced(events', "current") \/ hd'.active = hd'.windows[prop.current]
    BY <1>1, <1>6 DEF CurrentInStep
  <2>1. ~prop.showing
    BY <1>1, CurrentFact DEF NewsOK, HintInStep
  <2> QED
    BY <1>1, <1>2, <1>4, <1>6, <2>1 DEF NewsOK, CurrentInStep
<1> QED
  BY <1>1, <1>2, <1>3, <1>5, <1>7, <1>8, <1>9, IInvParts
     DEF NewsOK, HdWmIInv, HdWmTypeOK, WorldOK, LibraryOK

(* The window that is current becomes active. *)
LEMMA CurrentAppFact ==
  ASSUME LibraryOK(hd), prop.current \in Xids \union {None}, ProcessCurrentApp(hd)
  PROVE  /\ LibraryOK(hd') /\ hd'.windows = hd.windows /\ hd'.sleeping = hd.sleeping
         /\ hd'.parent = hd.parent
         /\ prop.current = None => hd'.active = hd.active
         /\ prop.current # None /\ hd.windows[prop.current] # None =>
              hd'.active = hd.windows[prop.current]
<1> DEFINE o == IF prop.current = None THEN None ELSE hd.windows[prop.current]
           a == hd.parent[o]
           new == [hd.appActive EXCEPT ![a] = o]
<1>1. hd' = IF o \in {None, hd.active} THEN hd
            ELSE [hd EXCEPT !.active = o, !.lastActive = o, !.appActive = new]
  BY DEF ProcessCurrentApp
<1>2. CASE o \in {None, hd.active}
  BY <1>1, <1>2
<1>3. CASE o \notin {None, hd.active}
  <2>1. hd \in Libraries /\ Holders(hd) /\ PlacesOK(hd) /\ EntriesOK(hd, {}) /\ ActiveOK(hd)
    BY HoldersFact DEF LibraryOK
  <2>2. prop.current # None /\ prop.current \in Xids /\ o = hd.windows[prop.current]
    BY <1>3
  <2>3. o \in Objs /\ a \in Apps /\ a # None
    BY <1>3, <2>1, <2>2, HdWmAssumption DEF Holders, PlacesOK
  <2>4. new \in [Apps -> Objs \union {None}]
        /\ \A c \in Apps : new[c] = IF c = a THEN o ELSE hd.appActive[c]
    BY <2>1, <2>3 DEF Libraries
  <2> HIDE DEF new, o
  <2>5. /\ hd' \in Libraries /\ hd'.active = o /\ hd'.lastActive = o /\ hd'.appActive = new
        /\ hd'.windows = hd.windows /\ hd'.sleeping = hd.sleeping /\ hd'.parent = hd.parent
        /\ hd'.applications = hd.applications /\ hd'.children = hd.children
        /\ hd'.buttons = hd.buttons /\ hd'.refresh = hd.refresh
    BY <1>1, <1>3, <2>1, <2>3, <2>4 DEF Libraries
  <2>6. PlacesOK(hd') /\ EntriesOK(hd', {})
    BY <2>1, <2>5 DEF PlacesOK, EntriesOK, Objects, InPlace
  <2>7. ActiveOK(hd')
    BY <2>1, <2>3, <2>4, <2>5 DEF ActiveOK, Objects
  <2> QED
    BY <2>2, <2>5, <2>6, <2>7 DEF LibraryOK
<1> QED
  BY <1>2, <1>3

(* The current window is read: it may be newer than its event. *)
LEMMA CurrentEventFact ==
  ASSUME HdWmIInv, HandleEvent, Head(events) = "current"
  PROVE  HdWmIInv' /\ hd'.windows = hd.windows /\ hd'.sleeping = hd.sleeping /\ hd'.parent = hd.parent
<1>1. /\ WorldOK /\ NewsOK /\ LibraryOK(hd) /\ events \in Seq({"list", "showing", "current"})
      /\ events # <<>> /\ events' = Tail(events) /\ prop.current \in Xids \union {None}
      /\ ProcessCurrentApp(hd)
      /\ running' = running /\ timers' = timers /\ stack' = stack /\ desktop' = desktop
      /\ asked' = asked /\ prop' = prop
  BY IInvParts DEF HandleEvent, WorldOK
<1>2. /\ LibraryOK(hd') /\ hd'.windows = hd.windows /\ hd'.sleeping = hd.sleeping
      /\ hd'.parent = hd.parent
      /\ prop.current = None => hd'.active = hd.active
      /\ prop.current # None /\ hd.windows[prop.current] # None =>
           hd'.active = hd.windows[prop.current]
  BY <1>1, CurrentAppFact
<1>3. /\ events' \in Seq({"list", "showing", "current"})
      /\ \A k : /\ Announced(events, k) /\ k # "current" => Announced(events', k)
                /\ Behind(events, k) => Behind(events', k) /\ Announced(events', k)
      /\ Overtaken(events) => Overtaken(events') /\ Announced(events, "showing")
  BY <1>1, HandledFact
<1>4. WorldOK'
  BY <1>1, <1>3 DEF WorldOK
<1>5. (AllKnown => AllKnown') /\ Current' = Current /\ AwakeIn(hd') = AwakeIn(hd)
  BY <1>1, <1>2 DEF AllKnown, Current, AwakeIn
<1>6. ListInStep' /\ ListCovers' /\ HintInStep'
  BY <1>1, <1>3, <1>5 DEF NewsOK, ListInStep, ListCovers, HintInStep
<1>7. DesktopInStep'
  BY <1>1, <1>2, <1>3, <1>5 DEF NewsOK, DesktopInStep
<1>8. CurrentInStep'
  <2> SUFFICES ASSUME ~asked, Current # None, prop.current = Current
               PROVE  /\ Behind(events', "current") \/ AllKnown'
                      /\ Announced(events', "current") \/ hd'.active = hd'.windows[prop.current]
    BY <1>1, <1>5 DEF CurrentInStep
  <2>1. Behind(events, "current") \/ AllKnown
    BY <1>1 DEF NewsOK, CurrentInStep
  <2>2. AllKnown => hd.windows[prop.current] # None
    BY <1>1, CurrentFact DEF NewsOK, ListCovers, AllKnown, AwakeIn
  <2> QED
    BY <1>2, <1>3, <1>5, <2>1, <2>2
<1> QED
  BY <1>1, <1>2, <1>4, <1>6, <1>7, <1>8, IInvParts
     DEF NewsOK, HdWmIInv, HdWmTypeOK, WorldOK, LibraryOK

LEMMA HdWmInitFact == HdWmInit => HdWmIInv
<1> SUFFICES ASSUME HdWmInit PROVE HdWmIInv
  OBVIOUS
<1>1. /\ running = Apps /\ timers = {} /\ stack = <<>> /\ desktop = FALSE /\ asked = FALSE
      /\ prop = [list |-> <<>>, showing |-> FALSE, current |-> None] /\ events = <<>>
  BY DEF HdWmInit
<1>2. hd = [windows |-> [x \in Xids |-> None], sleeping |-> [k \in Keys |-> None],
            parent |-> [o \in Objs |-> None], hibernating |-> {},
            appActive |-> [a \in Apps |-> None], active |-> None, lastActive |-> None,
            applications |-> <<>>, children |-> [a \in Apps |-> <<>>],
            buttons |-> [p \in Positions |-> None], refresh |-> FALSE]
  BY DEF HdWmInit
<1>3. WorldOK
  <2>1. Once(<<>>) /\ <<>> \in Seq(Xids) /\ <<>> \in Seq({"list", "showing", "current"})
    BY DEF Once
  <2>2. prop \in [list : Seq(Xids), showing : BOOLEAN, current : Xids \union {None}]
    BY <1>1, <2>1
  <2> QED
    BY <1>1, <2>1, <2>2 DEF WorldOK
<1>4. hd \in Libraries
  BY <1>2 DEF Libraries
<1>5. /\ \A x \in Xids : hd.windows[x] = None
      /\ \A k \in Keys : hd.sleeping[k] = None
      /\ \A o \in Objs : hd.parent[o] = None
      /\ \A a \in Apps : hd.appActive[a] = None /\ hd.children[a] = <<>>
      /\ \A p \in Positions : hd.buttons[p] = None
      /\ hd.active = None /\ hd.lastActive = None /\ hd.applications = <<>>
  BY <1>2
<1>6. /\ Entries(<<>>) = {} /\ Once(<<>>) /\ Len(<<>>) = 0
      /\ \A p \in Positions : ~(p <= 0)
  BY HdWmAssumption DEF Entries, Once, Positions
<1>7. \A x \in Xids : KeyOf[x] \in Keys
  BY DEF Keys
<1>8. PlacesOK(hd)
  BY <1>5, <1>7 DEF PlacesOK, Objects
<1>9. EntriesOK(hd, {})
  <2>1. \A a \in Apps : {o \in Objs : hd.parent[o] = a} = {}
    BY <1>5, HdWmAssumption
  <2> QED
    BY <1>5, <1>6, <2>1 DEF EntriesOK
<1>10. ActiveOK(hd)
  BY <1>5 DEF ActiveOK
<1>11. NewsOK
  <2>1. AwakeIn(hd) = {} /\ Current = None
    BY <1>1, <1>5 DEF AwakeIn, Current
  <2> QED
    BY <1>1, <1>6, <2>1 DEF NewsOK, ListInStep, ListCovers, HintInStep, DesktopInStep, CurrentInStep
<1> QED
  BY <1>3, <1>4, <1>8, <1>9, <1>10, <1>11, IInvParts DEF LibraryOK

LEMMA HdWmStepFact == HdWmIInv /\ [HdWmNext]_hdVars => HdWmIInv'
<1> SUFFICES ASSUME HdWmIInv, [HdWmNext]_hdVars PROVE HdWmIInv'
  OBVIOUS
<1>1. CASE UNCHANGED hdVars
  BY <1>1 DEF hdVars, HdWmIInv, HdWmTypeOK, LibraryOK, NewsOK, ListInStep, ListCovers, HintInStep,
              DesktopInStep, CurrentInStep, AllKnown, Current
<1>2. CASE \E a \in Apps : Start(a) \/ Terminate(a)
  BY <1>2, ProcessFact
<1>3. CASE \E x \in Xids : MapWindow(x) \/ Raise(x) \/ Unmap(x) \/ CloseHibernating(x)
  BY <1>3, MapWindowFact, RaiseWindowFact, UnmapFact, CloseStepFact
<1>4. CASE \E o \in Objs : TopItem(o)
  BY <1>4, TopItemFact
<1>5. CASE HandleEvent
  <2>1. Head(events) \in {"list", "showing", "current"}
    BY <1>5, IInvParts, HandledFact DEF HandleEvent, WorldOK
  <2> QED
    BY <1>5, <2>1, ListEventFact, ShowingEventFact, CurrentEventFact
<1>6. CASE ShowDesktop \/ Publish \/ BackgroundKill \/ TopDesktop \/ RefreshButtons
  BY <1>6, ShowDesktopFact, PublishFact, KillFact, TopDesktopFact, RefreshFact
<1> QED
  BY <1>1, <1>2, <1>3, <1>4, <1>5, <1>6 DEF HdWmNext

(* The task navigator, for every number of applications and windows: the      *)
(* switcher lists every window once, active windows exist, and once all       *)
(* events are handled the library agrees with the window manager.             *)
THEOREM SwitcherSafe == HdWmSpec => []SwitcherInv
<1>1. HdWmInit => HdWmIInv
  BY HdWmInitFact
<1>2. HdWmIInv /\ [HdWmNext]_hdVars => HdWmIInv'
  BY HdWmStepFact
<1>3. HdWmIInv => SwitcherInv
  BY HdWmInvFact
<1> QED
  BY <1>1, <1>2, <1>3, PTL DEF HdWmSpec

-----------------------------------------------------------------------------
(* Nothing of an application that hibernates is lost. *)
LEMMA HibernatedStepFact ==
  ASSUME Injective, HdWmIInv, KeysApart(hd), HdWmNext
  PROVE  /\ KeysApart(hd')
         /\ \A o \in Objs : hd.parent[o] \in hd.hibernating /\ hd'.parent[o] = None
              => \/ \E x \in Xids : CloseHibernating(x)
                 \/ \E x \in Entries(prop.list) \ Entries(stack) :
                       AppOf[x] = hd.parent[o] /\ hd.sleeping[KeyOf[x]] = o
<1>1. WorldOK /\ LibraryOK(hd) /\ hd \in Libraries /\ None \notin hd.hibernating
  BY IInvParts, HdWmAssumption DEF LibraryOK, Libraries
<1>2. CASE hd'.windows = hd.windows /\ hd'.sleeping = hd.sleeping /\ hd'.parent = hd.parent
  BY <1>1, <1>2 DEF KeysApart
<1>3. CASE \E x \in Xids : CloseHibernating(x)
  <2>1. PICK x \in Xids : CloseHibernating(x)
    BY <1>3
  <2>2. hd'.windows = hd.windows /\ \A k \in Keys : hd'.sleeping[k] \in {hd.sleeping[k], None}
    BY <2>1, CloseFact
  <2>3. KeysApart(hd')
    BY <2>2 DEF KeysApart, Keys
  <2> QED
    BY <1>3, <2>3
<1>4. CASE HandleEvent
  <2>1. Head(events) \in {"list", "showing", "current"}
    BY <1>1, <1>4, HandledFact DEF HandleEvent, WorldOK
  <2>2. CASE Head(events) = "list"
    <3>1. ProcessClientList(hd) /\ prop.list \in Seq(Xids)
      BY <1>1, <1>4, <2>2 DEF HandleEvent, WorldOK
    <3> QED
      BY <1>1, <3>1, ClientListFact
  <2> QED
    BY <1>2, <1>4, <2>1, <2>2, ShowingEventFact, CurrentEventFact
<1>5. CASE UNCHANGED hd
  BY <1>2, <1>5
<1>6. CASE BackgroundKill \/ TopDesktop \/ RefreshButtons \/ \E o \in Objs : TopItem(o)
  <2>1. hd'.windows = hd.windows /\ hd'.sleeping = hd.sleeping /\ hd'.parent = hd.parent
    BY <1>1, <1>6 DEF BackgroundKill, TopDesktop, RefreshButtons, TopItem, Libraries
  <2> QED
    BY <1>2, <2>1
<1>7. (\E a \in Apps : Start(a) \/ Terminate(a)) \/ ShowDesktop \/ Publish
      \/ (\E x \in Xids : MapWindow(x) \/ Raise(x) \/ Unmap(x)) => UNCHANGED hd
  BY DEF Start, Terminate, ShowDesktop, Publish, MapWindow, Raise, Unmap
<1> QED
  BY <1>3, <1>4, <1>5, <1>6, <1>7 DEF HdWmNext

(* For every number of windows, if no two have the same key: the objects of   *)
(* an application that hibernates go only when the user closes one of them,   *)
(* or when a window that comes back has gone again.                           *)
THEOREM HibernatedSafe ==
  ASSUME \A x, y \in Xids : KeyOf[x] = KeyOf[y] => x = y
  PROVE  HdWmSpec => HibernatedKept
<1> DEFINE Kept == \A o \in Objs : hd.parent[o] \in hd.hibernating /\ hd'.parent[o] = None
                     => \/ \E x \in Xids : CloseHibernating(x)
                        \/ \E x \in Entries(prop.list) \ Entries(stack) :
                              AppOf[x] = hd.parent[o] /\ hd.sleeping[KeyOf[x]] = o
<1>1. HdWmInit => HdWmIInv
  BY HdWmInitFact
<1>2. HdWmInit => KeysApart(hd)
  BY DEF HdWmInit, KeysApart
<1>3. HdWmIInv /\ [HdWmNext]_hdVars => HdWmIInv'
  BY HdWmStepFact
<1>4. HdWmIInv /\ KeysApart(hd) /\ [HdWmNext]_hdVars => KeysApart(hd)' /\ [Kept]_hdVars
  <2> SUFFICES ASSUME HdWmIInv, KeysApart(hd), [HdWmNext]_hdVars
               PROVE  KeysApart(hd)' /\ [Kept]_hdVars
    OBVIOUS
  <2>1. CASE HdWmNext
    BY <2>1, HibernatedStepFact DEF Injective
  <2>2. CASE UNCHANGED hdVars
    BY <2>2 DEF hdVars
  <2> QED
    BY <2>1, <2>2
<1>5. HibernatedKept <=> [][Kept]_hdVars
  BY DEF HibernatedKept
<1> HIDE DEF Kept
<1> QED
  BY <1>1, <1>2, <1>3, <1>4, <1>5, PTL DEF HdWmSpec
=============================================================================
