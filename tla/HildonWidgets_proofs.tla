------------------------ MODULE HildonWidgets_proofs ------------------------
(*****************************************************************************)
(* The invariants of widgets of libhildon: the timed banners, for any number *)
(* of owners and every period; the number editor, for every width of the     *)
(* integers and whatever is typed; the search history, for all texts and     *)
(* limits; the windows of a program, for any number of them; and the path of *)
(* a bread crumb trail.                                                      *)
(*****************************************************************************)
EXTENDS HildonBanner, HildonNumberEditor, HildonFindToolbar, HildonProgram,
        HildonBreadCrumbTrail, SequenceTheorems, FiniteSetTheorems, TLAPS

-----------------------------------------------------------------------------
(* Banners: one timed banner per owner, which ends and not before its time. *)

(* What is true of a banner by itself.  Beyond the invariants: a banner on   *)
(* the screen is mapped or will be, so that set_timeout cannot make one end  *)
(* whose map event is past; and a timer that runs has been set again by the  *)
(* last request, so that timer and age add up to the period at least.        *)
SoundBanner(x) ==
  /\ x \in Banner
  /\ x.state # "gone" => x.owner \in Owners
  /\ x.state = "shown" => x.mapping \/ x.mapped
  /\ x.state = "shown" /\ x.timed /\ ~x.lasting => x.timer # 0 \/ x.mapping
  /\ x.timer # 0 => x.timed /\ x.timer + x.age >= Period + 1

BannerIInv ==
  /\ BannerTypeOK
  /\ \A b \in Banners : SoundBanner(banners[b])
  /\ OneTimedBanner

LEMMA BannerIInvImpliesInv == BannerIInv => BannerInv
<1> SUFFICES ASSUME BannerIInv PROVE TimedBannersEnd /\ FullTime
  BY DEF BannerIInv, BannerInv
<1>1. TimedBannersEnd
  BY DEF BannerIInv, SoundBanner, TimedBannersEnd
<1>2. FullTime
  <2> SUFFICES ASSUME NEW b \in Banners, banners[b].timer = 1 PROVE banners[b].age = Period
    BY DEF FullTime
  <2>1. banners[b].age \in 0 .. Period /\ 1 + banners[b].age >= Period + 1
    BY DEF BannerIInv, SoundBanner, Banner
  <2> QED
    BY <2>1, BannerAssumption
<1> QED
  BY <1>1, <1>2

LEMMA NoBannerSound == SoundBanner(NoBanner)
BY BannerAssumption DEF SoundBanner, Banner, NoBanner

(* hildon_banner_ensure_timeout on a banner that is, or will be, mapped. *)
LEMMA EnsureFact ==
  ASSUME NEW x \in Banner
  PROVE  /\ EnsureTimeout(x) \in Banner
         /\ EnsureTimeout(x).timer = IF x.timer = 0 /\ x.timed /\ ~x.lasting THEN Period + 1 ELSE x.timer
         /\ EnsureTimeout(x).state = x.state /\ EnsureTimeout(x).owner = x.owner
         /\ EnsureTimeout(x).timed = x.timed /\ EnsureTimeout(x).lasting = x.lasting
         /\ EnsureTimeout(x).mapping = x.mapping /\ EnsureTimeout(x).mapped = x.mapped
         /\ EnsureTimeout(x).age = x.age
BY BannerAssumption DEF EnsureTimeout, Banner

(* A request shows the banner with its full time before it. *)
LEMMA RequestedFact ==
  ASSUME NEW x \in Banner, x.state # "gone", x.owner \in Owners,
         x.timer # 0 => x.timed,
         x.state = "shown" => x.mapping \/ x.mapped,
         x.state = "shown" /\ x.timed /\ ~x.lasting => x.timer # 0 \/ x.mapping
  PROVE  /\ SoundBanner(Requested(x))
         /\ Requested(x).state = "shown" /\ Requested(x).owner = x.owner
         /\ Requested(x).timed = x.timed
<1> DEFINE y == [x EXCEPT !.age = 0]
           z == [y EXCEPT !.timer = 0]
           r == RestartTimeout(y)
<1>1. y \in Banner /\ z \in Banner
  <2>1. 0 \in 0 .. Period /\ 0 \in 0 .. Period + 1
    BY BannerAssumption
  <2>2. y \in Banner
    BY <2>1 DEF Banner
  <2> HIDE DEF y
  <2> QED
    BY <2>1, <2>2 DEF Banner
<1>2. /\ y.state = x.state /\ y.owner = x.owner /\ y.timed = x.timed /\ y.lasting = x.lasting
      /\ y.mapping = x.mapping /\ y.mapped = x.mapped /\ y.timer = x.timer /\ y.age = 0
  BY DEF Banner
<1>3. /\ z.state = x.state /\ z.owner = x.owner /\ z.timed = x.timed /\ z.lasting = x.lasting
      /\ z.mapping = x.mapping /\ z.mapped = x.mapped /\ z.timer = 0 /\ z.age = 0
  BY DEF Banner
<1>4. r = IF y.timer # 0 THEN EnsureTimeout(z) ELSE y
  BY DEF RestartTimeout
<1>5. Requested(x) = ShowAll(r)
  BY DEF Requested
<1> HIDE DEF y, z, r
<1>6. /\ r \in Banner
      /\ r.state = x.state /\ r.owner = x.owner /\ r.timed = x.timed /\ r.lasting = x.lasting
      /\ r.mapping = x.mapping /\ r.mapped = x.mapped /\ r.age = 0
      /\ r.timer = IF x.timer # 0 /\ x.timed /\ ~x.lasting THEN Period + 1 ELSE 0
  BY <1>1, <1>2, <1>3, <1>4, EnsureFact, BannerAssumption DEF Banner
<1>7. /\ ShowAll(r) \in Banner
      /\ ShowAll(r).state = "shown" /\ ShowAll(r).owner = r.owner /\ ShowAll(r).timed = r.timed
      /\ ShowAll(r).lasting = r.lasting /\ ShowAll(r).mapped = r.mapped
      /\ ShowAll(r).timer = r.timer /\ ShowAll(r).age = r.age
      /\ ShowAll(r).mapping = (r.mapping \/ r.state = "hidden")
  BY <1>6 DEF ShowAll, Banner
<1>8. x.state \in {"hidden", "shown"}
  BY DEF Banner
<1> DEFINE s == Requested(x)
<1>9. /\ s \in Banner /\ s.state = "shown" /\ s.owner = x.owner /\ s.timed = x.timed
      /\ s.lasting = x.lasting /\ s.age = 0
      /\ s.timer = IF x.timer # 0 /\ x.timed /\ ~x.lasting THEN Period + 1 ELSE 0
      /\ s.mapped = x.mapped /\ s.mapping = (x.mapping \/ x.state = "hidden")
  BY <1>5, <1>6, <1>7
<1> HIDE DEF s
<1>10. s.timed /\ ~s.lasting => s.timer # 0 \/ s.mapping
  BY <1>8, <1>9, BannerAssumption DEF Banner
<1>11. s.mapping \/ s.mapped
  BY <1>8, <1>9 DEF Banner
<1>12. s.timer # 0 => s.timed /\ s.timer = Period + 1
  BY <1>9
<1>13. s.timer # 0 => s.timer + s.age >= Period + 1
  BY <1>9, <1>12, BannerAssumption
<1>14. SoundBanner(s) 
  BY <1>9, <1>10, <1>11, <1>12, <1>13 DEF SoundBanner
<1> QED
  BY <1>9, <1>14 DEF s

(* One banner changes and stays what it is and whose it is. *)
LEMMA OneChanges ==
  ASSUME BannerIInv, NEW b \in Banners, NEW x, SoundBanner(x), LiveBanner(b),
         x.state # "gone", x.owner = banners[b].owner, x.timed = banners[b].timed,
         banners' = [banners EXCEPT ![b] = x], UNCHANGED registered
  PROVE  BannerIInv'
<1>1. /\ banners \in [Banners -> Banner] /\ banners' \in [Banners -> Banner]
      /\ banners'[b] = x /\ \A c \in Banners \ {b} : banners'[c] = banners[c]
  BY DEF BannerIInv, BannerTypeOK, SoundBanner
<1>2. BannerTypeOK'
  BY <1>1 DEF BannerIInv, BannerTypeOK
<1>3. \A c \in Banners : SoundBanner(banners'[c])
  BY <1>1 DEF BannerIInv
<1>4. OneTimedBanner'
  <2>1. \A c \in Banners : LiveBanner(c)' = LiveBanner(c)
                            /\ banners'[c].owner = banners[c].owner
                            /\ banners'[c].timed = banners[c].timed
    BY <1>1 DEF LiveBanner
  <2> QED
    BY <2>1 DEF BannerIInv, BannerTypeOK, OneTimedBanner
<1> QED
  BY <1>2, <1>3, <1>4 DEF BannerIInv, SoundBanner

(* hildon_banner_destroy *)
LEMMA DestroyStep ==
  ASSUME BannerIInv, NEW b \in Banners, LiveBanner(b), DestroyBanner(banners, registered, b)
  PROVE  BannerIInv'
<1> DEFINE o == banners[b].owner
<1>1. o \in Owners /\ banners[b].state # "gone"
  BY DEF BannerIInv, SoundBanner, LiveBanner
<1>2. /\ banners' = [banners EXCEPT ![b] = NoBanner]
      /\ registered' = [registered EXCEPT ![o] =
           IF registered[o] = b \/ (banners[b].timed /\ o # Global) THEN None ELSE registered[o]]
  BY DEF DestroyBanner
<1>3. BannerTypeOK'
  BY <1>1, <1>2, NoBannerSound DEF BannerIInv, BannerTypeOK, SoundBanner
<1>4. \A c \in Banners : SoundBanner(banners'[c])
  BY <1>2, NoBannerSound DEF BannerIInv, BannerTypeOK
<1>5. OneTimedBanner'
  <2>1. banners[b].timed => registered[o] = b
    BY <1>1 DEF BannerIInv, OneTimedBanner, LiveBanner
  <2>2. registered' = [registered EXCEPT ![o] = IF registered[o] = b THEN None ELSE registered[o]]
    BY <1>2, <2>1
  <2>3. \A w \in Owners : registered[w] = b => w = o
    BY BannerAssumption, <1>1 DEF BannerIInv, OneTimedBanner
  <2>4. \A w \in Owners : registered'[w] = IF registered[w] = b THEN None ELSE registered[w]
    BY <1>1, <2>2, <2>3 DEF BannerIInv, BannerTypeOK
  <2>5. \A c \in Banners : banners'[c] = IF c = b THEN NoBanner ELSE banners[c]
    BY <1>2 DEF BannerIInv, BannerTypeOK
  <2>6. ~LiveBanner(b)'
    BY <2>5 DEF LiveBanner, NoBanner
  <2>7. \A c \in Banners \ {b} : LiveBanner(c)' = LiveBanner(c)
    BY <2>5 DEF LiveBanner
  <2>8. ASSUME NEW c \in Banners, LiveBanner(c)', banners'[c].timed
        PROVE  registered'[banners'[c].owner] = c
    <3>1. c # b /\ banners'[c] = banners[c] /\ LiveBanner(c)
      BY <2>5, <2>6, <2>7, <2>8
    <3>2. banners[c].owner \in Owners /\ registered[banners[c].owner] = c
      BY <2>8, <3>1 DEF BannerIInv, SoundBanner, LiveBanner, OneTimedBanner
    <3> QED
      BY <2>4, <3>1, <3>2
  <2>9. ASSUME NEW w \in Owners, registered'[w] # None
        PROVE  banners'[registered'[w]].owner = w /\ banners'[registered'[w]].timed
    <3>1. registered'[w] = registered[w] /\ registered[w] # b /\ registered[w] \in Banners
      BY <2>4, <2>9 DEF BannerIInv, BannerTypeOK
    <3> QED
      BY <2>5, <2>9, <3>1 DEF BannerIInv, OneTimedBanner
  <2> QED
    BY <2>8, <2>9 DEF OneTimedBanner
<1> QED
  BY <1>3, <1>4, <1>5 DEF BannerIInv, SoundBanner

LEMMA CreateStep ==
  ASSUME BannerIInv, NEW o \in Owners, NEW timed \in BOOLEAN,
         timed => registered[o] = None, CreateBanner(o, timed)
  PROVE  BannerIInv'
<1>1. PICK b \in Banners :
        /\ ~LiveBanner(b)
        /\ banners' = [banners EXCEPT ![b] = Requested([NoBanner EXCEPT !.state = "hidden",
                                                  !.owner = o, !.timed = timed])]
        /\ registered' = IF timed THEN [registered EXCEPT ![o] = b] ELSE registered
  BY DEF CreateBanner
<1> DEFINE x == [NoBanner EXCEPT !.state = "hidden", !.owner = o, !.timed = timed]
<1>2. /\ x \in Banner /\ x.state = "hidden" /\ x.owner = o /\ x.timed = timed /\ x.timer = 0
  <2>1. NoBanner \in Banner /\ NoBanner.timer = 0
    BY NoBannerSound DEF SoundBanner, NoBanner
  <2> QED
    BY <2>1 DEF Banner
<1> HIDE DEF x
<1> DEFINE y == Requested(x)
<1>3. SoundBanner(y) /\ y.state = "shown" /\ y.owner = o /\ y.timed = timed
  BY <1>2, RequestedFact
<1>4. banners' = [banners EXCEPT ![b] = y]
  BY <1>1 DEF x
<1> HIDE DEF y
<1>5. \A c \in Banners : banners'[c] = IF c = b THEN y ELSE banners[c]
  BY <1>4 DEF BannerIInv, BannerTypeOK
<1>6. BannerTypeOK'
  BY <1>1, <1>3, <1>4 DEF BannerIInv, BannerTypeOK, SoundBanner
<1>7. \A c \in Banners : SoundBanner(banners'[c])
  BY <1>3, <1>5 DEF BannerIInv
<1>8. \A w \in Owners : registered[w] # b
  <2>1. banners[b].owner = None
    BY <1>1 DEF BannerIInv, BannerTypeOK, LiveBanner, NoBanner
  <2> QED
    BY <2>1, BannerAssumption DEF BannerIInv, OneTimedBanner
<1>9. OneTimedBanner'
  <2>1. \A c \in Banners \ {b} : LiveBanner(c)' = LiveBanner(c)
    BY <1>5 DEF LiveBanner
  <2>2. \A w \in Owners : registered'[w] = IF timed /\ w = o THEN b ELSE registered[w]
    BY <1>1 DEF BannerIInv, BannerTypeOK
  <2>3. ASSUME NEW c \in Banners, LiveBanner(c)', banners'[c].timed
        PROVE  registered'[banners'[c].owner] = c
    <3>1. CASE c = b
      BY <1>3, <1>5, <2>2, <2>3, <3>1
    <3>2. CASE c # b
      <4>1. banners[c].owner \in Owners /\ registered[banners[c].owner] = c
        BY <1>5, <2>1, <2>3, <3>2 DEF BannerIInv, SoundBanner, LiveBanner, OneTimedBanner
      <4> QED
        BY <1>5, <2>2, <3>2, <4>1, BannerAssumption
    <3> QED
      BY <3>1, <3>2
  <2>4. ASSUME NEW w \in Owners, registered'[w] # None
        PROVE  banners'[registered'[w]].owner = w /\ banners'[registered'[w]].timed
    <3>1. CASE timed /\ w = o
      BY <1>3, <1>5, <2>2, <3>1
    <3>2. CASE ~(timed /\ w = o)
      <4>1. registered'[w] = registered[w] /\ registered[w] \in Banners \ {b}
        BY <1>8, <2>2, <2>4, <3>2 DEF BannerIInv, BannerTypeOK
      <4> QED
        BY <1>5, <2>4, <4>1 DEF BannerIInv, OneTimedBanner
    <3> QED
      BY <3>1, <3>2
  <2> QED
    BY <2>3, <2>4 DEF OneTimedBanner
<1> QED
  BY <1>6, <1>7, <1>9 DEF BannerIInv

LEMMA ShowInformationStep ==
  ASSUME BannerIInv, NEW o \in Owners, ShowInformation(o)
  PROVE  BannerIInv'
<1>1. CASE registered[o] = None
  BY <1>1, CreateStep DEF ShowInformation
<1>2. CASE registered[o] # None
  <2> DEFINE b == registered[o]
             y == Requested(banners[b])
  <2>1. b \in Banners /\ banners[b].owner = o
    BY <1>2 DEF BannerIInv, BannerTypeOK, OneTimedBanner
  <2>2. LiveBanner(b) /\ banners[b].state # "gone"
    BY <2>1, BannerAssumption DEF BannerIInv, BannerTypeOK, LiveBanner, NoBanner
  <2>3. banners' = [banners EXCEPT ![b] = y] /\ UNCHANGED registered
    BY <1>2 DEF ShowInformation
  <2>4. SoundBanner(banners[b])
    BY <2>1 DEF BannerIInv
  <2>5. SoundBanner(y) /\ y.state = "shown" /\ y.owner = banners[b].owner /\ y.timed = banners[b].timed
    BY <2>1, <2>2, <2>4, RequestedFact DEF SoundBanner
  <2> HIDE DEF y, b
  <2> QED
    BY <2>1, <2>2, <2>3, <2>5, OneChanges
<1> QED
  BY <1>1, <1>2

LEMMA SetTimeoutStep ==
  ASSUME BannerIInv, NEW b \in Banners, NEW lasting \in BOOLEAN, SetTimeout(b, lasting)
  PROVE  BannerIInv'
<1> DEFINE x == [banners[b] EXCEPT !.lasting = lasting]
<1>1. SoundBanner(banners[b]) /\ banners[b].timed /\ ~banners[b].mapped
  BY DEF BannerIInv, SetTimeout
<1>2. banners[b].state # "gone"
  BY <1>1 DEF BannerIInv, BannerTypeOK, NoBanner
<1>3. banners' = [banners EXCEPT ![b] = x] /\ UNCHANGED registered
  BY DEF SetTimeout
<1>4. SoundBanner(x) /\ x.state = banners[b].state /\ x.owner = banners[b].owner
      /\ x.timed = banners[b].timed
  BY <1>1 DEF SoundBanner, Banner
<1> HIDE DEF x
<1> QED
  BY <1>2, <1>3, <1>4, OneChanges DEF LiveBanner

LEMMA MapEventStep ==
  ASSUME BannerIInv, NEW b \in Banners, MapEvent(b)
  PROVE  BannerIInv'
<1> DEFINE x == [banners[b] EXCEPT !.mapping = FALSE, !.mapped = TRUE]
           y == EnsureTimeout(x)
<1>1. SoundBanner(banners[b]) /\ banners[b].mapping
  BY DEF BannerIInv, MapEvent
<1>2. banners[b].state # "gone"
  BY <1>1 DEF BannerIInv, BannerTypeOK, NoBanner
<1>3. banners' = [banners EXCEPT ![b] = y] /\ UNCHANGED registered
  BY DEF MapEvent
<1>4. /\ x \in Banner /\ x.state = banners[b].state /\ x.owner = banners[b].owner
      /\ x.timed = banners[b].timed /\ x.lasting = banners[b].lasting /\ ~x.mapping /\ x.mapped
      /\ x.timer = banners[b].timer /\ x.age = banners[b].age
  BY <1>1 DEF SoundBanner, Banner
<1> HIDE DEF x
<1>5. /\ y \in Banner
      /\ y.timer = IF x.timer = 0 /\ x.timed /\ ~x.lasting THEN Period + 1 ELSE x.timer
      /\ y.state = x.state /\ y.owner = x.owner /\ y.timed = x.timed /\ y.lasting = x.lasting
      /\ y.mapped = x.mapped /\ y.age = x.age
  BY <1>4, EnsureFact
<1> HIDE DEF y
<1>6. y.state # "gone" => y.owner \in Owners
  BY <1>1, <1>4, <1>5 DEF SoundBanner
<1>7. y.mapped
  BY <1>4, <1>5
<1>8. y.timed /\ ~y.lasting => y.timer # 0
  BY <1>4, <1>5, BannerAssumption
<1>9. y.timer # 0 => y.timed
  BY <1>1, <1>4, <1>5 DEF SoundBanner
<1>10. y.timer # 0 => y.timer + y.age >= Period + 1
  <2>1. y.age \in Nat /\ y.timer \in Nat /\ Period \in Nat
    BY <1>5, BannerAssumption DEF Banner
  <2> QED
    BY <1>1, <1>4, <1>5, <2>1 DEF SoundBanner
<1>11. SoundBanner(y)
  BY <1>5, <1>6, <1>7, <1>8, <1>9, <1>10 DEF SoundBanner
<1> QED
  BY <1>2, <1>3, <1>4, <1>5, <1>11, OneChanges DEF LiveBanner

(* A banner that is kept is as it was, hidden or requested again. *)
LEMMA KeptFact ==
  ASSUME NEW b \in Banners, NEW x, SoundBanner(x), x.state = "shown", NEW y \in Kept(x)
  PROVE  /\ SoundBanner(y) /\ y.state # "gone" /\ y.owner = x.owner /\ y.timed = x.timed
<1>1. CASE y = x
  BY <1>1
<1>2. CASE y = [x EXCEPT !.state = "hidden"]
  BY <1>2 DEF SoundBanner, Banner
<1>3. CASE y = Requested(x)
  BY <1>3, RequestedFact DEF SoundBanner
<1> QED
  BY <1>1, <1>2, <1>3 DEF Kept

LEMMA BannerTimeoutStep ==
  ASSUME BannerIInv, NEW b \in Banners, BannerTimeout(b)
  PROVE  BannerIInv'
<1>1. SoundBanner(banners[b]) /\ banners[b].timer = 1
  BY DEF BannerIInv, BannerTimeout
<1>2. banners[b].state # "gone"
  BY <1>1 DEF BannerIInv, BannerTypeOK, NoBanner
<1>3. CASE DestroyBanner(banners, registered, b)
  BY <1>2, <1>3, DestroyStep DEF LiveBanner
<1>4. CASE ~DestroyBanner(banners, registered, b)
  <2> DEFINE x == [banners[b] EXCEPT !.timer = Period + 1]
  <2>1. PICK y \in Kept(x) : banners' = [banners EXCEPT ![b] = y]
    BY <1>4 DEF BannerTimeout
  <2>2. banners[b].state = "shown" /\ UNCHANGED registered
    BY <1>4 DEF BannerTimeout
  <2>3. /\ x \in Banner /\ x.state = "shown" /\ x.owner = banners[b].owner
        /\ x.timed = banners[b].timed /\ x.timer = Period + 1 /\ x.age = banners[b].age
        /\ x.mapping = banners[b].mapping /\ x.mapped = banners[b].mapped
    BY <1>1, <2>2, BannerAssumption DEF SoundBanner, Banner
  <2> HIDE DEF x
  <2>4. x.timer + x.age >= Period + 1 /\ x.timer # 0
    BY <2>3, BannerAssumption DEF Banner
  <2>5. SoundBanner(x)
    BY <1>1, <2>2, <2>3, <2>4 DEF SoundBanner
  <2>6. SoundBanner(y) /\ y.state # "gone" /\ y.owner = banners[b].owner /\ y.timed = banners[b].timed
    BY <2>3, <2>5, KeptFact
  <2> QED
    BY <1>2, <2>1, <2>2, <2>6, OneChanges DEF LiveBanner
<1> QED
  BY <1>3, <1>4

LEMMA BannerClickedStep ==
  ASSUME BannerIInv, NEW b \in Banners, BannerClicked(b)
  PROVE  BannerIInv'
<1>1. SoundBanner(banners[b]) /\ banners[b].state = "shown"
  BY DEF BannerIInv, BannerClicked
<1>2. CASE DestroyBanner(banners, registered, b)
  BY <1>1, <1>2, DestroyStep DEF LiveBanner
<1>3. CASE ~DestroyBanner(banners, registered, b)
  <2>1. PICK y \in Kept(banners[b]) : banners' = [banners EXCEPT ![b] = y]
    BY <1>3 DEF BannerClicked
  <2>2. UNCHANGED registered
    BY <1>3 DEF BannerClicked
  <2>3. SoundBanner(y) /\ y.state # "gone" /\ y.owner = banners[b].owner /\ y.timed = banners[b].timed
    BY <1>1, KeptFact
  <2> QED
    BY <1>1, <2>1, <2>2, <2>3, OneChanges DEF LiveBanner
<1> QED
  BY <1>2, <1>3

LEMMA OwnerDestroyedStep ==
  ASSUME BannerIInv, NEW o \in Owners, OwnerDestroyed(o)
  PROVE  BannerIInv'
<1>1. /\ \A c \in Banners : banners'[c] = IF banners[c].owner = o THEN NoBanner ELSE banners[c]
      /\ \A w \in Owners : registered'[w] = IF w = o THEN None ELSE registered[w]
  BY DEF OwnerDestroyed, BannerIInv, BannerTypeOK
<1>2. BannerTypeOK'
  BY NoBannerSound DEF OwnerDestroyed, BannerIInv, BannerTypeOK, SoundBanner
<1>3. \A c \in Banners : SoundBanner(banners'[c])
  BY <1>1, NoBannerSound DEF BannerIInv
<1>4. OneTimedBanner'
  <2>1. ASSUME NEW c \in Banners, LiveBanner(c)', banners'[c].timed
        PROVE  registered'[banners'[c].owner] = c
    <3>1. banners'[c] = banners[c] /\ banners[c].owner # o /\ LiveBanner(c)
      BY <1>1, <2>1 DEF LiveBanner, NoBanner
    <3>2. banners[c].owner \in Owners /\ registered[banners[c].owner] = c
      BY <2>1, <3>1 DEF BannerIInv, SoundBanner, LiveBanner, OneTimedBanner
    <3> QED
      BY <1>1, <3>1, <3>2
  <2>2. ASSUME NEW w \in Owners, registered'[w] # None
        PROVE  banners'[registered'[w]].owner = w /\ banners'[registered'[w]].timed
    <3>1. w # o /\ registered'[w] = registered[w] /\ registered[w] \in Banners
      BY <1>1, <2>2 DEF BannerIInv, BannerTypeOK
    <3>2. banners[registered[w]].owner = w /\ banners[registered[w]].timed
      BY <2>2, <3>1 DEF BannerIInv, OneTimedBanner
    <3> QED
      BY <1>1, <3>1, <3>2
  <2> QED
    BY <2>1, <2>2 DEF OneTimedBanner
<1> QED
  BY <1>2, <1>3, <1>4 DEF BannerIInv

LEMMA ClockStep ==
  ASSUME BannerIInv, Clock
  PROVE  BannerIInv'
<1> DEFINE next(x) == [x EXCEPT !.timer = IF x.timer > 1 THEN x.timer - 1 ELSE x.timer,
                                !.age = IF x.age < Period THEN x.age + 1 ELSE x.age]
<1>1. /\ \A c \in Banners : banners'[c] = IF LiveBanner(c) THEN next(banners[c]) ELSE banners[c]
      /\ DOMAIN banners' = Banners
      /\ registered' = registered
  BY DEF Clock
<1>2. ASSUME NEW x, SoundBanner(x)
      PROVE  SoundBanner(next(x)) /\ next(x).state = x.state /\ next(x).owner = x.owner
             /\ next(x).timed = x.timed
  <2> DEFINE y == next(x)
  <2>1. x.timer \in 0 .. Period + 1 /\ x.age \in 0 .. Period /\ Period \in Nat
    BY <1>2, BannerAssumption DEF SoundBanner, Banner
  <2>2. /\ (IF x.timer > 1 THEN x.timer - 1 ELSE x.timer) \in 0 .. Period + 1
        /\ (IF x.age < Period THEN x.age + 1 ELSE x.age) \in 0 .. Period
    BY <2>1
  <2>3. y \in Banner
    BY <1>2, <2>2 DEF SoundBanner, Banner
  <2>4. /\ y.state = x.state /\ y.owner = x.owner /\ y.timed = x.timed /\ y.lasting = x.lasting
        /\ y.mapping = x.mapping /\ y.mapped = x.mapped
        /\ y.timer = IF x.timer > 1 THEN x.timer - 1 ELSE x.timer
        /\ y.age = IF x.age < Period THEN x.age + 1 ELSE x.age
    BY <1>2 DEF SoundBanner, Banner
  <2> HIDE DEF y
  <2>5. y.timer = 0 <=> x.timer = 0
    BY <2>1, <2>4
  <2>6. x.timer + x.age >= Period + 1 => y.timer + y.age >= Period + 1
    BY <2>1, <2>4
  <2>7. SoundBanner(y)
    BY <1>2, <2>3, <2>4, <2>5, <2>6 DEF SoundBanner
  <2> QED
    BY <2>4, <2>7 DEF y
<1> HIDE DEF next
<1>3. \A c \in Banners :
        /\ SoundBanner(banners'[c]) /\ banners'[c].state = banners[c].state
        /\ banners'[c].owner = banners[c].owner /\ banners'[c].timed = banners[c].timed
        /\ ~LiveBanner(c) => banners'[c] = banners[c]
  BY <1>1, <1>2 DEF BannerIInv
<1>4. banners' \in [Banners -> Banner]
  <2>1. banners' = [c \in Banners |-> banners'[c]]
    BY DEF Clock
  <2> QED
    BY <1>3, <2>1 DEF SoundBanner
<1>5. BannerTypeOK'
  BY <1>1, <1>3, <1>4 DEF BannerIInv, BannerTypeOK, LiveBanner
<1>6. OneTimedBanner'
  BY <1>1, <1>3 DEF BannerIInv, BannerTypeOK, OneTimedBanner, LiveBanner
<1> QED
  BY <1>3, <1>5, <1>6 DEF BannerIInv

(* An owner of banners in hildon-banner.c has at most one timed banner, which *)
(* the next request finds; it goes away by itself, and no message before the  *)
(* whole period is over, whatever is shown, kept, clicked or destroyed.       *)
THEOREM BannersSafe == BannerSpec => []BannerInv
<1>1. BannerInit => BannerIInv
  <2> SUFFICES ASSUME BannerInit PROVE BannerIInv
    OBVIOUS
  <2>1. BannerTypeOK
    BY NoBannerSound DEF BannerInit, BannerTypeOK, SoundBanner
  <2>2. \A b \in Banners : SoundBanner(banners[b])
    BY NoBannerSound DEF BannerInit
  <2>3. OneTimedBanner
    BY DEF BannerInit, OneTimedBanner, LiveBanner, NoBanner
  <2> QED
    BY <2>1, <2>2, <2>3 DEF BannerIInv
<1>2. BannerIInv /\ [BannerNext]_bannerVars => BannerIInv'
  <2> SUFFICES ASSUME BannerIInv, [BannerNext]_bannerVars PROVE BannerIInv'
    OBVIOUS
  <2>1. ASSUME NEW o \in Owners, ShowProgress(o) PROVE BannerIInv'
    BY <2>1, CreateStep DEF ShowProgress
  <2>2. ASSUME NEW b \in Banners, CloseBanner(b) PROVE BannerIInv'
    BY <2>2, DestroyStep DEF CloseBanner
  <2>3. ASSUME UNCHANGED bannerVars PROVE BannerIInv'
    BY <2>3 DEF bannerVars, BannerIInv, BannerTypeOK, OneTimedBanner, LiveBanner
  <2> QED
    BY <2>1, <2>2, <2>3, ClockStep, ShowInformationStep, OwnerDestroyedStep, MapEventStep,
       BannerTimeoutStep, BannerClickedStep, SetTimeoutStep DEF BannerNext
<1>3. BannerIInv => BannerInv
  BY BannerIInvImpliesInv
<1> QED
  BY <1>1, <1>2, <1>3, PTL DEF BannerSpec

-----------------------------------------------------------------------------
(* The number editor.  Its invariant is inductive; what the proof needs is  *)
(* what the validation does to a text that is being typed, which can be any *)
(* number or none.                                                          *)

(* The editor while an edited text is checked. *)
Rough(x) ==
  /\ x \in [text : Int \union NotNumbers,
            default : Int32, start : Int32, end : Int32, focused : BOOLEAN,
            held : {-1, 0, 1}, timer : {"none", "initial", "repeat"}]
  /\ x.start <= x.default /\ x.default <= x.end

Accepted(x) == x.text \in Int32 \union {Empty, Minus}

SameFrame(x, y) ==
  /\ y.start = x.start /\ y.end = x.end /\ y.focused = x.focused
  /\ y.held = x.held /\ y.timer = x.timer

Clamped(x, v) == IF v > x.end THEN x.end ELSE IF v < x.start THEN x.start ELSE v

(* The bounds of the type. *)
LEMMA TypeBounds ==
  /\ MaxInt \in Int /\ MinInt \in Int /\ MinInt < 0 /\ MaxInt >= 0
  /\ \A v : v \in Int32 <=> v \in Int /\ MinInt <= v /\ v <= MaxInt
BY NumberAssumption DEF MinInt, Int32

(* A sum that leaves the type comes back at its other end. *)
LEMMA WrapFact ==
  ASSUME NEW v \in Int
  PROVE  Wrap(v) \in Int32 /\ (v \in Int32 => Wrap(v) = v)
<1> DEFINE w == 2 * MaxInt + 2
           d == v - MinInt
<1>1. w \in Nat /\ w > 0 /\ d \in Int /\ MinInt + w = MaxInt + 1
  BY NumberAssumption, TypeBounds DEF MinInt
<1>2. Wrap(v) = (d % w) + MinInt
  BY DEF Wrap
<1>3. v \in Int32 => 0 <= d /\ d < w
  BY <1>1, TypeBounds
<1>4. d + MinInt = v
  BY TypeBounds
<1> HIDE DEF w, d
<1>5. d % w \in 0 .. w - 1
  BY <1>1
<1>6. 0 <= d /\ d < w => d % w = d
  BY <1>1
<1> QED
  BY <1>1, <1>2, <1>3, <1>4, <1>5, <1>6, TypeBounds

(* hildon_number_editor_set_value changes text and default together, or nothing. *)
LEMMA SetValueFact ==
  ASSUME NEW x, Rough(x), NEW v \in Int
  PROVE  /\ Rough(SetValue(x, v)) /\ SameFrame(x, SetValue(x, v))
         /\ v \in x.start .. x.end => SetValue(x, v).text = v
         /\ v \notin x.start .. x.end => SetValue(x, v) = x
<1>1. x.start \in Int /\ x.end \in Int /\ x.start \in Int32 /\ x.end \in Int32
  BY TypeBounds DEF Rough
<1>2. CASE v \in x.start .. x.end
  <2>1. ~(v > x.end \/ v < x.start)
    BY <1>1, <1>2
  <2>2. SetValue(x, v) = [x EXCEPT !.default = v, !.text = v]
    BY <2>1 DEF SetValue
  <2>3. v \in Int32 /\ x.start <= v /\ v <= x.end
    BY <1>1, <1>2, TypeBounds
  <2> QED
    BY <1>2, <2>2, <2>3 DEF Rough, SameFrame
<1>3. CASE v \notin x.start .. x.end
  <2>1. SetValue(x, v) = x
    BY <1>1, <1>3 DEF SetValue
  <2> QED
    BY <1>3, <2>1 DEF SameFrame
<1> QED
  BY <1>2, <1>3

(* What stands for a text that is not accepted. *)
LEMMA SubstituteFact ==
  ASSUME NEW x, Rough(x), NEW v \in {x.start, x.end, x.default}
  PROVE  /\ Rough(SetValue(x, v)) /\ SameFrame(x, SetValue(x, v)) /\ SetValue(x, v).text = v
         /\ v \in Int32 /\ v \in x.start .. x.end
<1>1. /\ x.start \in Int /\ x.end \in Int /\ x.default \in Int
      /\ x.start \in Int32 /\ x.end \in Int32 /\ x.default \in Int32
      /\ x.start <= x.default /\ x.default <= x.end
  BY TypeBounds DEF Rough
<1>2. v \in Int /\ v \in Int32 /\ v \in x.start .. x.end
  BY <1>1
<1> QED
  BY <1>2, SetValueFact

(* A text that is checked while it is typed becomes one that may go on, and a *)
(* number stays or ends at the bound it has passed.                           *)
LEMMA ValidateTyped ==
  ASSUME NEW x, Rough(x)
  PROVE  LET y == ValidateValue(x, TRUE)
         IN /\ Rough(y) /\ Accepted(y) /\ SameFrame(x, y)
            /\ x.text \in Int => y.text \in {x.text, Clamped(x, x.text)}
<1> DEFINE y == ValidateValue(x, TRUE)
<1>1. /\ x.start \in Int /\ x.end \in Int /\ x.start <= x.end
      /\ x.start \in Int32 /\ x.end \in Int32
      /\ x.default \in x.start .. x.end /\ x.default \in Int32
      /\ x.text \in Int \union NotNumbers
  BY TypeBounds DEF Rough
<1>2. CASE x.text \notin NotNumbers
  <2>1. x.text \in Int
    BY <1>1, <1>2
  <2>2. CASE AboveRange(x, TRUE)
    <3>1. y = SetValue(x, x.end) /\ x.text > x.end
      BY <1>2, <2>2 DEF ValidateValue, AboveRange
    <3> HIDE DEF y
    <3>2. /\ y.text = x.end /\ Rough(y) /\ SameFrame(x, y)
          /\ y.text \in Int32 /\ y.text \in x.start .. x.end
      BY <3>1, SubstituteFact
    <3>3. Clamped(x, x.text) = x.end
      BY <3>1 DEF Clamped
    <3> QED
      BY <3>2, <3>3 DEF Accepted, y
  <2>3. CASE ~AboveRange(x, TRUE) /\ BelowRange(x, TRUE)
    <3>1. y = SetValue(x, x.start) /\ x.text < x.start
      BY <1>2, <2>3 DEF ValidateValue, BelowRange
    <3> HIDE DEF y
    <3>2. /\ y.text = x.start /\ Rough(y) /\ SameFrame(x, y)
          /\ y.text \in Int32 /\ y.text \in x.start .. x.end
      BY <3>1, SubstituteFact
    <3>3. Clamped(x, x.text) = x.start
      BY <1>1, <2>1, <3>1 DEF Clamped
    <3> QED
      BY <3>2, <3>3 DEF Accepted, y
  <2>4. CASE ~AboveRange(x, TRUE) /\ ~BelowRange(x, TRUE)
    <3>1. y = x
      BY <1>2, <2>4 DEF ValidateValue
    <3>2. x.text \in Int32
      BY <1>1, <2>1, <2>4, TypeBounds DEF AboveRange, BelowRange
    <3> QED
      BY <3>1, <3>2 DEF Accepted, SameFrame
  <2> QED
    BY <2>2, <2>3, <2>4
<1>3. CASE x.text \in NotNumbers
  <2>1. x.text \notin Int
    BY <1>3, NumberAssumption
  <2>2. CASE x.text = Empty \/ (x.text = Minus /\ x.start < 0)
    <3>1. y = x
      BY <1>3, <2>2 DEF ValidateValue
    <3> QED
      BY <2>1, <2>2, <3>1 DEF Accepted, SameFrame
  <2>3. CASE ~(x.text = Empty \/ (x.text = Minus /\ x.start < 0))
    <3>1. y = SetValue(x, x.default)
      BY <1>3, <2>3 DEF ValidateValue
    <3> HIDE DEF y
    <3>2. y.text = x.default /\ Rough(y) /\ SameFrame(x, y) /\ y.text \in Int32
      BY <3>1, SubstituteFact
    <3> QED
      BY <2>1, <3>2 DEF Accepted, y
  <2> QED
    BY <2>2, <2>3
<1> QED
  BY <1>2, <1>3

(* A text that is checked when the editing ends becomes a number of the range, *)
(* and a number goes to the nearest.                                          *)
LEMMA ValidateAtEnd ==
  ASSUME NEW x, Rough(x)
  PROVE  LET y == ValidateValue(x, FALSE)
         IN /\ Rough(y) /\ y.text \in x.start .. x.end /\ SameFrame(x, y)
            /\ x.text \in Int => y.text = Clamped(x, x.text)
<1> DEFINE y == ValidateValue(x, FALSE)
<1>1. /\ x.start \in Int /\ x.end \in Int /\ x.start <= x.end
      /\ x.default \in x.start .. x.end /\ x.default \in Int
      /\ x.text \in Int \union NotNumbers
  BY TypeBounds DEF Rough
<1>2. CASE x.text \notin NotNumbers
  <2>1. x.text \in Int
    BY <1>1, <1>2
  <2>2. CASE x.text > x.end
    <3>1. y = SetValue(x, x.end) /\ Clamped(x, x.text) = x.end
      BY <1>2, <2>2 DEF ValidateValue, AboveRange, Clamped
    <3> HIDE DEF y
    <3>2. /\ y.text = x.end /\ Rough(y) /\ SameFrame(x, y)
          /\ y.text \in Int32 /\ y.text \in x.start .. x.end
      BY <3>1, SubstituteFact
    <3> QED
      BY <3>1, <3>2 DEF y
  <2>3. CASE ~(x.text > x.end) /\ x.text < x.start
    <3>1. y = SetValue(x, x.start) /\ Clamped(x, x.text) = x.start
      BY <1>2, <2>3 DEF ValidateValue, AboveRange, BelowRange, Clamped
    <3> HIDE DEF y
    <3>2. /\ y.text = x.start /\ Rough(y) /\ SameFrame(x, y)
          /\ y.text \in Int32 /\ y.text \in x.start .. x.end
      BY <3>1, SubstituteFact
    <3> QED
      BY <3>1, <3>2 DEF y
  <2>4. CASE ~(x.text > x.end) /\ ~(x.text < x.start)
    <3>1. y = x /\ Clamped(x, x.text) = x.text
      BY <1>2, <2>4 DEF ValidateValue, AboveRange, BelowRange, Clamped
    <3>2. x.text \in x.start .. x.end
      BY <1>1, <2>1, <2>4
    <3> QED
      BY <3>1, <3>2 DEF SameFrame
  <2> QED
    BY <2>2, <2>3, <2>4
<1>3. CASE x.text \in NotNumbers
  <2>1. x.text \notin Int
    BY <1>3, NumberAssumption
  <2>2. y = SetValue(x, x.default)
    BY <1>3 DEF ValidateValue
  <2> HIDE DEF y
  <2>3. y.text \in x.start .. x.end /\ Rough(y) /\ SameFrame(x, y)
    BY <2>2, SubstituteFact
  <2> QED
    BY <2>1, <2>3 DEF y
<1> QED
  BY <1>2, <1>3

(* An edited text is checked as one that is typed. *)
LEMMA EntryFact ==
  ASSUME NEW x, Rough(x), NEW t \in Int \union NotNumbers
  PROVE  LET y == EntryChanged(x, t)
         IN /\ Rough(y) /\ Accepted(y) /\ SameFrame(x, y)
            /\ t \in Int => y.text \in {t, Clamped(x, t)}
<1> DEFINE z == [x EXCEPT !.text = t]
<1>1. Rough(z) /\ SameFrame(x, z) /\ z.text = t
  BY DEF Rough, SameFrame
<1>2. EntryChanged(x, t) = ValidateValue(z, TRUE) /\ Clamped(z, t) = Clamped(x, t)
  BY DEF EntryChanged, Clamped
<1> HIDE DEF z
<1> DEFINE y == ValidateValue(z, TRUE)
<1>3. Rough(z)
  BY <1>1
<1>4. /\ Rough(y) /\ Accepted(y) /\ SameFrame(z, y)
      /\ z.text \in Int => y.text \in {z.text, Clamped(z, z.text)}
  BY ONLY <1>3, ValidateTyped
<1> HIDE DEF y
<1>5. SameFrame(x, y)
  BY ONLY <1>1, <1>4 DEF SameFrame
<1>6. t \in Int => y.text \in {t, Clamped(x, t)}
  BY ONLY <1>1, <1>2, <1>4
<1>7. EntryChanged(x, t) = y
  BY <1>2 DEF y
<1> QED
  BY ONLY <1>4, <1>5, <1>6, <1>7

(* A step ends at the number next to the value, or at the bound it passes. *)
LEMMA ChangeFact ==
  ASSUME NEW x, Rough(x), Accepted(x), NEW u \in {-1, 1}
  PROVE  LET y == ChangeNumbers(x, u)
         IN /\ Rough(y) /\ SameFrame(x, y) /\ EditorValue(x) \in Int32
            /\ y.text \in x.start .. x.end
            /\ y.text = Clamped(x, Wrap(EditorValue(x) + u))
<1> DEFINE v == EditorValue(x)
           w == Wrap(v + u)
           z == EntryChanged(x, w)
           y == ChangeNumbers(x, u)
<1>1. v \in Int32 /\ v + u \in Int
  <2>1. 0 \in Int32
    BY TypeBounds
  <2>2. v \in Int32
    BY <2>1 DEF EditorValue, Accepted, NotNumbers
  <2> HIDE DEF v
  <2>3. v \in Int /\ u \in Int
    BY <2>2, TypeBounds
  <2> QED
    BY <2>2, <2>3
<1>2. w \in Int32 /\ w \in Int
  BY <1>1, WrapFact, TypeBounds
<1>3. x.start \in Int /\ x.end \in Int /\ x.start <= x.end
  BY TypeBounds DEF Rough
<1>4. y = ValidateValue(z, FALSE)
  BY DEF ChangeNumbers
<1> HIDE DEF w, z, v, y
<1>5. Rough(z) /\ SameFrame(x, z) /\ z.text \in {w, Clamped(x, w)}
  BY <1>2, EntryFact DEF z
<1>6. Clamped(x, w) \in Int /\ Clamped(x, Clamped(x, w)) = Clamped(x, w)
  BY <1>2, <1>3 DEF Clamped
<1>7. z.text \in Int /\ Clamped(z, z.text) = Clamped(x, w)
  <2>1. Clamped(z, z.text) = Clamped(x, z.text)
    BY <1>5 DEF Clamped, SameFrame
  <2> QED
    BY <1>2, <1>5, <1>6, <2>1
<1>8. /\ Rough(y) /\ SameFrame(z, y) /\ y.text \in z.start .. z.end
      /\ y.text = Clamped(x, w)
  BY <1>4, <1>5, <1>7, ValidateAtEnd
<1>9. SameFrame(x, y) /\ y.text \in x.start .. x.end
  BY <1>5, <1>8 DEF SameFrame
<1> QED
  BY <1>1, <1>8, <1>9 DEF w, v, y

---------------------------------------------------------------------------
(* The type invariant in the terms of the lemmas. *)
LEMMA TypeFact == NumberTypeOK <=> Rough(number) /\ Accepted(number)
BY TypeBounds DEF NumberTypeOK, Rough, Accepted, NotNumbers

(* Steps saturate from every state of the right type. *)
LEMMA SaturateFact == ASSUME NumberTypeOK PROVE StepsSaturate
<1> SUFFICES ASSUME NEW u \in {-1, 1}
             PROVE LET v == EditorValue(number)
                       next == ChangeNumbers(number, u).text
                   IN /\ next \in number.start .. number.end
                      /\ v \in number.start .. number.end /\ v + u \in Int32
                           => next = IF v + u \in number.start .. number.end THEN v + u ELSE v
  BY DEF StepsSaturate
<1> DEFINE v == EditorValue(number)
           next == ChangeNumbers(number, u).text
           low == number.start
           high == number.end
<1>1. /\ v \in Int32 /\ next \in low .. high
      /\ next = Clamped(number, Wrap(v + u))
  BY TypeFact, ChangeFact
<1>2. v \in Int /\ u \in Int /\ low \in Int /\ high \in Int
  BY <1>1, TypeFact, TypeBounds DEF Rough
<1>3. ASSUME v \in low .. high, v + u \in Int32
      PROVE next = IF v + u \in low .. high THEN v + u ELSE v
  <2> HIDE DEF v, next
  <2>1. next = Clamped(number, v + u)
    BY <1>1, <1>2, <1>3, WrapFact
  <2>2. next = IF v + u > high THEN high ELSE IF v + u < low THEN low ELSE v + u
    BY <2>1 DEF Clamped
  <2> HIDE DEF low, high
  <2>3. u = 1 \/ u = -1
    OBVIOUS
  <2> QED
    BY <1>2, <1>3, <2>2, <2>3
<1> HIDE DEF v, next
<1> QED
  BY <1>1, <1>3 DEF v, next

---------------------------------------------------------------------------
(* What is kept of the invariant by a step. *)
NumberKept == NumberTypeOK /\ InRangeAtRest /\ RepeatsWhileHeld

(* What a step has to show to keep it. *)
LEMMA KeptByStep ==
  ASSUME Rough(number'), Accepted(number'),
         number'.focused \/ number'.text \in number'.start .. number'.end,
         number'.timer = "none" \/ number'.held # 0
  PROVE  NumberKept'
<1>1. NumberTypeOK'
  BY TypeBounds DEF NumberTypeOK, Rough, Accepted, NotNumbers
<1> QED
  BY <1>1 DEF NumberKept, InRangeAtRest, RepeatsWhileHeld

(* Numbers of the range are accepted. *)
LEMMA InRangeFact ==
  ASSUME NEW x, Rough(x), x.text \in x.start .. x.end
  PROVE  Accepted(x)
<1>1. x.start \in Int32 /\ x.end \in Int32
  BY DEF Rough
<1> QED
  BY <1>1, TypeBounds DEF Accepted

(* A step of the value, with the buttons as they are. *)
LEMMA StepKeeps ==
  ASSUME NumberKept, NEW u \in {-1, 1}, number' = ChangeNumbers(number, u)
  PROVE  NumberKept'
<1>1. Rough(number) /\ Accepted(number) /\ RepeatsWhileHeld
  BY TypeFact DEF NumberKept
<1>2. Rough(number') /\ SameFrame(number, number') /\ number'.text \in number.start .. number.end
  BY <1>1, ChangeFact
<1>3. number'.text \in number'.start .. number'.end /\ Accepted(number')
  BY <1>2, InRangeFact DEF SameFrame
<1> QED
  BY <1>1, <1>2, <1>3, KeptByStep DEF SameFrame, RepeatsWhileHeld

(* The text is edited, or left. *)
LEMMA EntryKeeps ==
  ASSUME NumberKept, (\E t \in Typed : TypeNumber(t)) \/ FocusNumber \/ UnfocusNumber
  PROVE  NumberKept'
<1>1. Rough(number) /\ Accepted(number) /\ RepeatsWhileHeld /\ InRangeAtRest
  BY TypeFact DEF NumberKept
<1>2. ASSUME NEW t \in Typed, TypeNumber(t) PROVE NumberKept'
  <2>1. t \in Int \union NotNumbers
    BY NumberAssumption
  <2>2. Rough(number') /\ Accepted(number') /\ SameFrame(number, number') /\ number.focused
    BY <1>1, <1>2, <2>1, EntryFact DEF TypeNumber
  <2> QED
    BY <1>1, <2>2, KeptByStep DEF SameFrame, RepeatsWhileHeld
<1>3. CASE FocusNumber
  <2>1. Rough(number') /\ Accepted(number')
    BY <1>1, <1>3 DEF FocusNumber, Rough, Accepted
  <2>2. number'.focused /\ number'.timer = number.timer /\ number'.held = number.held
    BY <1>1, <1>3 DEF FocusNumber, Rough
  <2> QED
    BY <1>1, <2>1, <2>2, KeptByStep DEF RepeatsWhileHeld
<1>4. CASE UnfocusNumber
  <2> DEFINE x == [number EXCEPT !.focused = FALSE]
  <2>1. Rough(x) /\ x.timer = number.timer /\ x.held = number.held
    BY <1>1 DEF Rough
  <2>2. number' = ValidateValue(x, FALSE)
    BY <1>4 DEF UnfocusNumber
  <2> HIDE DEF x
  <2>3. Rough(number') /\ SameFrame(x, number') /\ number'.text \in x.start .. x.end
    BY <2>1, <2>2, ValidateAtEnd
  <2>4. number'.text \in number'.start .. number'.end /\ Accepted(number')
    BY <2>3, InRangeFact DEF SameFrame
  <2> QED
    BY <1>1, <2>1, <2>3, <2>4, KeptByStep DEF SameFrame, RepeatsWhileHeld
<1> QED
  BY <1>2, <1>3, <1>4

(* The buttons. *)
LEMMA ButtonKeeps ==
  ASSUME NumberKept,
         \/ \E u \in {-1, 1} : PressNumberButton(u)
         \/ ReleaseNumberButton \/ LeaveNumberButton \/ StartRepeat
  PROVE  NumberKept'
<1>1. Rough(number) /\ Accepted(number) /\ RepeatsWhileHeld /\ InRangeAtRest
  BY TypeFact DEF NumberKept
<1>2. ASSUME NEW u \in {-1, 1}, PressNumberButton(u) PROVE NumberKept'
  <2> DEFINE x == IF number.timer = "none" THEN ChangeNumbers(number, u) ELSE number
             timer == IF x.timer = "none" THEN "initial" ELSE x.timer
  <2>1. /\ Rough(x) /\ SameFrame(number, x) /\ Accepted(x)
        /\ x.focused \/ x.text \in x.start .. x.end
    <3>1. CASE number.timer = "none"
      <4>1. x = ChangeNumbers(number, u)
        BY <3>1
      <4> HIDE DEF x
      <4>2. Rough(x) /\ SameFrame(number, x) /\ x.text \in number.start .. number.end
        BY <1>1, <4>1, ChangeFact
      <4>3. x.text \in x.start .. x.end
        BY <4>2 DEF SameFrame
      <4> QED
        BY <4>2, <4>3, InRangeFact
    <3>2. CASE number.timer # "none"
      <4>1. x = number
        BY <3>2
      <4> HIDE DEF x
      <4> QED
        BY <1>1, <4>1 DEF SameFrame, InRangeAtRest, Rough
    <3> QED
      BY <3>1, <3>2
  <2>2. number' = [x EXCEPT !.held = u, !.timer = timer]
    BY <1>2 DEF PressNumberButton
  <2> HIDE DEF x
  <2>3. timer \in {"none", "initial", "repeat"} /\ u \in {-1, 0, 1} /\ u # 0
    BY <2>1 DEF Rough
  <2> HIDE DEF timer
  <2>4. /\ Rough(number') /\ number'.held = u /\ number'.text = x.text
        /\ number'.start = x.start /\ number'.end = x.end /\ number'.focused = x.focused
    BY <2>1, <2>2, <2>3 DEF Rough
  <2>5. Accepted(number')
    BY <2>1, <2>4 DEF Accepted
  <2> QED
    BY <2>1, <2>3, <2>4, <2>5, KeptByStep
<1>3. ASSUME NEW held \in {-1, 0, 1}, NEW timer \in {"none", "initial", "repeat"},
             number' = [number EXCEPT !.held = held, !.timer = timer],
             timer = "none" \/ held # 0
      PROVE  NumberKept'
  <2>1. /\ Rough(number') /\ number'.held = held /\ number'.timer = timer
        /\ number'.text = number.text /\ number'.start = number.start
        /\ number'.end = number.end /\ number'.focused = number.focused
    BY <1>1, <1>3 DEF Rough
  <2>2. number.focused \in BOOLEAN
    BY <1>1 DEF Rough
  <2> QED
    BY <1>1, <1>3, <2>1, <2>2, KeptByStep DEF Accepted, InRangeAtRest
<1>4. CASE ReleaseNumberButton
  BY <1>3, <1>4 DEF ReleaseNumberButton
<1>5. CASE LeaveNumberButton
  <2>1. number' = [number EXCEPT !.held = number.held, !.timer = "none"] /\ number.held \in {-1, 0, 1}
    BY <1>1, <1>5 DEF LeaveNumberButton, Rough
  <2> QED
    BY <1>3, <2>1
<1>6. CASE StartRepeat
  <2>1. number' = [number EXCEPT !.held = number.held, !.timer = "repeat"] /\ number.held \in {-1, 0, 1}
    BY <1>1, <1>6 DEF StartRepeat, Rough
  <2>2. number.held # 0
    BY <1>1, <1>6 DEF StartRepeat, RepeatsWhileHeld
  <2> QED
    BY <1>3, <2>1, <2>2
<1> QED
  BY <1>2, <1>4, <1>5, <1>6

(* The application sets the range or the value. *)
LEMMA NumberAppKeeps ==
  ASSUME NumberKept,
         \/ \E min, max \in Int32 : AppSetsRange(min, max)
         \/ \E v \in Int32 : AppSetsValue(v)
  PROVE  NumberKept'
<1>1. Rough(number) /\ Accepted(number) /\ RepeatsWhileHeld /\ InRangeAtRest
      /\ number.focused \in BOOLEAN
  BY TypeFact DEF NumberKept, Rough
<1>2. ASSUME NEW min \in Int32, NEW max \in Int32, AppSetsRange(min, max) PROVE NumberKept'
  <2> DEFINE low == IF min < max THEN min ELSE max
             high == IF min < max THEN max ELSE min
             x == [number EXCEPT !.start = low, !.end = high]
             y == [number EXCEPT !.default = low, !.start = low, !.end = high, !.text = low]
  <2>1. low \in Int32 /\ high \in Int32 /\ low \in Int /\ high \in Int /\ low <= high
    BY TypeBounds
  <2>2. number' = SetValue(x, low)
    BY <1>2 DEF AppSetsRange, SetRange
  <2> HIDE DEF low, high
  <2>3. x.start = low /\ x.end = high
    BY <1>1 DEF Rough
  <2>4. SetValue(x, low) = [x EXCEPT !.default = low, !.text = low]
    <3> HIDE DEF x
    <3> QED
      BY <2>1, <2>3 DEF SetValue
  <2>5. /\ Rough(number') /\ number'.text = low /\ number'.start = low /\ number'.end = high
        /\ number'.timer = number.timer /\ number'.held = number.held
    <3>1. number' = [number EXCEPT !.start = low, !.end = high, !.default = low, !.text = low]
      BY <2>2, <2>4
    <3>2. /\ number'.text = low /\ number'.start = low /\ number'.end = high /\ number'.default = low
          /\ number'.timer = number.timer /\ number'.held = number.held
      BY <1>1, <3>1 DEF Rough
    <3>3. number' \in [text : Int \union NotNumbers,
                      default : Int32, start : Int32, end : Int32, focused : BOOLEAN,
                      held : {-1, 0, 1}, timer : {"none", "initial", "repeat"}]
      BY <1>1, <2>1, <3>1 DEF Rough
    <3>4. low <= low
      BY <2>1
    <3> QED
      BY <2>1, <3>2, <3>3, <3>4 DEF Rough
  <2>6. number'.text \in number'.start .. number'.end
    BY <2>1, <2>5
  <2> QED
    BY <1>1, <2>5, <2>6, InRangeFact, KeptByStep DEF RepeatsWhileHeld
<1>3. ASSUME NEW v \in Int32, AppSetsValue(v) PROVE NumberKept'
  <2>1. v \in Int /\ number' = SetValue(number, v)
    BY <1>3, TypeBounds DEF AppSetsValue
  <2>2. Rough(number') /\ SameFrame(number, number')
    BY <1>1, <2>1, SetValueFact
  <2>3. CASE v \in number.start .. number.end
    <3>1. number'.text \in number'.start .. number'.end
      BY <1>1, <2>1, <2>2, <2>3, SetValueFact DEF SameFrame
    <3> QED
      BY <1>1, <2>2, <3>1, InRangeFact, KeptByStep DEF SameFrame, RepeatsWhileHeld
  <2>4. CASE v \notin number.start .. number.end
    <3>1. number' = number
      BY <1>1, <2>1, <2>4, SetValueFact
    <3> QED
      BY <3>1 DEF NumberKept, NumberTypeOK, InRangeAtRest, RepeatsWhileHeld
  <2> QED
    BY <2>3, <2>4
<1> QED
  BY <1>2, <1>3

(* However it is typed and stepped and whatever range is set, the number is in its *)
(* range when the editor is at rest, a step goes one up or down and stops at the    *)
(* ends, and the steps repeat while a button is held only.                          *)
THEOREM NumberSafe == NumberSpec => []NumberInv
<1>1. NumberInit => NumberKept
  <2> SUFFICES ASSUME NumberInit PROVE NumberKept
    OBVIOUS
  <2>1. /\ MinInt \in Int32 /\ MaxInt \in Int32 /\ MinInt <= MinInt /\ MinInt <= MaxInt
        /\ MinInt \in MinInt .. MaxInt
    BY TypeBounds
  <2>2. NumberTypeOK
    BY <2>1 DEF NumberInit, NumberTypeOK
  <2> QED
    BY <2>1, <2>2 DEF NumberKept, NumberInit, InRangeAtRest, RepeatsWhileHeld
<1>2. NumberKept /\ [NumberNext]_numberVars => NumberKept'
  <2> SUFFICES ASSUME NumberKept, [NumberNext]_numberVars PROVE NumberKept'
    OBVIOUS
  <2>1. ASSUME NEW u \in {-1, 1}, ArrowKey(u) PROVE NumberKept'
    BY <2>1, StepKeeps DEF ArrowKey
  <2>2. CASE MouseTimeout
    <3>1. number.held \in {-1, 1}
      BY <2>2 DEF MouseTimeout, NumberKept, RepeatsWhileHeld, NumberTypeOK
    <3> QED
      BY <2>2, <3>1, StepKeeps DEF MouseTimeout
  <2>3. CASE UNCHANGED numberVars
    BY <2>3 DEF numberVars, NumberKept, NumberTypeOK, InRangeAtRest, RepeatsWhileHeld
  <2> QED
    BY <2>1, <2>2, <2>3, EntryKeeps, ButtonKeeps, NumberAppKeeps DEF NumberNext
<1>3. NumberKept => NumberInv
  BY SaturateFact DEF NumberKept, NumberInv
<1> QED
  BY <1>1, <1>2, <1>3, PTL DEF NumberSpec

-----------------------------------------------------------------------------
(* The search history.  Its invariant is inductive: that a text which is    *)
(* searched for again is found at all, and is gone after one removal, rests *)
(* on the texts being distinct.                                             *)

Histories ==
  [rows : Seq(Row), limit : 0 .. MaxHistory, list : {None, "own", "given"},
   column : BOOLEAN, touched : BOOLEAN]

Has(x, s) == \E k \in 1 .. Len(x.rows) : x.rows[k].text = s

Distinct(x) ==
  \A j, k \in 1 .. Len(x.rows) : x.rows[j].text = x.rows[k].text => j = k

Latest(x) ==
  \A k \in 1 .. Len(x.rows) : x.rows[k].visible <=> Len(x.rows) - k < x.limit

SameSettings(x, y) == y.limit = x.limit /\ y.list = x.list /\ y.column = x.column

Settled(x) ==
  /\ x.list = None => x.rows = <<>>
  /\ x.list = "own" => x.column

(* A function on 1 .. n is a sequence of that length. *)
LEMMA SequenceFact ==
  ASSUME NEW S, NEW n \in Nat, NEW f \in [1 .. n -> S]
  PROVE  f \in Seq(S) /\ Len(f) = n
<1>1. f \in Seq(S)
  BY SeqDef
<1>2. Len(f) \in Nat /\ 1 .. Len(f) = DOMAIN f /\ DOMAIN f = 1 .. n
  BY <1>1, LenProperties
<1> QED
  BY <1>1, <1>2

LEMMA RowsFact ==
  ASSUME NEW x \in Histories
  PROVE  /\ x.rows \in Seq(Row) /\ Len(x.rows) \in Nat /\ DOMAIN x.rows = 1 .. Len(x.rows)
         /\ x.limit \in Nat
         /\ \A k \in 1 .. Len(x.rows) : x.rows[k] \in Row
<1>1. x.rows \in Seq(Row) /\ x.limit \in Nat
  BY HistoryAssumption DEF Histories
<1> QED
  BY <1>1, LenProperties, ElementOfSeq

(* With other rows all but the rows stays. *)
LEMMA OtherRows ==
  ASSUME NEW x \in Histories, NEW r \in Seq(Row)
  PROVE  LET z == [x EXCEPT !.rows = r]
         IN z \in Histories /\ SameSettings(x, z) /\ z.rows = r /\ z.touched = x.touched
BY DEF Histories, SameSettings

LEMMA OtherRowsUntouched ==
  ASSUME NEW x \in Histories, NEW r \in Seq(Row)
  PROVE  LET y == [x EXCEPT !.rows = r, !.touched = FALSE]
         IN y \in Histories /\ SameSettings(x, y) /\ y.rows = r /\ y.touched = FALSE
BY DEF Histories, SameSettings

(* The filter made anew shows the latest texts, and changes none. *)
LEMMA RefilterFact ==
  ASSUME NEW x \in Histories
  PROVE  LET y == Refilter(x)
         IN /\ y \in Histories /\ SameSettings(x, y) /\ ~y.touched /\ Latest(y)
            /\ Len(y.rows) = Len(x.rows)
            /\ Distinct(x) => Distinct(y)
            /\ Settled(x) => Settled(y)
<1> DEFINE n == Len(x.rows)
           r == [k \in 1 .. n |-> [text |-> x.rows[k].text, visible |-> Among(x, x.rows, k)]]
           y == Refilter(x)
<1>1. /\ x.rows \in Seq(Row) /\ n \in Nat /\ DOMAIN x.rows = 1 .. n /\ x.limit \in Nat
      /\ \A k \in 1 .. n : x.rows[k] \in Row
  BY RowsFact
<1>2. y = [x EXCEPT !.rows = r, !.touched = FALSE]
  BY <1>1 DEF Refilter
<1>3. r \in [1 .. n -> Row]
  BY <1>1 DEF Row, Among
<1>4. \A k \in 1 .. n : r[k].text = x.rows[k].text /\ (r[k].visible <=> k > n - x.limit)
  BY DEF Among
<1>5. n = 0 => x.rows = <<>> /\ r = <<>>
  <2>1. r \in Seq(Row) /\ Len(r) = n
    <3> HIDE DEF r, n
    <3> QED
      BY <1>1, <1>3, SequenceFact
  <2> HIDE DEF r
  <2> QED
    BY <1>1, <2>1, EmptySeq
<1> HIDE DEF r, y
<1>6. r \in Seq(Row) /\ Len(r) = n
  <2> HIDE DEF n
  <2> QED
    BY <1>1, <1>3, SequenceFact
<1>7. /\ y \in Histories /\ SameSettings(x, y) /\ ~y.touched /\ y.rows = r /\ Len(y.rows) = n
  BY <1>2, <1>6, OtherRowsUntouched
<1>8. Latest(y)
  <2>1. y.limit = x.limit
    BY <1>7 DEF SameSettings
  <2> HIDE DEF n
  <2>2. \A k \in 1 .. n : k > n - x.limit <=> n - k < x.limit
    BY <1>1
  <2> QED
    BY <1>4, <1>7, <2>1, <2>2 DEF Latest
<1>9. Distinct(x) => Distinct(y)
  BY <1>4, <1>7 DEF Distinct
<1>10. Settled(x) => Settled(y)
  <2>1. Len(<<>>) = 0
    OBVIOUS
  <2>2. x.rows = <<>> => r = <<>>
    BY <1>5, <2>1
  <2> HIDE DEF n
  <2> QED
    BY <1>7, <2>2 DEF Settled, SameSettings
<1> QED
  BY <1>7, <1>8, <1>9, <1>10 DEF y

(* A new text that is appended keeps the texts distinct. *)
LEMMA InsertFact ==
  ASSUME NEW x \in Histories, NEW s \in Searches, Distinct(x), ~Has(x, s)
  PROVE  LET y == InsertLast(x, s)
         IN y \in Histories /\ SameSettings(x, y) /\ Distinct(y) /\ y.touched = x.touched
<1> DEFINE y == InsertLast(x, s)
           n == Len(x.rows)
           e == [text |-> s, visible |-> x.limit > 0]
           r == Append(x.rows, e)
<1>1. x.rows \in Seq(Row) /\ n \in Nat /\ e \in Row
  <2>1. x.rows \in Seq(Row) /\ n \in Nat
    BY RowsFact
  <2>2. e \in Row
    BY DEF Row
  <2> QED
    BY <2>1, <2>2
<1> HIDE DEF e
<1>2. /\ r \in Seq(Row) /\ Len(r) = n + 1 /\ r[n + 1] = e
      /\ \A k \in 1 .. n : r[k] = x.rows[k]
  <2> DEFINE old == x.rows
  <2>1. old \in Seq(Row) /\ Len(old) \in Nat
    BY <1>1
  <2> HIDE DEF old
  <2>2. /\ Append(old, e) \in Seq(Row) /\ Len(Append(old, e)) = Len(old) + 1
        /\ Append(old, e)[Len(old) + 1] = e
        /\ \A k \in 1 .. Len(old) : Append(old, e)[k] = old[k]
    BY <1>1, <2>1
  <2> QED
    BY <2>2 DEF old
<1>3. y = [x EXCEPT !.rows = r]
  BY DEF InsertLast, e
<1> HIDE DEF y, r
<1>4. y \in Histories /\ SameSettings(x, y) /\ y.rows = r /\ y.touched = x.touched
  BY <1>2, <1>3, OtherRows
<1>5. Distinct(y)
  <2> SUFFICES ASSUME NEW j \in 1 .. n + 1, NEW k \in 1 .. n + 1, r[j].text = r[k].text
               PROVE j = k
    BY <1>2, <1>4 DEF Distinct
  <2>1. \A i \in 1 .. n : r[i].text = x.rows[i].text /\ x.rows[i].text # s
    BY <1>2 DEF Has
  <2>2. r[n + 1].text = s
    BY <1>2 DEF e
  <2>3. \A i \in 1 .. n + 1 : i \in 1 .. n \/ i = n + 1
    <3> HIDE DEF n
    <3> QED
      BY <1>1
  <2>4. CASE j \in 1 .. n /\ k \in 1 .. n
    BY <2>1, <2>4 DEF Distinct
  <2>5. CASE j = n + 1 \/ k = n + 1
    <3>1. r[j].text = s /\ r[k].text = s
      BY <2>2, <2>5
    <3>2. j \notin 1 .. n /\ k \notin 1 .. n
      BY <2>1, <3>1
    <3> QED
      BY <2>3, <3>2
  <2> QED
    BY <2>3, <2>4, <2>5
<1> QED
  BY <1>4, <1>5 DEF y

(* A row that is removed takes its text with it, if the texts are distinct. *)
LEMMA RemoveRowFact ==
  ASSUME NEW x \in Histories, NEW k \in 1 .. Len(x.rows), Distinct(x)
  PROVE  LET y == RemoveRow(x, k)
         IN /\ y \in Histories /\ SameSettings(x, y) /\ Distinct(y) /\ y.touched = x.touched
            /\ ~Has(y, x.rows[k].text)
<1> DEFINE y == RemoveRow(x, k)
           old == x.rows
           n == Len(old)
           a == SubSeq(old, 1, k - 1)
           b == SubSeq(old, k + 1, n)
           r == a \o b
           from(j) == IF j < k THEN j ELSE j + 1
<1>1. old \in Seq(Row) /\ n \in Nat /\ k \in Nat /\ 1 <= k /\ k <= n
  BY RowsFact
<1>2. y = [x EXCEPT !.rows = r]
  BY DEF RemoveRow
<1> HIDE DEF old
<1>3. a \in Seq(Row) /\ Len(a) = k - 1 /\ \A j \in 1 .. k - 1 : a[j] = old[j]
  BY <1>1
<1>4. b \in Seq(Row) /\ Len(b) = n - k /\ \A j \in 1 .. n - k : b[j] = old[k + j]
  BY <1>1
<1> HIDE DEF a, b, n
<1>5. /\ r \in Seq(Row) /\ Len(r) = n - 1
      /\ \A j \in 1 .. n - 1 : r[j] = IF j <= k - 1 THEN a[j] ELSE b[j - (k - 1)]
  <2>1. /\ r \in Seq(Row) /\ Len(r) = Len(a) + Len(b)
        /\ \A j \in 1 .. Len(a) + Len(b) : r[j] = IF j <= Len(a) THEN a[j] ELSE b[j - Len(a)]
    BY <1>3, <1>4, ConcatProperties
  <2>2. Len(a) + Len(b) = n - 1
    BY <1>1, <1>3, <1>4
  <2> QED
    BY <1>3, <2>1, <2>2
<1> HIDE DEF r
<1>6. \A j \in 1 .. n - 1 : r[j] = old[from(j)]
  <2> TAKE j \in 1 .. n - 1
  <2>1. CASE j < k
    <3>1. j <= k - 1 /\ j \in 1 .. k - 1
      BY <1>1, <2>1
    <3> QED
      BY <1>3, <1>5, <2>1, <3>1
  <2>2. CASE ~(j < k)
    <3>1. ~(j <= k - 1) /\ j - (k - 1) \in 1 .. n - k /\ k + (j - (k - 1)) = j + 1
      BY <1>1, <2>2
    <3> QED
      BY <1>4, <1>5, <2>2, <3>1
  <2> QED
    BY <2>1, <2>2
<1>7. \A i, j \in 1 .. n - 1 :
        /\ from(j) \in 1 .. n /\ from(j) # k
        /\ from(i) = from(j) => i = j
  BY <1>1
<1> HIDE DEF from, y
<1>8. y \in Histories /\ SameSettings(x, y) /\ y.rows = r /\ y.touched = x.touched
  BY <1>2, <1>5, OtherRows
<1>9. \A i, j \in 1 .. n : old[i].text = old[j].text => i = j
  BY DEF Distinct, old, n
<1>10. Distinct(y)
  <2> SUFFICES ASSUME NEW i \in 1 .. n - 1, NEW j \in 1 .. n - 1, r[i].text = r[j].text
               PROVE i = j
    BY <1>5, <1>8 DEF Distinct
  <2>1. old[from(i)].text = old[from(j)].text
    BY <1>6
  <2> QED
    BY <1>7, <1>9, <2>1
<1>11. ~Has(y, old[k].text)
  <2> SUFFICES ASSUME NEW j \in 1 .. n - 1, r[j].text = old[k].text
               PROVE FALSE
    BY <1>5, <1>8 DEF Has
  <2>1. from(j) \in 1 .. n /\ from(j) # k /\ old[from(j)].text = old[k].text /\ k \in 1 .. n
    BY <1>1, <1>6, <1>7
  <2> QED
    BY <1>9, <2>1
<1> QED
  BY <1>8, <1>10, <1>11 DEF y, old

(* If the texts are distinct a text that is in the history is found. *)
LEMMA FindFact ==
  ASSUME NEW x \in Histories, NEW s, Distinct(x)
  PROVE  /\ \A k \in FindString(x, s) : k \in 1 .. Len(x.rows) /\ x.rows[k].text = s
         /\ FindString(x, s) = {} <=> ~Has(x, s)
<1>1. DOMAIN x.rows = 1 .. Len(x.rows) /\ Len(x.rows) \in Nat
  BY RowsFact
<1>2. \A k \in FindString(x, s) : k \in 1 .. Len(x.rows) /\ x.rows[k].text = s
  BY <1>1 DEF FindString
<1>3. ASSUME NEW k \in 1 .. Len(x.rows), x.rows[k].text = s PROVE k \in FindString(x, s)
  <2>1. \A j \in 1 .. k - 1 : j \in 1 .. Len(x.rows) /\ j # k
    BY <1>1
  <2>2. \A j \in 1 .. k - 1 : x.rows[j].text # s
    BY <1>3, <2>1 DEF Distinct
  <2> QED
    BY <1>1, <1>3, <2>2 DEF FindString
<1> QED
  BY <1>2, <1>3 DEF Has

LEMMA WithoutFact ==
  ASSUME NEW x \in Histories, NEW s \in Searches, Distinct(x)
  PROVE  LET y == WithoutString(x, s)
         IN /\ y \in Histories /\ SameSettings(x, y) /\ Distinct(y) /\ ~Has(y, s)
            /\ y.touched = x.touched
<1>1. CASE FindString(x, s) = {}
  BY <1>1, FindFact DEF WithoutString, SameSettings
<1>2. CASE FindString(x, s) # {}
  <2> DEFINE k == CHOOSE i \in FindString(x, s) : TRUE
  <2>1. k \in FindString(x, s)
    BY <1>2
  <2>2. WithoutString(x, s) = RemoveRow(x, k)
    BY <1>2 DEF WithoutString
  <2> HIDE DEF k
  <2>3. k \in 1 .. Len(x.rows) /\ x.rows[k].text = s
    BY <2>1, FindFact
  <2> QED
    BY <2>2, <2>3, RemoveRowFact
<1> QED
  BY <1>1, <1>2

---------------------------------------------------------------------------
Good(x) ==
  /\ x \in Histories /\ Settled(x) /\ Distinct(x)
  /\ ~x.touched => Latest(x)

LEMMA GoodFact == HistoryInv <=> Good(history)
<1>1. history \in Histories => DOMAIN history.rows = 1 .. Len(history.rows)
  BY RowsFact
<1> QED
  BY <1>1 DEF HistoryInv, HistoryTypeOK, HistoryDistinct, LatestShown, Good, Settled, Histories,
             Distinct, Latest

(* With the filter made anew all is good. *)
LEMMA RefilteredGood ==
  ASSUME NEW x \in Histories, Settled(x), Distinct(x)
  PROVE  Good(Refilter(x)) /\ SameSettings(x, Refilter(x))
BY RefilterFact DEF Good

(* An empty history is distinct. *)
LEMMA EmptyFact ==
  ASSUME NEW x \in Histories, x.rows = <<>>
  PROVE  Distinct(x) /\ Latest(x) /\ \A s : ~Has(x, s)
<1>1. Len(x.rows) = 0
  BY EmptySeq
<1>2. 1 .. Len(x.rows) = {}
  BY <1>1
<1> QED
  BY <1>2 DEF Distinct, Latest, Has

LEMMA SearchKeeps ==
  ASSUME Good(history), NEW s \in Searches, SearchFor(s)
  PROVE  Good(history')
<1>1. history \in Histories /\ Settled(history) /\ Distinct(history)
  BY DEF Good
<1>2. CASE history.list = None
  <2> DEFINE x == [history EXCEPT !.list = "own", !.column = TRUE]
  <2>1. x \in Histories /\ x.rows = <<>> /\ x.list = "own" /\ x.column
    BY <1>1, <1>2 DEF Histories, Settled
  <2>2. history' = Refilter(InsertLast(x, s))
    BY <1>2 DEF SearchFor, CreateList
  <2> HIDE DEF x
  <2> DEFINE y == InsertLast(x, s)
  <2>3. y \in Histories /\ SameSettings(x, y) /\ Distinct(y)
    BY <2>1, EmptyFact, InsertFact
  <2> HIDE DEF y
  <2>4. Settled(y)
    BY <2>1, <2>3, HistoryAssumption DEF Settled, SameSettings
  <2> QED
    BY <2>2, <2>3, <2>4, RefilteredGood DEF y
<1>3. CASE history.list # None /\ ~history.column
  BY <1>3 DEF SearchFor
<1>4. CASE history.list # None /\ history.column
  <2> DEFINE x == WithoutString(history, s)
             y == InsertLast(x, s)
  <2>1. history' = Refilter(y)
    BY <1>4 DEF SearchFor, AppendHistory
  <2>2. x \in Histories /\ SameSettings(history, x) /\ Distinct(x) /\ ~Has(x, s)
    BY <1>1, WithoutFact
  <2> HIDE DEF x
  <2>3. y \in Histories /\ SameSettings(x, y) /\ Distinct(y)
    BY <2>2, InsertFact
  <2> HIDE DEF y
  <2>4. Settled(y)
    BY <1>4, <2>2, <2>3 DEF Settled, SameSettings
  <2> QED
    BY <2>1, <2>3, <2>4, RefilteredGood
<1> QED
  BY <1>1, <1>2, <1>3, <1>4

LEMMA SettingsKeep ==
  ASSUME Good(history),
         \/ \E limit \in 0 .. MaxHistory : SetHistoryLimit(limit)
         \/ \E texts \in {<<>>} \union {<<s>> : s \in Searches} : SetList(texts)
         \/ SetColumn
  PROVE  Good(history')
<1>1. history \in Histories /\ Settled(history) /\ Distinct(history)
  BY DEF Good
<1>2. ASSUME NEW limit \in 0 .. MaxHistory, SetHistoryLimit(limit) PROVE Good(history')
  <2> DEFINE x == [history EXCEPT !.limit = limit]
  <2>1. x \in Histories /\ x.rows = history.rows /\ x.list = history.list /\ x.column = history.column
    BY <1>1 DEF Histories
  <2>2. history' = IF x.list = None THEN x ELSE [Refilter(x) EXCEPT !.column = TRUE]
    BY <1>2 DEF SetHistoryLimit
  <2> HIDE DEF x
  <2>3. Settled(x) /\ Distinct(x)
    BY <1>1, <2>1 DEF Settled, Distinct
  <2>4. CASE x.list = None
    <3>1. x.rows = <<>>
      BY <2>3, <2>4 DEF Settled
    <3> QED
      BY <2>1, <2>2, <2>3, <2>4, <3>1, EmptyFact DEF Good
  <2>5. CASE x.list # None
    <3> DEFINE y == Refilter(x)
    <3>1. Good(y) /\ SameSettings(x, y)
      BY <2>1, <2>3, RefilteredGood
    <3>2. history' = [y EXCEPT !.column = TRUE]
      BY <2>2, <2>5
    <3> HIDE DEF y
    <3>3. /\ history' \in Histories /\ history'.rows = y.rows /\ history'.limit = y.limit
          /\ history'.column /\ history'.list = y.list /\ history'.touched = y.touched
      BY <3>1, <3>2 DEF Good, Histories
    <3> QED
      BY <3>1, <3>3 DEF Good, Settled, Distinct, Latest
  <2> QED
    BY <2>4, <2>5
<1>3. ASSUME NEW texts \in {<<>>} \union {<<s>> : s \in Searches}, SetList(texts)
      PROVE Good(history')
  <2> DEFINE r == [k \in DOMAIN texts |-> [text |-> texts[k], visible |-> TRUE]]
             x == [history EXCEPT !.rows = r, !.list = "given"]
  <2>1. texts \in Seq(Searches) /\ Len(texts) <= 1
    <3>1. CASE texts = <<>>
      BY <3>1, EmptySeq
    <3>2. ASSUME NEW s \in Searches, texts = <<s>> PROVE texts \in Seq(Searches) /\ Len(texts) <= 1
      <4>1. <<s>> \in Seq(Searches) /\ Len(<<s>>) = 1
        OBVIOUS
      <4> QED
        BY <3>2, <4>1
    <3> QED
      BY <3>1, <3>2
  <2>2. DOMAIN texts = 1 .. Len(texts) /\ Len(texts) \in Nat
    BY <2>1, LenProperties
  <2>3. r \in [1 .. Len(texts) -> Row]
    BY <2>1, <2>2 DEF Row
  <2> HIDE DEF r
  <2>4. r \in Seq(Row) /\ Len(r) <= 1 /\ Len(r) \in Nat
    BY <2>1, <2>2, <2>3, SequenceFact
  <2>5. x \in Histories /\ x.rows = r /\ x.list = "given"
    BY <1>1, <2>4 DEF Histories
  <2>6. history' = Refilter(x)
    BY <1>3 DEF SetList, r
  <2> HIDE DEF x
  <2>7. Distinct(x)
    BY <2>4, <2>5 DEF Distinct
  <2>8. Settled(x)
    BY <2>5, HistoryAssumption DEF Settled
  <2> QED
    BY <2>5, <2>6, <2>7, <2>8, RefilteredGood
<1>4. CASE SetColumn
  <2>1. /\ history' \in Histories /\ history'.rows = history.rows /\ history'.limit = history.limit
        /\ history'.column /\ history'.list = history.list /\ history'.touched = history.touched
    BY <1>1, <1>4 DEF SetColumn, Histories
  <2> QED
    BY <2>1 DEF Good, Settled, Distinct, Latest
<1> QED
  BY <1>2, <1>3, <1>4

LEMMA HistoryAppKeeps ==
  ASSUME Good(history),
         \/ \E s \in Searches : AppAppends(s)
         \/ \E k \in DOMAIN history.rows : AppRemoves(k)
  PROVE  Good(history')
<1>1. history \in Histories /\ Distinct(history)
  BY DEF Good
<1>2. ASSUME NEW x \in Histories, SameSettings(history, x), Distinct(x),
             history.list = "given", history' = [x EXCEPT !.touched = TRUE]
      PROVE  Good(history')
  <2>1. /\ history' \in Histories /\ history'.rows = x.rows /\ history'.list = "given"
        /\ history'.touched
    BY <1>2 DEF Histories, SameSettings
  <2> QED
    BY <1>2, <2>1, HistoryAssumption DEF Good, Settled, Distinct
<1>3. ASSUME NEW s \in Searches, AppAppends(s) PROVE Good(history')
  <2>1. ~Has(history, s)
    BY <1>1, <1>3, FindFact DEF AppAppends
  <2> DEFINE x == InsertLast(history, s)
  <2>2. x \in Histories /\ SameSettings(history, x) /\ Distinct(x)
    BY <1>1, <2>1, InsertFact
  <2>3. history.list = "given" /\ history' = [x EXCEPT !.touched = TRUE]
    BY <1>3 DEF AppAppends
  <2> HIDE DEF x
  <2> QED
    BY <1>2, <2>2, <2>3
<1>4. ASSUME NEW k \in DOMAIN history.rows, AppRemoves(k) PROVE Good(history')
  <2> DEFINE x == RemoveRow(history, k)
  <2>1. k \in 1 .. Len(history.rows)
    BY <1>1, RowsFact
  <2>2. x \in Histories /\ SameSettings(history, x) /\ Distinct(x)
    BY <1>1, <2>1, RemoveRowFact
  <2>3. history.list = "given" /\ history' = [x EXCEPT !.touched = TRUE]
    BY <1>4 DEF AppRemoves
  <2> HIDE DEF x
  <2> QED
    BY <1>2, <2>2, <2>3
<1> QED
  BY <1>3, <1>4

(* Whatever is searched for and however the application changes the settings and    *)
(* its list, no text is twice in the history, and the filter shows the latest ones. *)
THEOREM HistorySafe == HistorySpec => []HistoryInv
<1> DEFINE HistoryGood == Good(history)
<1>1. HistoryInit => HistoryGood
  <2> SUFFICES ASSUME NEW limit \in 0 .. MaxHistory,
                      history = [rows |-> <<>>, limit |-> limit, list |-> None,
                                 column |-> FALSE, touched |-> FALSE]
               PROVE  Good(history)
    BY DEF HistoryInit
  <2>1. <<>> \in Seq(Row)
    BY EmptySeq
  <2>2. history \in Histories /\ history.rows = <<>> /\ history.list = None
    BY <2>1 DEF Histories
  <2> QED
    BY <2>2, EmptyFact, HistoryAssumption DEF Good, Settled
<1>2. HistoryGood /\ [HistoryNext]_historyVars => HistoryGood'
  <2> SUFFICES ASSUME Good(history), [HistoryNext]_historyVars PROVE Good(history')
    OBVIOUS
  <2>1. CASE UNCHANGED historyVars
    BY <2>1 DEF historyVars
  <2>2. ASSUME NEW s \in Searches, SearchFor(s) PROVE Good(history')
    BY <2>2, SearchKeeps
  <2> QED
    BY <2>1, <2>2, SettingsKeep, HistoryAppKeeps DEF HistoryNext
<1>3. HistoryGood => HistoryInv
  BY GoodFact
<1> HIDE DEF HistoryGood
<1> QED
  BY <1>1, <1>2, <1>3, PTL DEF HistorySpec

-----------------------------------------------------------------------------
(* Windows and the program of an application.                                *)

(* A program lists a window once; what is active is shown; what was never     *)
(* made is not topmost, and only windows that are shown have the property.    *)
ListedOnce ==
  \A j, k \in DOMAIN app.windows : app.windows[j] = app.windows[k] => j = k
ActiveShown == active \in Windows => Shown(app, active)
MadeOrNot ==
  /\ \A w \in app.topmost : app.state[w] # None
  /\ \A w \in app.killable : Shown(app, w)

(* A window of the program that is topmost and shown is the only one alive that *)
(* is topmost, the program knows that it is, and the toolbar is there.          *)
OneOnTop ==
  app.liberal \/
    \A w \in Windows : Shown(app, w) /\ InProgram(app, w) /\ w \in app.topmost =>
      /\ app.onTop
      /\ \A v \in app.topmost : Live(app, v) => v = w
      /\ app.toolbar # None => app.parent = w

ProgramIInv ==
  /\ ProgramTypeOK
  /\ TrackedOnce
  /\ TopmostInStep
  /\ HibernationKnown
  /\ ToolbarAtHome
  /\ ListedOnce
  /\ ActiveShown
  /\ MadeOrNot
  /\ OneOnTop

LEMMA ProgramIInvImpliesInv == ProgramIInv => ProgramInv
BY DEF ProgramIInv, ProgramInv, OneOnTop, ToolbarOnTop

(* Of some windows of the program one is the last. *)
LEMMA LastFact ==
  ASSUME NEW p, p.windows \in Seq(Windows), NEW some \in SUBSET ProgramWindows(p), some # {}
  PROVE  LastOf(p, some) \in some
<1> DEFINE n == Len(p.windows)
           seq == p.windows
           R == {ss \in Nat \X Nat : ss[1] < ss[2]}
           S == {m \in Nat : m < n /\ seq[n - m] \in some}
<1>1. n \in Nat /\ DOMAIN seq = 1 .. n
  OBVIOUS
<1>2. IsWellFoundedOn(R, Nat)
  BY NatLessThanWellFounded DEF OpToRel
<1>3. \E k \in 1 .. n : seq[k] \in some
  <2>1. PICK w \in some : TRUE
    OBVIOUS
  <2>2. InProgram(p, w)
    BY DEF ProgramWindows
  <2> QED
    BY <1>1, <2>1, <2>2 DEF InProgram
<1> HIDE DEF n, seq, R
<1>4. S # {}
  <2>1. PICK k \in 1 .. n : seq[k] \in some
    BY <1>3
  <2>2. n - k \in Nat /\ n - k < n /\ n - (n - k) = k
    BY <1>1
  <2>3. n - k \in S
    BY <2>1, <2>2
  <2> QED
    BY <2>3
<1>5. PICK m \in S : \A l \in S : ~ (<<l, m>> \in R)
  <2>1. S \subseteq Nat
    OBVIOUS
  <2> HIDE DEF S
  <2> QED
    BY <1>2, <1>4, <2>1, WFMin
<1>6. m \in Nat /\ m < n /\ seq[n - m] \in some
  OBVIOUS
<1>7. ASSUME NEW j \in 1 .. n, seq[j] \in some PROVE j <= n - m
  <2>1. n - j \in Nat /\ n - j < n /\ n - (n - j) = j
    BY <1>1
  <2>2. n - j \in S
    BY <1>7, <2>1
  <2>3. ~ (n - j < m)
    BY <1>5, <1>6, <2>1, <2>2 DEF R
  <2> QED
    BY <1>1, <1>6, <2>1, <2>3
<1>8. \E w \in some : \E k \in DOMAIN seq :
        /\ seq[k] = w
        /\ \A j \in DOMAIN seq : seq[j] \in some => j <= k
  <2>1. n - m \in DOMAIN seq
    BY <1>1, <1>6
  <2> QED
    BY <1>1, <1>6, <1>7, <2>1
<1> QED
  BY <1>8 DEF LastOf, seq

(* Only the place of the toolbar changes. *)
LEMMA TakeFact ==
  ASSUME NEW p \in Apps, NEW some \in SUBSET Windows
  PROVE  /\ TakeToolbar(p, some) \in Apps
         /\ TakeToolbar(p, some) = [p EXCEPT !.parent = TakeToolbar(p, some).parent]
         /\ some \intersect ProgramWindows(p) = {} => TakeToolbar(p, some).parent = p.parent
         /\ \/ TakeToolbar(p, some).parent = p.parent
            \/ TakeToolbar(p, some).parent \in ProgramWindows(p)
         /\ some \intersect ProgramWindows(p) # {} /\ p.toolbar # None
              => TakeToolbar(p, some).parent \in some \intersect ProgramWindows(p)
<1> DEFINE takers == some \intersect ProgramWindows(p)
<1>1. CASE p.toolbar = None \/ takers = {}
  <2>1. TakeToolbar(p, some) = p
    BY <1>1 DEF TakeToolbar
  <2> QED
    BY <1>1, <2>1 DEF Apps
<1>2. CASE ~ (p.toolbar = None \/ takers = {})
  <2>1. LastOf(p, takers) \in takers
    <3>1. p.windows \in Seq(Windows)
      BY DEF Apps
    <3> QED
      BY <1>2, <3>1, LastFact
  <2>2. TakeToolbar(p, some) = [p EXCEPT !.parent = LastOf(p, takers)]
    BY <1>2 DEF TakeToolbar
  <2> DEFINE last == LastOf(p, takers)
  <2>3. last \in some /\ last \in ProgramWindows(p) /\ last \in Windows
    BY <2>1 DEF ProgramWindows
  <2> HIDE DEF last
  <2>4. [p EXCEPT !.parent = last] \in Apps /\ [p EXCEPT !.parent = last].parent = last
    BY <2>3 DEF Apps
  <2> QED
    BY <1>2, <2>2, <2>3, <2>4 DEF last
<1> QED
  BY <1>1, <1>2

(* What an update of the topmost window leaves alone. *)
SameElsewhere(p, q) ==
  /\ q.state = p.state /\ q.filter = p.filter /\ q.killable = p.killable
  /\ q.windows = p.windows /\ q.tracks = p.tracks /\ q.canHibernate = p.canHibernate
  /\ q.toolbar = p.toolbar /\ q.broken = p.broken /\ q.liberal = p.liberal

(* The windows asked know whether they are active, and of those that are so *)
(* newly one of the program takes the toolbar.                              *)
LEMMA UpdateFact ==
  ASSUME NEW p \in Apps, NEW some \in SUBSET Windows,
         NEW q, q = UpdateTopmost(p, some)
  PROVE  /\ q \in Apps /\ SameElsewhere(p, q) /\ q.onTop = p.onTop
         /\ \A w \in Windows : w \in q.topmost <=> IF w \in some THEN IsActive(p, w) ELSE w \in p.topmost
         /\ \/ q.parent = p.parent
            \/ q.parent \in ProgramWindows(p)
         /\ (\A w \in some : InProgram(p, w) /\ IsActive(p, w) => w \in p.topmost)
              => q.parent = p.parent
         /\ (\E w \in some : InProgram(p, w) /\ IsActive(p, w) /\ w \notin p.topmost) /\ p.toolbar # None
              => /\ q.parent \in some /\ InProgram(p, q.parent) /\ IsActive(p, q.parent)
<1> DEFINE risen == {w \in some \ p.topmost : IsActive(p, w)}
           stay == {w \in p.topmost : w \in some => IsActive(p, w)}
           r == [p EXCEPT !.topmost = stay \union risen]
<1>1. q = TakeToolbar(r, risen)
  BY DEF UpdateTopmost
<1>2. /\ r \in Apps /\ SameElsewhere(p, r) /\ r.onTop = p.onTop /\ r.parent = p.parent
      /\ r.topmost = stay \union risen
  <2>1. stay \union risen \in SUBSET Windows
    BY DEF Apps
  <2> HIDE DEF stay, risen
  <2> QED
    BY <2>1 DEF Apps, SameElsewhere
<1>3. risen \in SUBSET Windows
  OBVIOUS
<1>4. ProgramWindows(r) = ProgramWindows(p)
  BY <1>2 DEF ProgramWindows, InProgram, SameElsewhere
<1>5. \A w \in Windows : w \in stay \union risen <=> IF w \in some THEN IsActive(p, w) ELSE w \in p.topmost
  OBVIOUS
<1>6. \A w \in Windows : w \in risen \intersect ProgramWindows(p)
        <=> w \in some /\ InProgram(p, w) /\ IsActive(p, w) /\ w \notin p.topmost
  BY DEF ProgramWindows
<1> HIDE DEF r, risen, stay
<1>7. /\ q \in Apps
      /\ q = [r EXCEPT !.parent = q.parent]
      /\ risen \intersect ProgramWindows(p) = {} => q.parent = r.parent
      /\ q.parent = r.parent \/ q.parent \in ProgramWindows(p)
      /\ risen \intersect ProgramWindows(p) # {} /\ r.toolbar # None => q.parent \in risen \intersect ProgramWindows(p)
  BY <1>1, <1>2, <1>3, <1>4, TakeFact
<1>8. SameElsewhere(p, q) /\ q.onTop = p.onTop /\ q.topmost = r.topmost
  <2> DEFINE at == q.parent
  <2>1. q = [r EXCEPT !.parent = at]
    BY <1>7
  <2> HIDE DEF at
  <2>2. /\ q.state = r.state /\ q.filter = r.filter /\ q.killable = r.killable
        /\ q.windows = r.windows /\ q.tracks = r.tracks /\ q.canHibernate = r.canHibernate
        /\ q.toolbar = r.toolbar /\ q.broken = r.broken /\ q.liberal = r.liberal
        /\ q.onTop = r.onTop /\ q.topmost = r.topmost
    BY <1>2, <2>1 DEF Apps
  <2> QED
    BY <1>2, <2>2 DEF SameElsewhere
<1>9. r.toolbar = p.toolbar
  BY <1>2 DEF SameElsewhere
<1>10. \A w \in Windows : w \in q.topmost <=> IF w \in some THEN IsActive(p, w) ELSE w \in p.topmost
  BY <1>2, <1>5, <1>8
<1>11. ASSUME \A w \in some : InProgram(p, w) /\ IsActive(p, w) => w \in p.topmost
       PROVE  q.parent = p.parent
  BY <1>2, <1>3, <1>6, <1>7, <1>11
<1>12. ASSUME NEW w \in some, InProgram(p, w) /\ IsActive(p, w) /\ w \notin p.topmost, p.toolbar # None
       PROVE  q.parent \in some /\ InProgram(p, q.parent) /\ IsActive(p, q.parent)
  <2>1. q.parent \in risen \intersect ProgramWindows(p)
    BY <1>6, <1>7, <1>9, <1>12
  <2> QED
    BY <1>3, <1>6, <2>1
<1> QED
  BY <1>2, <1>7, <1>8, <1>10, <1>11, <1>12

(* hildon_program_update_top_most *)
LEMMA UpdateProgramFact ==
  ASSUME NEW p \in Apps, NEW q, q = UpdateProgram(p)
  PROVE  /\ q \in Apps /\ SameElsewhere(p, q)
         /\ q.onTop = IF active \in {Dead, None} THEN p.onTop ELSE active # Foreign
         /\ \A w \in Windows : w \in q.topmost
              <=> IF InProgram(p, w) /\ active # Dead THEN IsActive(p, w) ELSE w \in p.topmost
         /\ \/ q.parent = p.parent
            \/ q.parent \in ProgramWindows(p)
         /\ active = Dead => q.parent = p.parent
         /\ (\A w \in Windows : InProgram(p, w) /\ IsActive(p, w) => w \in p.topmost)
              => q.parent = p.parent
         /\ /\ \E w \in Windows : InProgram(p, w) /\ IsActive(p, w) /\ w \notin p.topmost
            /\ p.toolbar # None /\ active # Dead
            => InProgram(p, q.parent) /\ IsActive(p, q.parent)
<1>1. CASE active = Dead
  BY <1>1 DEF UpdateProgram, SameElsewhere
<1>2. CASE active # Dead
  <2> DEFINE some == ProgramWindows(p)
  <2>1. some \in SUBSET Windows /\ \A w \in Windows : w \in some <=> InProgram(p, w)
    BY DEF ProgramWindows
  <2>2. PICK top \in BOOLEAN : top <=> IF active = None THEN p.onTop ELSE active # Foreign
    BY Zenon DEF Apps
  <2> DEFINE r == [p EXCEPT !.onTop = top]
  <2>3. r \in Apps /\ SameElsewhere(p, r) /\ r.onTop = top /\ r.topmost = p.topmost /\ r.parent = p.parent
    BY DEF Apps, SameElsewhere
  <2>4. q = UpdateTopmost(r, some)
    <3>1. CASE active = None
      <4>1. r = p
        BY <2>2, <2>3, <3>1 DEF Apps
      <4> QED
        BY <1>2, <3>1, <4>1 DEF UpdateProgram
    <3>2. CASE active # None
      <4>1. top = (active # Foreign)
        BY <2>2, <3>2
      <4> QED
        BY <1>2, <3>2, <4>1 DEF UpdateProgram
    <3> QED
      BY <3>1, <3>2
  <2>5. \A w \in Windows : (InProgram(r, w) <=> InProgram(p, w)) /\ (IsActive(r, w) <=> IsActive(p, w))
    BY <2>3 DEF SameElsewhere, InProgram, IsActive, Shown
  <2>6. ProgramWindows(r) = some
    BY <2>1, <2>5 DEF ProgramWindows
  <2> HIDE DEF r, some
  <2>7. /\ q \in Apps /\ SameElsewhere(r, q) /\ q.onTop = r.onTop
        /\ \A w \in Windows : w \in q.topmost <=> IF w \in some THEN IsActive(r, w) ELSE w \in r.topmost
        /\ \/ q.parent = r.parent
           \/ q.parent \in ProgramWindows(r)
        /\ (\A w \in some : InProgram(r, w) /\ IsActive(r, w) => w \in r.topmost)
             => q.parent = r.parent
        /\ (\E w \in some : InProgram(r, w) /\ IsActive(r, w) /\ w \notin r.topmost) /\ r.toolbar # None
             => /\ q.parent \in some /\ InProgram(r, q.parent) /\ IsActive(r, q.parent)
    BY <2>1, <2>3, <2>4, UpdateFact
  <2>8. SameElsewhere(p, q) /\ r.toolbar = p.toolbar
    BY <2>3, <2>7 DEF SameElsewhere
  <2>9. q.onTop = IF active \in {Dead, None} THEN p.onTop ELSE active # Foreign
    <3>1. q.onTop = top
      BY <2>3, <2>7
    <3>2. p.onTop \in BOOLEAN
      BY DEF Apps
    <3> QED
      BY <1>2, <2>2, <3>1, <3>2
  <2>10. ASSUME NEW w \in Windows
         PROVE w \in q.topmost
              <=> IF InProgram(p, w) /\ active # Dead THEN IsActive(p, w) ELSE w \in p.topmost
    BY <1>2, <2>1, <2>3, <2>5, <2>7
  <2>11. q.parent = p.parent \/ q.parent \in ProgramWindows(p)
    BY <2>3, <2>6, <2>7 DEF some
  <2>12. ASSUME \A w \in Windows : InProgram(p, w) /\ IsActive(p, w) => w \in p.topmost
         PROVE  q.parent = p.parent
    BY <2>1, <2>3, <2>5, <2>7, <2>12
  <2>13. ASSUME NEW w \in Windows, InProgram(p, w) /\ IsActive(p, w) /\ w \notin p.topmost,
                p.toolbar # None
         PROVE  InProgram(p, q.parent) /\ IsActive(p, q.parent)
    <3>1. w \in some /\ InProgram(r, w) /\ IsActive(r, w) /\ w \notin r.topmost /\ r.toolbar # None
      BY <2>1, <2>3, <2>5, <2>8, <2>13
    <3>2. q.parent \in some /\ InProgram(r, q.parent) /\ IsActive(r, q.parent)
      BY <2>7, <3>1
    <3> QED
      BY <2>1, <2>5, <3>2
  <2> QED
    BY <1>2, <2>7, <2>8, <2>9, <2>10, <2>11, <2>12, <2>13
<1> QED
  BY <1>1, <1>2

(* Without a window the list has the others, each once. *)
LEMMA RemovedFact ==
  ASSUME NEW seq \in Seq(Windows), NEW w, \E k \in DOMAIN seq : seq[k] = w,
         \A i, j \in DOMAIN seq : seq[i] = seq[j] => i = j
  PROVE  /\ Removed(seq, w) \in Seq(Windows)
         /\ \A i, j \in DOMAIN Removed(seq, w) : Removed(seq, w)[i] = Removed(seq, w)[j] => i = j
         /\ \A v : (\E i \in DOMAIN Removed(seq, w) : Removed(seq, w)[i] = v)
                     <=> v # w /\ \E i \in DOMAIN seq : seq[i] = v
<1> DEFINE place == CHOOSE i \in DOMAIN seq : seq[i] = w
           q == Removed(seq, w)
           n == Len(seq)
<1>1. place \in DOMAIN seq /\ seq[place] = w
  OBVIOUS
<1>2. n \in Nat /\ DOMAIN seq = 1 .. n /\ place \in 1 .. n
  BY <1>1
<1>3. q = [i \in 1 .. n - 1 |-> IF i < place THEN seq[i] ELSE seq[i + 1]]
  BY DEF Removed
<1> HIDE DEF place, q, n
<1>4. \A i \in 1 .. n - 1 : i \in 1 .. n /\ i + 1 \in 1 .. n
  BY <1>2
<1>5. n - 1 \in Nat
  BY <1>2
<1>6. DOMAIN q = 1 .. n - 1 /\ \A i \in 1 .. n - 1 : q[i] = IF i < place THEN seq[i] ELSE seq[i + 1]
  BY <1>3
<1>7. q \in Seq(Windows)
  <2>1. \A i \in 1 .. n - 1 : (IF i < place THEN seq[i] ELSE seq[i + 1]) \in Windows
    BY <1>2, <1>4
  <2> QED
    BY <1>3, <1>5, <2>1
<1>8. ASSUME NEW i \in DOMAIN q, NEW j \in DOMAIN q, q[i] = q[j] PROVE i = j
  <2>1. i \in 1 .. n - 1 /\ j \in 1 .. n - 1
    BY <1>6
  <2>2. (IF i < place THEN seq[i] ELSE seq[i + 1]) = (IF j < place THEN seq[j] ELSE seq[j + 1])
    BY <1>6, <1>8, <2>1
  <2>3. (IF i < place THEN i ELSE i + 1) = (IF j < place THEN j ELSE j + 1)
    BY <1>2, <1>4, <2>1, <2>2
  <2> QED
    BY <1>2, <2>1, <2>3
<1>9. ASSUME NEW v, NEW i \in DOMAIN q, q[i] = v PROVE v # w /\ \E j \in DOMAIN seq : seq[j] = v
  <2>1. i \in 1 .. n - 1
    BY <1>6
  <2> DEFINE j == IF i < place THEN i ELSE i + 1
  <2>2. j \in 1 .. n /\ j # place
    BY <1>2, <2>1
  <2>3. seq[j] = v
    BY <1>6, <1>9, <2>1
  <2> HIDE DEF j
  <2> QED
    BY <1>1, <1>2, <2>2, <2>3
<1>10. ASSUME NEW v, v # w, NEW j \in DOMAIN seq, seq[j] = v PROVE \E i \in DOMAIN q : q[i] = v
  <2>1. j \in 1 .. n /\ j # place
    BY <1>1, <1>2, <1>10
  <2>2. CASE j < place
    <3>1. j \in 1 .. n - 1
      BY <1>2, <2>1, <2>2
    <3> QED
      BY <1>6, <1>10, <2>2, <3>1
  <2>3. CASE j > place
    <3>1. j - 1 \in 1 .. n - 1 /\ ~ (j - 1 < place) /\ (j - 1) + 1 = j
      BY <1>2, <2>1, <2>3
    <3>2. q[j - 1] = v
      BY <1>6, <1>10, <3>1
    <3> QED
      BY <1>6, <3>1, <3>2
  <2> QED
    BY <1>2, <2>1, <2>2, <2>3
<1> QED
  BY <1>7, <1>8, <1>9, <1>10 DEF q

(* Removal from the program: the window has its own filter again. *)
LEMMA RemoveFact ==
  ASSUME NEW p \in Apps, NEW w \in Windows, InProgram(p, w),
         \A i, j \in DOMAIN p.windows : p.windows[i] = p.windows[j] => i = j,
         NEW q, q = RemoveFromProgram(p, w)
  PROVE  /\ q \in Apps
         /\ q.state = p.state /\ q.topmost = p.topmost /\ q.killable = p.killable
         /\ q.onTop = p.onTop /\ q.canHibernate = p.canHibernate /\ q.toolbar = p.toolbar
         /\ q.parent = p.parent /\ q.broken = p.broken /\ q.liberal = p.liberal
         /\ q.filter = p.filter \union {w}
         /\ \A v : InProgram(q, v) <=> v # w /\ InProgram(p, v)
         /\ q.tracks <=> q.windows # <<>>
         /\ \A i, j \in DOMAIN q.windows : q.windows[i] = q.windows[j] => i = j
<1> DEFINE seq == p.windows
           left == Removed(seq, w)
<1>1. \E k \in DOMAIN seq : seq[k] = w
  BY DEF InProgram
<1>2. seq \in Seq(Windows)
  BY DEF Apps
<1>3. \A i, j \in DOMAIN seq : seq[i] = seq[j] => i = j
  OBVIOUS
<1> HIDE DEF seq
<1>4. /\ left \in Seq(Windows)
      /\ \A i, j \in DOMAIN left : left[i] = left[j] => i = j
      /\ \A v : (\E i \in DOMAIN left : left[i] = v) <=> v # w /\ \E i \in DOMAIN seq : seq[i] = v
  BY ONLY <1>1, <1>2, <1>3, RemovedFact
<1>5. PICK some \in BOOLEAN : some <=> left # <<>>
  BY Zenon
<1>6. some = (left # <<>>)
  BY <1>5
<1>7. q = [[p EXCEPT !.filter = @ \union {w}] EXCEPT !.windows = left, !.tracks = some]
  BY <1>6 DEF RemoveFromProgram, UnsetProgram, seq
<1> HIDE DEF left
<1>8. /\ q \in Apps
      /\ q.state = p.state /\ q.topmost = p.topmost /\ q.killable = p.killable
      /\ q.onTop = p.onTop /\ q.canHibernate = p.canHibernate /\ q.toolbar = p.toolbar
      /\ q.parent = p.parent /\ q.broken = p.broken /\ q.liberal = p.liberal
      /\ q.filter = p.filter \union {w}
      /\ q.windows = left /\ q.tracks = some
  <2> DEFINE own == p.filter \union {w}
  <2>1. own \in SUBSET Windows
    BY DEF Apps
  <2>2. q = [p EXCEPT !.filter = own, !.windows = left, !.tracks = some]
    BY <1>7 DEF Apps
  <2>3. left \in Seq(Windows)
    BY <1>4
  <2> HIDE DEF own
  <2> DEFINE r == [p EXCEPT !.filter = own, !.windows = left, !.tracks = some]
  <2>4. r \in Apps /\ r.filter = own /\ r.windows = left /\ r.tracks = some
    BY <2>1, <2>3 DEF Apps
  <2>5. /\ r.state = p.state /\ r.topmost = p.topmost /\ r.killable = p.killable
        /\ r.onTop = p.onTop /\ r.canHibernate = p.canHibernate /\ r.toolbar = p.toolbar
        /\ r.parent = p.parent /\ r.broken = p.broken /\ r.liberal = p.liberal
    BY DEF Apps
  <2>6. q = r
    BY <2>2
  <2>7. r.filter = p.filter \union {w}
    BY <2>4 DEF own
  <2> HIDE DEF r, own
  <2> QED
    BY ONLY <2>4, <2>5, <2>6, <2>7
<1>9. \A v : InProgram(q, v) <=> v # w /\ InProgram(p, v)
  <2> SUFFICES ASSUME NEW v PROVE InProgram(q, v) <=> v # w /\ InProgram(p, v)
    OBVIOUS
  <2>1. InProgram(q, v) <=> \E i \in DOMAIN left : left[i] = v
    <3>1. q.windows = left
      BY <1>8
    <3> QED
      BY ONLY <3>1 DEF InProgram
  <2>2. InProgram(p, v) <=> \E i \in DOMAIN seq : seq[i] = v
    BY ONLY TRUE DEF InProgram, seq
  <2> QED
    BY ONLY <1>4, <2>1, <2>2
<1> QED
  BY <1>4, <1>5, <1>8, <1>9

LEMMA ProgramIInvInit == ProgramInit => ProgramIInv
<1> SUFFICES ASSUME ProgramInit PROVE ProgramIInv
  OBVIOUS
<1>1. PICK l \in BOOLEAN : app =
        [state |-> [w \in Windows |-> None], filter |-> {}, topmost |-> {},
         killable |-> {}, windows |-> <<>>, tracks |-> FALSE, onTop |-> FALSE,
         canHibernate |-> FALSE, toolbar |-> None, parent |-> None, broken |-> FALSE,
         liberal |-> l]
  BY Zenon DEF ProgramInit
<1>2. /\ app \in Apps /\ app.state = [w \in Windows |-> None] /\ app.filter = {} /\ app.topmost = {}
      /\ app.killable = {} /\ app.windows = <<>> /\ ~app.tracks /\ app.parent = None /\ ~app.broken
  BY <1>1 DEF Apps, WindowState
<1>3. active = None /\ notifies = 0
  BY DEF ProgramInit
<1>4. \A w \in Windows : app.state[w] = None /\ ~InProgram(app, w) /\ w # None
  BY <1>2, ProgramAssumption DEF InProgram
<1>5. None # "hidden" /\ None # "shown"
  BY ProgramAssumption
<1>6. \A w \in Windows : ~Live(app, w) /\ ~Shown(app, w)
  BY <1>4, <1>5 DEF Live, Shown
<1>7. ProgramTypeOK
  BY <1>2, <1>3, ProgramAssumption DEF ProgramTypeOK
<1>8. TrackedOnce
  BY <1>2, <1>4, <1>6 DEF TrackedOnce
<1> QED
  BY <1>2, <1>3, <1>4, <1>6, <1>7, <1>8, ProgramAssumption
     DEF ProgramIInv, TopmostInStep, HibernationKnown, ToolbarAtHome, ListedOnce, ActiveShown,
         MadeOrNot, OneOnTop

LEMMA SetActiveStep ==
  ASSUME ProgramIInv, NEW v \in Windows \union {Dialog, Foreign, None}, SetActive(v)
  PROVE  ProgramIInv'
<1>1. app' = app /\ active' = v /\ notifies' = notifies + 1
  BY DEF SetActive
<1>2. ProgramTypeOK'
  BY <1>1, ProgramAssumption DEF ProgramIInv, ProgramTypeOK, SetActive
<1>3. notifies' # 0
  BY <1>1 DEF ProgramIInv, ProgramTypeOK
<1>4. ActiveShown'
  BY <1>1 DEF SetActive, ActiveShown
<1> QED
  BY <1>1, <1>2, <1>3, <1>4
     DEF ProgramIInv, TrackedOnce, TopmostInStep, HibernationKnown, ToolbarAtHome, ListedOnce,
         MadeOrNot, OneOnTop

LEMMA DialogDiesStep ==
  ASSUME ProgramIInv, DialogDies
  PROVE  ProgramIInv'
<1>1. app' = app /\ active' = Dead /\ notifies' = notifies
  BY DEF DialogDies
<1> QED
  BY <1>1, ProgramAssumption
     DEF ProgramIInv, ProgramTypeOK, TrackedOnce, TopmostInStep, HibernationKnown, ToolbarAtHome,
         ListedOnce, ActiveShown, MadeOrNot, OneOnTop

LEMMA NewWindowStep ==
  ASSUME ProgramIInv, NEW w \in Windows, NewWindow(w)
  PROVE  ProgramIInv'
<1>1. active' = active /\ notifies' = notifies
  BY DEF NewWindow
<1>2. /\ app' \in Apps /\ app'.state = [app.state EXCEPT ![w] = "hidden"]
      /\ app'.filter = app.filter \union {w} /\ app'.topmost = app.topmost
      /\ app'.killable = app.killable /\ app'.windows = app.windows /\ app'.tracks = app.tracks
      /\ app'.onTop = app.onTop /\ app'.canHibernate = app.canHibernate
      /\ app'.toolbar = app.toolbar /\ app'.parent = app.parent /\ app'.broken = app.broken
      /\ app'.liberal = app.liberal
  <2>1. app \in Apps
    BY DEF ProgramIInv, ProgramTypeOK
  <2> DEFINE st == [app.state EXCEPT ![w] = "hidden"]
             fi == app.filter \union {w}
             r == [app EXCEPT !.state = st, !.filter = fi]
  <2>2. st \in [Windows -> WindowState] /\ fi \in SUBSET Windows
    BY <2>1 DEF Apps, WindowState
  <2>3. app' = r
    BY <2>1 DEF NewWindow, Apps
  <2> HIDE DEF st, fi
  <2>4. /\ r \in Apps /\ r.state = st
      /\ r.filter = fi /\ r.topmost = app.topmost
      /\ r.killable = app.killable /\ r.windows = app.windows /\ r.tracks = app.tracks
      /\ r.onTop = app.onTop /\ r.canHibernate = app.canHibernate
      /\ r.toolbar = app.toolbar /\ r.parent = app.parent /\ r.broken = app.broken
      /\ r.liberal = app.liberal
    BY <2>1, <2>2 DEF Apps
  <2> HIDE DEF r
  <2> QED
    BY ONLY <2>3, <2>4 DEF st, fi
<1>3. \A v \in Windows : (InProgram(app', v) <=> InProgram(app, v)) /\ app.state[w] = None
  BY <1>2 DEF InProgram, NewWindow
<1>4. \A v \in Windows : app'.state[v] = IF v = w THEN "hidden" ELSE app.state[v]
  BY <1>2 DEF ProgramIInv, ProgramTypeOK, Apps
<1>5. /\ \A v \in Windows : Live(app', v) <=> v = w \/ Live(app, v)
      /\ \A v \in Windows : Shown(app', v) <=> v # w /\ Shown(app, v)
      /\ ~Live(app, w) /\ ~Shown(app, w)
  BY <1>3, <1>4, ProgramAssumption DEF Live, Shown
<1>6. ProgramTypeOK'
  BY <1>1, <1>2 DEF ProgramIInv, ProgramTypeOK
<1>7. TrackedOnce'
  BY <1>2, <1>3, <1>5 DEF ProgramIInv, TrackedOnce
<1>8. TopmostInStep'
  BY <1>1, <1>2, <1>5 DEF ProgramIInv, TopmostInStep
<1>9. HibernationKnown'
  BY <1>2, <1>3, <1>5 DEF ProgramIInv, HibernationKnown
<1>10. ToolbarAtHome'
  BY <1>2, <1>3 DEF ProgramIInv, ProgramTypeOK, Apps, ToolbarAtHome
<1>11. ListedOnce'
  BY <1>2 DEF ProgramIInv, ListedOnce
<1>12. ActiveShown'
  BY <1>1, <1>5 DEF ProgramIInv, ActiveShown
<1>13. MadeOrNot'
  <2>1. app.topmost \subseteq Windows /\ app.killable \subseteq Windows
    BY DEF ProgramIInv, ProgramTypeOK, Apps
  <2> QED
    BY <1>2, <1>3, <1>4, <1>5, <2>1, ProgramAssumption DEF ProgramIInv, MadeOrNot
<1>14. OneOnTop'
  <2>1. app.topmost \subseteq Windows /\ w \notin app.topmost
    BY <1>3 DEF ProgramIInv, ProgramTypeOK, Apps, MadeOrNot
  <2> QED
    BY <1>2, <1>3, <1>5, <2>1 DEF ProgramIInv, OneOnTop
<1> QED
  BY <1>6, <1>7, <1>8, <1>9, <1>10, <1>11, <1>12, <1>13, <1>14 DEF ProgramIInv

LEMMA UnrealizeStep ==
  ASSUME ProgramIInv, NEW w \in Windows, Unrealize(w)
  PROVE  ProgramIInv'
<1>1. active' = (IF active = w THEN Dead ELSE active) /\ notifies' = notifies
  BY DEF Unrealize, WithoutX
<1>2. /\ app' \in Apps /\ app'.state = [app.state EXCEPT ![w] = "hidden"]
      /\ app'.killable = app.killable \ {w} /\ app'.topmost = app.topmost
      /\ app'.filter = app.filter /\ app'.windows = app.windows /\ app'.tracks = app.tracks
      /\ app'.onTop = app.onTop /\ app'.canHibernate = app.canHibernate
      /\ app'.toolbar = app.toolbar /\ app'.parent = app.parent /\ app'.broken = app.broken
      /\ app'.liberal = app.liberal
  <2>1. app \in Apps
    BY DEF ProgramIInv, ProgramTypeOK
  <2> DEFINE st == [app.state EXCEPT ![w] = "hidden"]
             ki == app.killable \ {w}
             r == [app EXCEPT !.state = st, !.killable = ki]
  <2>2. st \in [Windows -> WindowState] /\ ki \in SUBSET Windows
    BY <2>1 DEF Apps, WindowState
  <2>3. app' = r
    BY <2>1 DEF Unrealize, Apps
  <2> HIDE DEF st, ki
  <2>4. /\ r \in Apps /\ r.state = st
      /\ r.killable = ki /\ r.topmost = app.topmost
      /\ r.filter = app.filter /\ r.windows = app.windows /\ r.tracks = app.tracks
      /\ r.onTop = app.onTop /\ r.canHibernate = app.canHibernate
      /\ r.toolbar = app.toolbar /\ r.parent = app.parent /\ r.broken = app.broken
      /\ r.liberal = app.liberal
    BY <2>1, <2>2 DEF Apps
  <2> HIDE DEF r
  <2> QED
    BY ONLY <2>3, <2>4 DEF st, ki
<1>3. \A v \in Windows : (InProgram(app', v) <=> InProgram(app, v)) /\ app.state[w] = "shown"
  BY <1>2 DEF InProgram, Unrealize, Shown
<1>4. \A v \in Windows : app'.state[v] = IF v = w THEN "hidden" ELSE app.state[v]
  BY <1>2 DEF ProgramIInv, ProgramTypeOK, Apps
<1>5. /\ \A v \in Windows : Live(app', v) <=> Live(app, v)
      /\ \A v \in Windows : Shown(app', v) <=> v # w /\ Shown(app, v)
  BY <1>3, <1>4, ProgramAssumption DEF Live, Shown
<1>6. ProgramTypeOK'
  BY <1>1, <1>2 DEF ProgramIInv, ProgramTypeOK
<1>7. TrackedOnce'
  BY <1>2, <1>3, <1>5 DEF ProgramIInv, TrackedOnce
<1>8. TopmostInStep'
  BY <1>1, <1>2, <1>5 DEF ProgramIInv, TopmostInStep
<1>9. HibernationKnown'
  BY <1>2, <1>3, <1>5 DEF ProgramIInv, HibernationKnown
<1>10. ToolbarAtHome'
  BY <1>2, <1>3 DEF ProgramIInv, ProgramTypeOK, Apps, ToolbarAtHome
<1>11. ListedOnce'
  BY <1>2 DEF ProgramIInv, ListedOnce
<1>12. ActiveShown'
  BY <1>1, <1>5, ProgramAssumption DEF ProgramIInv, ActiveShown
<1>13. MadeOrNot'
  <2>1. app.topmost \subseteq Windows /\ app.killable \subseteq Windows
    BY DEF ProgramIInv, ProgramTypeOK, Apps
  <2> QED
    BY <1>2, <1>3, <1>4, <1>5, <2>1, ProgramAssumption DEF ProgramIInv, MadeOrNot
<1>14. OneOnTop'
  <2>1. app.topmost \subseteq Windows
    BY DEF ProgramIInv, ProgramTypeOK, Apps
  <2> QED
    BY <1>2, <1>3, <1>5, <2>1 DEF ProgramIInv, OneOnTop
<1> QED
  BY <1>6, <1>7, <1>8, <1>9, <1>10, <1>11, <1>12, <1>13, <1>14 DEF ProgramIInv

LEMMA SetCanHibernateStep ==
  ASSUME ProgramIInv, NEW can \in BOOLEAN, SetCanHibernate(can)
  PROVE  ProgramIInv'
<1>1. active' = active /\ notifies' = notifies
  BY DEF SetCanHibernate
<1> DEFINE shown == {w \in Windows : Shown(app, w) /\ InProgram(app, w)}
           ki == IF can THEN app.killable \union shown ELSE app.killable \ shown
<1>2. /\ app' \in Apps /\ app'.canHibernate = can /\ app'.killable = ki
      /\ app'.state = app.state /\ app'.topmost = app.topmost
      /\ app'.filter = app.filter /\ app'.windows = app.windows /\ app'.tracks = app.tracks
      /\ app'.onTop = app.onTop /\ app'.toolbar = app.toolbar /\ app'.parent = app.parent
      /\ app'.broken = app.broken /\ app'.liberal = app.liberal
  <2>1. app \in Apps
    BY DEF ProgramIInv, ProgramTypeOK
  <2> DEFINE r == [app EXCEPT !.canHibernate = can, !.killable = ki]
  <2>2. ki \in SUBSET Windows
    BY <2>1 DEF Apps
  <2>3. app' = r
    BY <2>1 DEF SetCanHibernate, Apps
  <2> HIDE DEF ki
  <2>4. /\ r \in Apps /\ r.canHibernate = can /\ r.killable = ki
      /\ r.state = app.state /\ r.topmost = app.topmost
      /\ r.filter = app.filter /\ r.windows = app.windows /\ r.tracks = app.tracks
      /\ r.onTop = app.onTop /\ r.toolbar = app.toolbar /\ r.parent = app.parent
      /\ r.broken = app.broken /\ r.liberal = app.liberal
    BY <2>1, <2>2 DEF Apps
  <2> HIDE DEF r
  <2> QED
    BY ONLY <2>3, <2>4
<1>3. \A v \in Windows : v \in ki <=>
        IF Shown(app, v) /\ InProgram(app, v) THEN can ELSE v \in app.killable
  BY DEF ProgramIInv, ProgramTypeOK, Apps
<1> HIDE DEF shown, ki
<1>4. \A v \in Windows : /\ InProgram(app', v) <=> InProgram(app, v)
                         /\ Live(app', v) <=> Live(app, v)
                         /\ Shown(app', v) <=> Shown(app, v)
  BY <1>2 DEF InProgram, Live, Shown
<1>5. ProgramTypeOK'
  BY <1>1, <1>2 DEF ProgramIInv, ProgramTypeOK
<1>6. TrackedOnce'
  BY <1>2, <1>4 DEF ProgramIInv, TrackedOnce
<1>7. TopmostInStep'
  BY <1>1, <1>2, <1>4 DEF ProgramIInv, TopmostInStep
<1>8. HibernationKnown'
  BY <1>2, <1>3, <1>4 DEF HibernationKnown
<1>9. ToolbarAtHome'
  BY <1>2, <1>4 DEF ProgramIInv, ProgramTypeOK, Apps, ToolbarAtHome
<1>10. ListedOnce'
  BY <1>2 DEF ProgramIInv, ListedOnce
<1>11. ActiveShown'
  BY <1>1, <1>4 DEF ProgramIInv, ActiveShown
<1>12. MadeOrNot'
  <2>1. ki \subseteq Windows
    BY <1>2 DEF Apps
  <2> QED
    BY <1>2, <1>3, <1>4, <2>1 DEF ProgramIInv, MadeOrNot
<1>13. OneOnTop'
  <2>1. app.topmost \subseteq Windows
    BY DEF ProgramIInv, ProgramTypeOK, Apps
  <2> QED
    BY <1>2, <1>4, <2>1 DEF ProgramIInv, OneOnTop
<1> QED
  BY <1>5, <1>6, <1>7, <1>8, <1>9, <1>10, <1>11, <1>12, <1>13 DEF ProgramIInv

LEMMA RemoveWindowStep ==
  ASSUME ProgramIInv, NEW w \in Windows, RemoveWindow(w)
  PROVE  ProgramIInv'
<1>1. /\ active' = active /\ notifies' = notifies
      /\ app.liberal /\ InProgram(app, w) /\ app' = RemoveFromProgram(app, w)
  BY DEF RemoveWindow
<1>2. app \in Apps
  BY DEF ProgramIInv, ProgramTypeOK
<1>3. \A i, j \in DOMAIN app.windows : app.windows[i] = app.windows[j] => i = j
  BY DEF ProgramIInv, ListedOnce
<1>4. /\ app' \in Apps
      /\ app'.state = app.state /\ app'.topmost = app.topmost /\ app'.killable = app.killable
      /\ app'.onTop = app.onTop /\ app'.canHibernate = app.canHibernate /\ app'.toolbar = app.toolbar
      /\ app'.parent = app.parent /\ app'.broken = app.broken /\ app'.liberal = app.liberal
      /\ app'.filter = app.filter \union {w}
      /\ \A v : InProgram(app', v) <=> v # w /\ InProgram(app, v)
      /\ app'.tracks <=> app'.windows # <<>>
      /\ \A i, j \in DOMAIN app'.windows : app'.windows[i] = app'.windows[j] => i = j
  <2>1. InProgram(app, w) /\ app' = RemoveFromProgram(app, w)
    BY <1>1
  <2> QED
    BY ONLY <1>2, <1>3, <2>1, w \in Windows, RemoveFact
<1>5. \A v \in Windows : (Live(app', v) <=> Live(app, v)) /\ (Shown(app', v) <=> Shown(app, v))
  BY <1>4 DEF Live, Shown
<1>6. ProgramTypeOK'
  BY <1>1, <1>4 DEF ProgramIInv, ProgramTypeOK
<1>7. TrackedOnce'
  BY <1>1, <1>4, <1>5 DEF ProgramIInv, TrackedOnce
<1>8. TopmostInStep'
  BY <1>1, <1>4, <1>5 DEF ProgramIInv, TopmostInStep
<1>9. HibernationKnown'
  BY <1>4, <1>5 DEF ProgramIInv, HibernationKnown
<1>10. ToolbarAtHome'
  BY <1>1, <1>4 DEF ToolbarAtHome
<1>11. ListedOnce'
  BY <1>4 DEF ListedOnce
<1>12. ActiveShown'
  BY <1>1, <1>5 DEF ProgramIInv, ActiveShown
<1>13. MadeOrNot'
  <2>1. app.killable \subseteq Windows
    BY <1>2 DEF Apps
  <2> QED
    BY <1>4, <1>5, <2>1 DEF ProgramIInv, MadeOrNot
<1>14. OneOnTop'
  BY <1>1, <1>4 DEF OneOnTop
<1> QED
  BY <1>6, <1>7, <1>8, <1>9, <1>10, <1>11, <1>12, <1>13, <1>14 DEF ProgramIInv

LEMMA DestroyWindowStep ==
  ASSUME ProgramIInv, NEW w \in Windows, DestroyWindow(w)
  PROVE  ProgramIInv'
<1>1. /\ active' = (IF active = w THEN Dead ELSE active) /\ notifies' = notifies
      /\ Live(app, w)
  BY DEF DestroyWindow, WithoutX
<1>2. app \in Apps
  BY DEF ProgramIInv, ProgramTypeOK
<1> DEFINE member == InProgram(app, w)
           p == IF app.parent # w THEN app
                ELSE [app EXCEPT !.parent = None, !.broken = @ \/ ~member]
           r == IF member THEN RemoveFromProgram(p, w) ELSE p
           st == [app.state EXCEPT ![w] = "gone"]
           fi == app.filter \ {w}
           ki == app.killable \ {w}
<1>3. app' = [r EXCEPT !.state[w] = "gone", !.filter = @ \ {w}, !.killable = @ \ {w}]
  BY DEF DestroyWindow
<1>4. /\ p \in Apps
      /\ p.state = app.state /\ p.topmost = app.topmost /\ p.killable = app.killable
      /\ p.onTop = app.onTop /\ p.canHibernate = app.canHibernate /\ p.toolbar = app.toolbar
      /\ p.liberal = app.liberal /\ p.filter = app.filter /\ p.windows = app.windows
      /\ p.tracks = app.tracks
      /\ p.parent = (IF app.parent = w THEN None ELSE app.parent)
      /\ app.parent # w => p.broken = app.broken
      /\ app.parent = w => (p.broken <=> app.broken \/ ~member)
  <2>1. CASE app.parent # w
    BY <1>2, <2>1
  <2>2. CASE app.parent = w
    <3>1. PICK br \in BOOLEAN : br <=> app.broken \/ ~member
      BY Zenon
    <3> DEFINE t == [app EXCEPT !.parent = None, !.broken = br]
    <3>2. br = (app.broken \/ ~member)
      BY <1>2, <3>1, Zenon DEF Apps
    <3>3. p = t
      BY <2>2, <3>2
    <3> HIDE DEF p, member
    <3>4. /\ t \in Apps
          /\ t.state = app.state /\ t.topmost = app.topmost /\ t.killable = app.killable
          /\ t.onTop = app.onTop /\ t.canHibernate = app.canHibernate /\ t.toolbar = app.toolbar
          /\ t.liberal = app.liberal /\ t.filter = app.filter /\ t.windows = app.windows
          /\ t.tracks = app.tracks /\ t.parent = None /\ t.broken = br
      BY <1>2 DEF Apps
    <3> HIDE DEF t
    <3>5. /\ p \in Apps
          /\ p.state = app.state /\ p.topmost = app.topmost /\ p.killable = app.killable
          /\ p.onTop = app.onTop /\ p.canHibernate = app.canHibernate /\ p.toolbar = app.toolbar
          /\ p.liberal = app.liberal /\ p.filter = app.filter /\ p.windows = app.windows
          /\ p.tracks = app.tracks /\ p.parent = None /\ p.broken = br
      BY ONLY <3>3, <3>4
    <3> QED
      BY <2>2, <3>1, <3>5
  <2> QED
    BY <2>1, <2>2
<1>5. \A v : InProgram(p, v) <=> InProgram(app, v)
  <2>1. p.windows = app.windows
    BY <1>4
  <2> HIDE DEF p
  <2> QED
    BY <2>1 DEF InProgram
<1>6. \A i, j \in DOMAIN p.windows : p.windows[i] = p.windows[j] => i = j
  <2>1. p.windows = app.windows
    BY <1>4
  <2> HIDE DEF p
  <2> QED
    BY <2>1 DEF ProgramIInv, ListedOnce
<1>7. app.tracks <=> app.windows # <<>>
  BY DEF ProgramIInv, TrackedOnce
<1> HIDE DEF p
<1>8. /\ r \in Apps
      /\ r.state = p.state /\ r.topmost = p.topmost /\ r.killable = p.killable
      /\ r.onTop = p.onTop /\ r.canHibernate = p.canHibernate /\ r.toolbar = p.toolbar
      /\ r.parent = p.parent /\ r.broken = p.broken /\ r.liberal = p.liberal
      /\ \A v \in Windows : v # w => (v \in r.filter <=> v \in p.filter)
      /\ \A v : InProgram(r, v) <=> v # w /\ InProgram(app, v)
      /\ r.tracks <=> r.windows # <<>>
      /\ \A i, j \in DOMAIN r.windows : r.windows[i] = r.windows[j] => i = j
  <2>1. CASE member
    <3>1. r = RemoveFromProgram(p, w) /\ InProgram(p, w)
      BY <1>5, <2>1
    <3>2. p \in Apps
      BY <1>4
    <3> HIDE DEF r, member
    <3>3. /\ r \in Apps
          /\ r.state = p.state /\ r.topmost = p.topmost /\ r.killable = p.killable
          /\ r.onTop = p.onTop /\ r.canHibernate = p.canHibernate /\ r.toolbar = p.toolbar
          /\ r.parent = p.parent /\ r.broken = p.broken /\ r.liberal = p.liberal
          /\ r.filter = p.filter \union {w}
          /\ \A v : InProgram(r, v) <=> v # w /\ InProgram(p, v)
          /\ r.tracks <=> r.windows # <<>>
          /\ \A i, j \in DOMAIN r.windows : r.windows[i] = r.windows[j] => i = j
      BY ONLY <1>6, <3>1, <3>2, w \in Windows, RemoveFact
    <3> QED
      BY <1>5, <3>3
  <2>2. CASE ~member
    <3>1. r = p
      BY <2>2
    <3>2. \A v : InProgram(p, v) <=> v # w /\ InProgram(app, v)
      BY <1>5, <2>2
    <3>3. p.tracks <=> p.windows # <<>>
      BY <1>4, <1>7
    <3>4. p \in Apps
      BY <1>4
    <3> HIDE DEF r, member
    <3> QED
      BY ONLY <1>6, <3>1, <3>2, <3>3, <3>4
  <2> QED
    BY <2>1, <2>2
<1> HIDE DEF r
<1>9. /\ app' \in Apps
      /\ app'.topmost = app.topmost
      /\ app'.onTop = app.onTop /\ app'.canHibernate = app.canHibernate /\ app'.toolbar = app.toolbar
      /\ app'.parent = p.parent /\ app'.broken = p.broken /\ app'.liberal = app.liberal
      /\ app'.windows = r.windows /\ app'.tracks = r.tracks
  <2> DEFINE s1 == [r.state EXCEPT ![w] = "gone"]
             f1 == r.filter \ {w}
             k1 == r.killable \ {w}
             t == [r EXCEPT !.state = s1, !.filter = f1, !.killable = k1]
  <2>1. r \in Apps /\ s1 \in [Windows -> WindowState] /\ f1 \in SUBSET Windows /\ k1 \in SUBSET Windows
    BY <1>8 DEF Apps, WindowState
  <2>2. app' = t
    BY <1>3, <2>1 DEF Apps
  <2> HIDE DEF s1, f1, k1
  <2>3. /\ t \in Apps
        /\ t.topmost = r.topmost
        /\ t.onTop = r.onTop /\ t.canHibernate = r.canHibernate /\ t.toolbar = r.toolbar
        /\ t.parent = r.parent /\ t.broken = r.broken /\ t.liberal = r.liberal
        /\ t.windows = r.windows /\ t.tracks = r.tracks
    BY <2>1 DEF Apps
  <2> HIDE DEF t
  <2> QED
    BY ONLY <1>4, <1>8, <2>2, <2>3
<1>10. /\ \A v \in Windows : app'.state[v] = IF v = w THEN "gone" ELSE app.state[v]
       /\ \A v \in Windows : v \in app'.filter <=> v # w /\ v \in app.filter
       /\ app'.killable = app.killable \ {w}
  <2>1. /\ app'.state = [r.state EXCEPT ![w] = "gone"] /\ app'.filter = r.filter \ {w}
        /\ app'.killable = r.killable \ {w}
    BY <1>3, <1>8 DEF Apps
  <2>2. r.state = app.state /\ r.killable = app.killable /\ p.filter = app.filter
    BY <1>4, <1>8
  <2>3. app.state \in [Windows -> WindowState]
    BY <1>2 DEF Apps
  <2> QED
    BY <1>8, <2>1, <2>2, <2>3
<1>11. \A v : InProgram(app', v) <=> v # w /\ InProgram(app, v)
  <2>1. app'.windows = r.windows
    BY <1>9
  <2>2. \A v : InProgram(app', v) <=> InProgram(r, v)
    BY <2>1 DEF InProgram
  <2> QED
    BY <1>8, <2>2
<1> HIDE DEF st, fi, ki, member
<1>12. /\ \A v \in Windows : Live(app', v) <=> v # w /\ Live(app, v)
       /\ \A v \in Windows : Shown(app', v) <=> v # w /\ Shown(app, v)
  BY <1>10 DEF Live, Shown
<1>13. app'.parent = IF app.parent = w THEN None ELSE app.parent
  BY <1>4, <1>9
<1>14. ProgramTypeOK'
  <2>1. active \in Windows \union {Dialog, Foreign, Dead, None} /\ notifies \in 0 .. MaxNotifies
    BY DEF ProgramIInv, ProgramTypeOK
  <2>2. active' \in Windows \union {Dialog, Foreign, Dead, None}
    BY <1>1, <2>1
  <2> QED
    BY <1>1, <1>9, <2>1, <2>2 DEF ProgramTypeOK
<1>15. TrackedOnce'
  <2>1. app'.tracks <=> app'.windows # <<>>
    BY <1>8, <1>9
  <2> QED
    BY <1>10, <1>11, <1>12, <2>1 DEF ProgramIInv, TrackedOnce
<1>16. TopmostInStep'
  BY <1>1, <1>9, <1>12 DEF ProgramIInv, TopmostInStep
<1>17. HibernationKnown'
  BY <1>9, <1>10, <1>11, <1>12 DEF ProgramIInv, HibernationKnown
<1>18. ToolbarAtHome'
  <2> SUFFICES ASSUME ~app.liberal
               PROVE  (app'.parent # None => InProgram(app', app'.parent)) /\ ~app'.broken
    BY <1>9 DEF ToolbarAtHome
  <2>1. (app.parent # None => InProgram(app, app.parent)) /\ ~app.broken
    BY DEF ProgramIInv, ToolbarAtHome
  <2>2. w # None
    BY ProgramAssumption
  <2>3. CASE app.parent = w
    <3>1. ~p.broken
      BY <1>4, <2>1, <2>2, <2>3 DEF member
    <3> QED
      BY <1>9, <1>13, <2>3, <3>1
  <2>4. CASE app.parent # w
    <3>1. ~p.broken
      BY <1>4, <2>1, <2>4
    <3> QED
      BY <1>9, <1>11, <1>13, <2>1, <2>4, <3>1
  <2> QED
    BY <2>3, <2>4
<1>19. ListedOnce'
  <2>1. app'.windows = r.windows
    BY <1>9
  <2> QED
    BY <1>8, <2>1 DEF ListedOnce
<1>20. ActiveShown'
  BY <1>1, <1>12, ProgramAssumption DEF ProgramIInv, ActiveShown
<1>21. MadeOrNot'
  <2>1. app.topmost \subseteq Windows /\ app.killable \subseteq Windows
    BY <1>2 DEF Apps
  <2> QED
    BY <1>9, <1>10, <1>12, <2>1, ProgramAssumption DEF ProgramIInv, MadeOrNot
<1>22. OneOnTop'
  <2> SUFFICES ASSUME ~app.liberal, NEW u \in Windows,
                      Shown(app', u) /\ InProgram(app', u) /\ u \in app'.topmost
               PROVE  /\ app'.onTop
                      /\ \A v \in app'.topmost : Live(app', v) => v = u
                      /\ app'.toolbar # None => app'.parent = u
    BY <1>9 DEF OneOnTop
  <2>1. u # w /\ Shown(app, u) /\ InProgram(app, u) /\ u \in app.topmost
    BY <1>9, <1>11, <1>12
  <2>2. /\ app.onTop
        /\ \A v \in app.topmost : Live(app, v) => v = u
        /\ app.toolbar # None => app.parent = u
    BY <2>1 DEF ProgramIInv, OneOnTop
  <2>3. app.topmost \subseteq Windows
    BY <1>2 DEF Apps
  <2>4. \A v \in app'.topmost : Live(app', v) => v = u
    BY <1>9, <1>12, <2>2, <2>3
  <2>5. app'.toolbar # None => app'.parent = u
    BY <1>9, <1>13, <2>1, <2>2
  <2> QED
    BY <1>9, <2>2, <2>4, <2>5
<1> QED
  BY <1>14, <1>15, <1>16, <1>17, <1>18, <1>19, <1>20, <1>21, <1>22 DEF ProgramIInv

LEMMA SetCommonToolbarStep ==
  ASSUME ProgramIInv, NEW t \in Toolbars, SetCommonToolbar(t)
  PROVE  ProgramIInv'
<1>1. active' = active /\ notifies' = notifies
  BY DEF SetCommonToolbar
<1>2. app \in Apps
  BY DEF ProgramIInv, ProgramTypeOK
<1> DEFINE p == [app EXCEPT !.toolbar = t, !.parent = None]
<1>3. app' = IF p.onTop THEN TakeToolbar(p, p.topmost) ELSE p
  BY DEF SetCommonToolbar
<1>4. /\ p \in Apps /\ p.toolbar = t /\ p.parent = None
      /\ p.state = app.state /\ p.filter = app.filter /\ p.killable = app.killable
      /\ p.windows = app.windows /\ p.tracks = app.tracks /\ p.canHibernate = app.canHibernate
      /\ p.broken = app.broken /\ p.liberal = app.liberal /\ p.onTop = app.onTop
      /\ p.topmost = app.topmost
  BY <1>2 DEF Apps
<1> HIDE DEF p
<1>5. /\ app' \in Apps /\ app'.toolbar = t
      /\ app'.state = p.state /\ app'.filter = p.filter /\ app'.killable = p.killable
      /\ app'.windows = p.windows /\ app'.tracks = p.tracks /\ app'.canHibernate = p.canHibernate
      /\ app'.broken = p.broken /\ app'.liberal = p.liberal /\ app'.onTop = p.onTop
      /\ app'.topmost = p.topmost
      /\ app'.parent = None \/ InProgram(app, app'.parent)
      /\ p.onTop /\ p.topmost \intersect ProgramWindows(p) # {}
           => app'.parent \in p.topmost \intersect ProgramWindows(p)
  <2>1. CASE ~p.onTop
    BY <1>3, <1>4, <2>1
  <2>2. CASE p.onTop
    <3> DEFINE q == TakeToolbar(p, p.topmost)
               at == q.parent
               top == p.topmost
               r == [p EXCEPT !.parent = at]
    <3>1. app' = q
      BY <1>3, <2>2
    <3>2. top \in SUBSET Windows
      BY <1>4 DEF Apps
    <3>3. /\ q \in Apps /\ q = r
          /\ top \intersect ProgramWindows(p) = {} => at = p.parent
          /\ at = p.parent \/ at \in ProgramWindows(p)
          /\ top \intersect ProgramWindows(p) # {} /\ p.toolbar # None => at \in top \intersect ProgramWindows(p)
      <4> HIDE DEF top
      <4>1. p \in Apps
        BY <1>4
      <4> QED
        BY <3>2, <4>1, TakeFact DEF top
    <3>4. p.toolbar # None
      BY <1>4, ProgramAssumption
    <3> HIDE DEF q, at
    <3>5. /\ r.toolbar = p.toolbar
          /\ r.state = p.state /\ r.filter = p.filter /\ r.killable = p.killable
          /\ r.windows = p.windows /\ r.tracks = p.tracks /\ r.canHibernate = p.canHibernate
          /\ r.broken = p.broken /\ r.liberal = p.liberal /\ r.onTop = p.onTop
          /\ r.topmost = top /\ r.parent = at
      BY <1>4 DEF Apps
    <3> HIDE DEF r
    <3>6. app' = r /\ r \in Apps
      BY ONLY <3>1, <3>3
    <3>7. /\ app' \in Apps /\ app'.toolbar = p.toolbar
          /\ app'.state = p.state /\ app'.filter = p.filter /\ app'.killable = p.killable
          /\ app'.windows = p.windows /\ app'.tracks = p.tracks /\ app'.canHibernate = p.canHibernate
          /\ app'.broken = p.broken /\ app'.liberal = p.liberal /\ app'.onTop = p.onTop
          /\ app'.topmost = top /\ app'.parent = at
      BY ONLY <3>5, <3>6
    <3>8. at \in ProgramWindows(p) => InProgram(app, at)
      <4>1. p.windows = app.windows
        BY <1>4
      <4> QED
        BY <4>1 DEF ProgramWindows, InProgram
    <3>9. app'.parent = None \/ InProgram(app, app'.parent)
      BY <1>4, <3>3, <3>7, <3>8
    <3>10. top \intersect ProgramWindows(p) # {} => app'.parent \in top \intersect ProgramWindows(p)
      BY <3>3, <3>4, <3>7
    <3> QED
      BY <1>4, <3>7, <3>9, <3>10
  <2> QED
    BY <2>1, <2>2
<1>6. /\ app'.state = app.state /\ app'.filter = app.filter /\ app'.killable = app.killable
      /\ app'.windows = app.windows /\ app'.tracks = app.tracks /\ app'.canHibernate = app.canHibernate
      /\ app'.broken = app.broken /\ app'.liberal = app.liberal /\ app'.onTop = app.onTop
      /\ app'.topmost = app.topmost
  BY <1>4, <1>5
<1>7. \A v \in Windows : /\ Live(app', v) <=> Live(app, v)
                         /\ Shown(app', v) <=> Shown(app, v)
  BY <1>6 DEF Live, Shown
<1>8. \A v : InProgram(app', v) <=> InProgram(app, v)
  BY <1>6 DEF InProgram
<1>9. ProgramTypeOK'
  BY <1>1, <1>5 DEF ProgramIInv, ProgramTypeOK
<1>10. TrackedOnce'
  BY <1>6, <1>7, <1>8 DEF ProgramIInv, TrackedOnce
<1>11. TopmostInStep'
  BY <1>1, <1>6, <1>7 DEF ProgramIInv, TopmostInStep
<1>12. HibernationKnown'
  BY <1>6, <1>7, <1>8 DEF ProgramIInv, HibernationKnown
<1>13. ToolbarAtHome'
  BY <1>5, <1>6, <1>8 DEF ProgramIInv, ToolbarAtHome
<1>14. ListedOnce'
  BY <1>6 DEF ProgramIInv, ListedOnce
<1>15. ActiveShown'
  BY <1>1, <1>7 DEF ProgramIInv, ActiveShown
<1>16. MadeOrNot'
  <2>1. app.killable \subseteq Windows
    BY <1>2 DEF Apps
  <2> QED
    BY <1>6, <1>7, <2>1 DEF ProgramIInv, MadeOrNot
<1>17. OneOnTop'
  <2> SUFFICES ASSUME ~app.liberal, NEW u \in Windows,
                      Shown(app', u) /\ InProgram(app', u) /\ u \in app'.topmost
               PROVE  /\ app'.onTop
                      /\ \A v \in app'.topmost : Live(app', v) => v = u
                      /\ app'.parent = u
    BY <1>6 DEF OneOnTop
  <2>1. Shown(app, u) /\ InProgram(app, u) /\ u \in app.topmost
    BY <1>6, <1>7, <1>8
  <2>2. app.onTop /\ \A v \in app.topmost : Live(app, v) => v = u
    BY <2>1 DEF ProgramIInv, OneOnTop
  <2>3. app.topmost \subseteq Windows
    BY <1>2 DEF Apps
  <2>4. \A v \in ProgramWindows(p) : v \in Windows /\ Live(app, v)
    <3>1. p.windows = app.windows
      BY <1>4
    <3>2. \A v \in ProgramWindows(p) : v \in Windows /\ InProgram(app, v)
      BY <3>1 DEF ProgramWindows, InProgram
    <3> QED
      BY <3>2 DEF ProgramIInv, TrackedOnce
  <2>5. u \in ProgramWindows(p)
    <3>1. p.windows = app.windows
      BY <1>4
    <3> QED
      BY <2>1, <3>1 DEF ProgramWindows, InProgram
  <2>6. p.onTop /\ p.topmost = app.topmost
    BY <1>4, <2>2
  <2>7. app'.parent \in app.topmost \intersect ProgramWindows(p)
    BY <1>5, <2>1, <2>5, <2>6
  <2>8. app'.parent = u
    BY <2>2, <2>4, <2>7
  <2> QED
    BY <1>6, <1>7, <2>2, <2>3, <2>8
<1> QED
  BY <1>9, <1>10, <1>11, <1>12, <1>13, <1>14, <1>15, <1>16, <1>17 DEF ProgramIInv

(* A window that gets its X window is not the active one. *)
LEMMA RealizeStep ==
  ASSUME ProgramIInv, NEW w \in Windows, Realize(w)
  PROVE  ProgramIInv'
<1>1. active' = active /\ notifies' = notifies /\ app.state[w] = "hidden"
  BY DEF Realize
<1>2. app \in Apps /\ app.state \in [Windows -> WindowState] /\ app.killable \subseteq Windows
  BY DEF ProgramIInv, ProgramTypeOK, Apps
<1> DEFINE st == [app.state EXCEPT ![w] = "shown"]
           ki == IF InProgram(app, w) /\ app.canHibernate THEN app.killable \union {w} ELSE app.killable
           r == [app EXCEPT !.state = st, !.killable = ki]
<1>3. app' = UpdateTopmost(r, {w})
  <2>1. r = [app EXCEPT !.state[w] = "shown",
                        !.killable = IF InProgram(app, w) /\ app.canHibernate
                                     THEN @ \union {w} ELSE @]
    BY <1>2 DEF Apps
  <2> QED
    BY <2>1 DEF Realize
<1>4. st \in [Windows -> WindowState] /\ ki \in SUBSET Windows
  BY <1>2 DEF WindowState
<1>5. /\ \A v \in Windows : st[v] = IF v = w THEN "shown" ELSE app.state[v]
      /\ \A v \in Windows : v \in ki <=> v \in app.killable \/ (v = w /\ InProgram(app, w) /\ app.canHibernate)
  BY <1>2
<1> HIDE DEF st, ki
<1>6. /\ r \in Apps /\ r.state = st /\ r.killable = ki
      /\ r.filter = app.filter /\ r.topmost = app.topmost /\ r.windows = app.windows
      /\ r.tracks = app.tracks /\ r.onTop = app.onTop /\ r.canHibernate = app.canHibernate
      /\ r.toolbar = app.toolbar /\ r.parent = app.parent /\ r.broken = app.broken
      /\ r.liberal = app.liberal
  BY <1>2, <1>4 DEF Apps
<1> HIDE DEF r
<1>7. ~IsActive(r, w)
  <2>1. Shown(r, w)
    BY <1>5, <1>6 DEF Shown
  <2>2. ~Shown(app, w)
    BY <1>1 DEF Shown
  <2>3. active # w
    BY <2>2 DEF ProgramIInv, ActiveShown
  <2> QED
    BY <2>1, <2>3 DEF IsActive
<1>8. /\ app' \in Apps /\ SameElsewhere(r, app') /\ app'.onTop = r.onTop
      /\ \A v \in Windows : v \in app'.topmost <=> IF v \in {w} THEN IsActive(r, v) ELSE v \in r.topmost
      /\ app'.parent = r.parent
  <2> DEFINE some == {w}
  <2>1. some \in SUBSET Windows /\ \A v \in some : v = w
    OBVIOUS
  <2>2. app' = UpdateTopmost(r, some) /\ r \in Apps
    BY <1>3, <1>6
  <2> HIDE DEF some
  <2>3. /\ app' \in Apps /\ SameElsewhere(r, app') /\ app'.onTop = r.onTop
        /\ \A v \in Windows : v \in app'.topmost <=> IF v \in some THEN IsActive(r, v) ELSE v \in r.topmost
        /\ (\A v \in some : InProgram(r, v) /\ IsActive(r, v) => v \in r.topmost)
             => app'.parent = r.parent
    BY ONLY <2>1, <2>2, UpdateFact
  <2>4. app'.parent = r.parent
    BY <1>7, <2>1, <2>3
  <2> QED
    BY <2>3, <2>4 DEF some
<1>9. /\ app'.state = st /\ app'.killable = ki
      /\ app'.filter = app.filter /\ app'.windows = app.windows
      /\ app'.tracks = app.tracks /\ app'.onTop = app.onTop /\ app'.canHibernate = app.canHibernate
      /\ app'.toolbar = app.toolbar /\ app'.parent = app.parent /\ app'.broken = app.broken
      /\ app'.liberal = app.liberal
  BY <1>6, <1>8 DEF SameElsewhere
<1>10. \A v \in Windows : v \in app'.topmost <=> v # w /\ v \in app.topmost
  BY <1>6, <1>7, <1>8
<1>11. /\ \A v \in Windows : Live(app', v) <=> Live(app, v)
       /\ \A v \in Windows : Shown(app', v) <=> v = w \/ Shown(app, v)
       /\ ~Shown(app, w)
  BY <1>1, <1>5, <1>9 DEF Live, Shown
<1>12. \A v : InProgram(app', v) <=> InProgram(app, v)
  BY <1>9 DEF InProgram
<1>13. ProgramTypeOK'
  BY <1>1, <1>8 DEF ProgramIInv, ProgramTypeOK
<1>14. TrackedOnce'
  BY <1>9, <1>11, <1>12 DEF ProgramIInv, TrackedOnce
<1>15. TopmostInStep'
  <2>1. active # w
    BY <1>11 DEF ProgramIInv, ActiveShown
  <2> QED
    BY <1>1, <1>10, <1>11, <2>1 DEF ProgramIInv, TopmostInStep
<1>16. HibernationKnown'
  <2>1. w \notin app.killable
    BY <1>11 DEF ProgramIInv, MadeOrNot
  <2> QED
    BY <1>5, <1>9, <1>11, <1>12, <2>1 DEF ProgramIInv, HibernationKnown
<1>17. ToolbarAtHome'
  BY <1>9, <1>12 DEF ProgramIInv, ToolbarAtHome
<1>18. ListedOnce'
  BY <1>9 DEF ProgramIInv, ListedOnce
<1>19. ActiveShown'
  BY <1>1, <1>11 DEF ProgramIInv, ActiveShown
<1>20. MadeOrNot'
  <2>1. \A v \in app'.topmost : app'.state[v] # None
    <3>1. app'.topmost \subseteq Windows
      BY <1>8 DEF Apps
    <3>2. \A v \in app'.topmost : v # w /\ v \in app.topmost /\ v \in Windows
      BY <1>10, <3>1
    <3> QED
      BY <1>5, <1>9, <3>2 DEF ProgramIInv, MadeOrNot
  <2>2. \A v \in app'.killable : Shown(app', v)
    BY <1>2, <1>4, <1>5, <1>9, <1>11 DEF ProgramIInv, MadeOrNot
  <2> QED
    BY <2>1, <2>2 DEF MadeOrNot
<1>21. OneOnTop'
  <2>1. app'.topmost \subseteq Windows
    BY <1>8 DEF Apps
  <2> QED
    BY <1>9, <1>10, <1>11, <1>12, <2>1 DEF ProgramIInv, OneOnTop
<1> QED
  BY <1>13, <1>14, <1>15, <1>16, <1>17, <1>18, <1>19, <1>20, <1>21 DEF ProgramIInv

(* A window that is added keeps what it knows of itself. *)
LEMMA AddWindowStep ==
  ASSUME ProgramIInv, NEW w \in Windows, AddWindowToProgram(w)
  PROVE  ProgramIInv'
<1>1. /\ active' = active /\ notifies' = notifies
      /\ Live(app, w) /\ ~InProgram(app, w)
      /\ app.liberal \/ app.state[w] = "hidden"
  BY DEF AddWindowToProgram
<1>2. app \in Apps
  BY DEF ProgramIInv, ProgramTypeOK
<1> DEFINE p == IF app.windows = <<>> THEN [UpdateProgram(app) EXCEPT !.tracks = TRUE] ELSE app
           more == Append(p.windows, w)
           fi == p.filter \ {w}
           ki == IF ~Shown(p, w) THEN p.killable
                 ELSE IF p.canHibernate THEN p.killable \union {w} ELSE p.killable \ {w}
           r == [p EXCEPT !.windows = more, !.filter = fi, !.killable = ki]
<1>3. /\ p \in Apps
      /\ p.state = app.state /\ p.filter = app.filter /\ p.killable = app.killable
      /\ p.windows = app.windows /\ p.canHibernate = app.canHibernate /\ p.toolbar = app.toolbar
      /\ p.broken = app.broken /\ p.liberal = app.liberal
      /\ p.parent = app.parent /\ p.topmost = app.topmost /\ p.tracks
      /\ app.windows # <<>> => p.onTop = app.onTop
  <2>1. CASE app.windows = <<>>
    <3> DEFINE q == UpdateProgram(app)
               t == [q EXCEPT !.tracks = TRUE]
    <3>1. p = t
      BY <2>1
    <3>2. \A v : ~InProgram(app, v)
      BY <2>1 DEF InProgram
    <3> HIDE DEF p
    <3>3. /\ q \in Apps /\ SameElsewhere(app, q)
          /\ \A v \in Windows : v \in q.topmost
              <=> IF InProgram(app, v) /\ active # Dead THEN IsActive(app, v) ELSE v \in app.topmost
          /\ (\A v \in Windows : InProgram(app, v) /\ IsActive(app, v) => v \in app.topmost)
               => q.parent = app.parent
      BY <1>2, UpdateProgramFact
    <3> HIDE DEF q
    <3>4. q.topmost = app.topmost
      <4>1. q.topmost \subseteq Windows /\ app.topmost \subseteq Windows
        BY <1>2, <3>3 DEF Apps
      <4> QED
        BY <3>2, <3>3, <4>1
    <3>5. q.parent = app.parent
      BY <3>2, <3>3
    <3>6. /\ t \in Apps
          /\ t.state = q.state /\ t.filter = q.filter /\ t.killable = q.killable
          /\ t.windows = q.windows /\ t.canHibernate = q.canHibernate /\ t.toolbar = q.toolbar
          /\ t.broken = q.broken /\ t.liberal = q.liberal
          /\ t.parent = q.parent /\ t.topmost = q.topmost /\ t.tracks
      BY <3>3 DEF Apps
    <3> HIDE DEF t
    <3>7. /\ q.state = app.state /\ q.filter = app.filter /\ q.killable = app.killable
          /\ q.windows = app.windows /\ q.canHibernate = app.canHibernate /\ q.toolbar = app.toolbar
          /\ q.broken = app.broken /\ q.liberal = app.liberal
      BY <3>3 DEF SameElsewhere
    <3>8. /\ t \in Apps
          /\ t.state = app.state /\ t.filter = app.filter /\ t.killable = app.killable
          /\ t.windows = app.windows /\ t.canHibernate = app.canHibernate /\ t.toolbar = app.toolbar
          /\ t.broken = app.broken /\ t.liberal = app.liberal
          /\ t.parent = app.parent /\ t.topmost = app.topmost /\ t.tracks
      BY ONLY <3>4, <3>5, <3>6, <3>7
    <3> QED
      BY ONLY <2>1, <3>1, <3>8
  <2>2. CASE app.windows # <<>>
    <3>1. p = app
      BY <2>2
    <3>2. app.tracks
      BY <2>2 DEF ProgramIInv, TrackedOnce
    <3> HIDE DEF p
    <3> QED
      BY ONLY <1>2, <3>1, <3>2
  <2> QED
    BY <2>1, <2>2
<1>4. app' = r
  <2>1. app' = [p EXCEPT !.windows = Append(@, w),
                         !.filter = @ \ {w},
                         !.killable = IF ~Shown(p, w) THEN @
                                      ELSE IF p.canHibernate THEN @ \union {w} ELSE @ \ {w}]
    BY DEF AddWindowToProgram
  <2>2. p \in Apps
    BY <1>3
  <2> HIDE DEF p
  <2> QED
    BY <2>1, <2>2 DEF Apps
<1> HIDE DEF p
<1>5. more \in Seq(Windows) /\ fi \in SUBSET Windows /\ ki \in SUBSET Windows
  <2>1. p.windows \in Seq(Windows) /\ p.filter \in SUBSET Windows /\ p.killable \in SUBSET Windows
    BY <1>3 DEF Apps
  <2> QED
    BY <2>1
<1>6. /\ more # <<>> /\ DOMAIN more = 1 .. Len(app.windows) + 1
      /\ \A k \in 1 .. Len(app.windows) : more[k] = app.windows[k]
      /\ more[Len(app.windows) + 1] = w
      /\ Len(app.windows) \in Nat /\ DOMAIN app.windows = 1 .. Len(app.windows)
  <2>1. app.windows \in Seq(Windows) /\ more = Append(app.windows, w)
    BY <1>2, <1>3 DEF Apps
  <2> DEFINE ws == app.windows
  <2>2. ws \in Seq(Windows)
    BY <2>1
  <2> HIDE DEF ws
  <2> DEFINE longer == Append(ws, w)
  <2>3. /\ longer # <<>> /\ DOMAIN longer = 1 .. Len(ws) + 1
        /\ \A k \in 1 .. Len(ws) : longer[k] = ws[k]
        /\ longer[Len(ws) + 1] = w
        /\ Len(ws) \in Nat /\ DOMAIN ws = 1 .. Len(ws)
    BY <2>2
  <2>4. more = longer
    BY <2>1 DEF ws
  <2> HIDE DEF more, longer
  <2> QED
    BY ONLY <2>3, <2>4 DEF ws
<1>7. \A v \in Windows : v \in ki <=> IF v = w /\ Shown(app, w) THEN app.canHibernate ELSE v \in app.killable
  BY <1>3 DEF Shown
<1>8. fi = app.filter \ {w}
  BY <1>3
<1> HIDE DEF more, fi, ki
<1>9. /\ r \in Apps /\ r.windows = more /\ r.filter = fi /\ r.killable = ki
      /\ r.state = p.state /\ r.canHibernate = p.canHibernate /\ r.toolbar = p.toolbar
      /\ r.broken = p.broken /\ r.liberal = p.liberal /\ r.parent = p.parent
      /\ r.topmost = p.topmost /\ (r.tracks <=> p.tracks) /\ r.onTop = p.onTop
  BY <1>3, <1>5 DEF Apps
<1> HIDE DEF r
<1>10. /\ app' \in Apps /\ app'.windows = more /\ app'.filter = fi /\ app'.killable = ki
       /\ app'.state = app.state /\ app'.canHibernate = app.canHibernate
       /\ app'.toolbar = app.toolbar /\ app'.broken = app.broken /\ app'.liberal = app.liberal
       /\ app'.parent = app.parent /\ app'.topmost = app.topmost /\ app'.tracks
       /\ app.windows # <<>> => app'.onTop = app.onTop
  BY ONLY <1>3, <1>4, <1>9
<1>11. \A v : InProgram(app', v) <=> v = w \/ InProgram(app, v)
  <2> DEFINE n == Len(app.windows)
  <2>1. \A v : InProgram(app', v) <=> \E k \in 1 .. n + 1 : more[k] = v
    BY <1>6, <1>10 DEF InProgram
  <2>2. \A v : InProgram(app, v) <=> \E k \in 1 .. n : app.windows[k] = v
    BY <1>6 DEF InProgram
  <2>3. n \in Nat /\ (\A k \in 1 .. n : more[k] = app.windows[k]) /\ more[n + 1] = w
    BY <1>6
  <2> HIDE DEF n
  <2>4. \A k \in 1 .. n + 1 : k = n + 1 \/ k \in 1 .. n
    BY <2>3
  <2>5. n + 1 \in 1 .. n + 1 /\ \A k \in 1 .. n : k \in 1 .. n + 1
    BY <2>3
  <2> QED
    BY <2>1, <2>2, <2>3, <2>4, <2>5, Zenon
<1>12. \A v \in Windows : /\ Live(app', v) <=> Live(app, v)
                          /\ Shown(app', v) <=> Shown(app, v)
  BY <1>10 DEF Live, Shown
<1>13. ProgramTypeOK'
  BY <1>1, <1>10 DEF ProgramIInv, ProgramTypeOK
<1>14. TrackedOnce'
  <2>1. app'.windows # <<>>
    BY <1>6, <1>10
  <2> QED
    BY <1>1, <1>8, <1>10, <1>11, <1>12, <2>1 DEF ProgramIInv, TrackedOnce
<1>15. TopmostInStep'
  BY <1>1, <1>10, <1>12 DEF ProgramIInv, TopmostInStep
<1>16. HibernationKnown'
  BY <1>7, <1>10, <1>11, <1>12 DEF ProgramIInv, HibernationKnown
<1>17. ToolbarAtHome'
  BY <1>10, <1>11 DEF ProgramIInv, ToolbarAtHome
<1>18. ListedOnce'
  <2> DEFINE n == Len(app.windows)
  <2>1. /\ n \in Nat /\ DOMAIN app'.windows = 1 .. n + 1
        /\ \A k \in 1 .. n : app'.windows[k] = app.windows[k] /\ app.windows[k] # w
        /\ app'.windows[n + 1] = w
    BY <1>1, <1>6, <1>10 DEF InProgram
  <2>2. \A i, j \in 1 .. n : app.windows[i] = app.windows[j] => i = j
    BY <1>6 DEF ProgramIInv, ListedOnce
  <2> HIDE DEF n
  <2>3. \A k \in 1 .. n + 1 : k = n + 1 \/ k \in 1 .. n
    BY <2>1
  <2> QED
    BY <2>1, <2>2, <2>3 DEF ListedOnce
<1>19. ActiveShown'
  BY <1>1, <1>12 DEF ProgramIInv, ActiveShown
<1>20. MadeOrNot'
  <2>1. \A v \in app'.topmost : app'.state[v] # None
    BY <1>10 DEF ProgramIInv, MadeOrNot
  <2>2. \A v \in app'.killable : Shown(app', v)
    BY <1>5, <1>7, <1>10, <1>12 DEF ProgramIInv, MadeOrNot
  <2> QED
    BY <2>1, <2>2 DEF MadeOrNot
<1>21. OneOnTop'
  <2> SUFFICES ASSUME ~app.liberal, NEW u \in Windows,
                      Shown(app', u) /\ InProgram(app', u) /\ u \in app'.topmost
               PROVE  /\ app'.onTop
                      /\ \A v \in app'.topmost : Live(app', v) => v = u
                      /\ app'.toolbar # None => app'.parent = u
    BY <1>10 DEF OneOnTop
  <2>1. ~Shown(app, w)
    BY <1>1 DEF Shown
  <2>2. Shown(app, u) /\ InProgram(app, u) /\ u \in app.topmost
    BY <1>10, <1>11, <1>12, <2>1
  <2>3. app.windows # <<>>
    BY <2>2 DEF InProgram
  <2>4. app.topmost \subseteq Windows
    BY <1>2 DEF Apps
  <2>5. /\ app.onTop
        /\ \A v \in app.topmost : Live(app, v) => v = u
        /\ app.toolbar # None => app.parent = u
    BY <2>2 DEF ProgramIInv, OneOnTop
  <2> QED
    BY <1>10, <1>12, <2>3, <2>4, <2>5
<1> QED
  BY <1>13, <1>14, <1>15, <1>16, <1>17, <1>18, <1>19, <1>20, <1>21 DEF ProgramIInv

(* An event: the program tells its windows, the others find out themselves. *)
LEMMA HandleNotifyStep ==
  ASSUME ProgramIInv, HandleNotify
  PROVE  ProgramIInv'
<1> DEFINE p == IF app.tracks THEN UpdateProgram(app) ELSE app
<1>1. active' = active /\ notifies > 0 /\ notifies' = notifies - 1
  BY DEF HandleNotify
<1>2. app \in Apps /\ app.filter \in SUBSET Windows
  BY DEF ProgramIInv, ProgramTypeOK, Apps
<1>3. app' = UpdateTopmost(p, app.filter)
  BY DEF HandleNotify
<1>4. \A v \in app.filter : ~InProgram(app, v)
  BY <1>2 DEF ProgramIInv, TrackedOnce
<1>5. ~app.tracks => \A v : ~InProgram(app, v)
  BY DEF ProgramIInv, TrackedOnce, InProgram
<1>6. /\ p \in Apps /\ SameElsewhere(app, p)
      /\ app.tracks => p.onTop = IF active \in {Dead, None} THEN app.onTop ELSE active # Foreign
      /\ \A w \in Windows : w \in p.topmost
           <=> IF InProgram(app, w) /\ active # Dead THEN IsActive(app, w) ELSE w \in app.topmost
      /\ p.parent = app.parent \/ InProgram(app, p.parent)
      /\ active = Dead => p.parent = app.parent
      /\ (\A w \in Windows : InProgram(app, w) /\ IsActive(app, w) => w \in app.topmost)
           => p.parent = app.parent
      /\ /\ \E w \in Windows : InProgram(app, w) /\ IsActive(app, w) /\ w \notin app.topmost
         /\ app.toolbar # None /\ active # Dead
         => InProgram(app, p.parent) /\ IsActive(app, p.parent)
  <2>1. CASE app.tracks
    <3>1. p = UpdateProgram(app)
      BY <2>1
    <3> HIDE DEF p
    <3> QED
      BY <1>2, <3>1, UpdateProgramFact DEF ProgramWindows
  <2>2. CASE ~app.tracks
    <3>1. p = app
      BY <2>2
    <3> HIDE DEF p
    <3> QED
      BY <1>2, <1>5, <2>2, <3>1 DEF SameElsewhere
  <2> QED
    BY <2>1, <2>2
<1> HIDE DEF p
<1>7. \A v : /\ InProgram(p, v) <=> InProgram(app, v)
             /\ IsActive(p, v) <=> IsActive(app, v)
  BY <1>6 DEF SameElsewhere, InProgram, IsActive, Shown
<1>8. /\ app' \in Apps /\ SameElsewhere(p, app') /\ app'.onTop = p.onTop
      /\ \A w \in Windows : w \in app'.topmost <=> IF w \in app.filter THEN IsActive(app, w) ELSE w \in p.topmost
      /\ app'.parent = p.parent
  <2> DEFINE some == app.filter
  <2>1. app' = UpdateTopmost(p, some) /\ p \in Apps /\ some \in SUBSET Windows
    BY <1>2, <1>3, <1>6
  <2> HIDE DEF some
  <2>2. /\ app' \in Apps /\ SameElsewhere(p, app') /\ app'.onTop = p.onTop
        /\ \A w \in Windows : w \in app'.topmost <=> IF w \in some THEN IsActive(p, w) ELSE w \in p.topmost
        /\ (\A w \in some : InProgram(p, w) /\ IsActive(p, w) => w \in p.topmost)
             => app'.parent = p.parent
    BY ONLY <2>1, UpdateFact
  <2>3. app'.parent = p.parent
    BY <1>4, <1>7, <2>2 DEF some
  <2> QED
    BY <1>7, <2>2, <2>3 DEF some
<1>9. /\ app'.state = app.state /\ app'.filter = app.filter /\ app'.killable = app.killable
      /\ app'.windows = app.windows /\ app'.tracks = app.tracks
      /\ app'.canHibernate = app.canHibernate /\ app'.toolbar = app.toolbar
      /\ app'.broken = app.broken /\ app'.liberal = app.liberal
  BY <1>6, <1>8 DEF SameElsewhere
<1>10. \A v \in Windows : /\ Live(app', v) <=> Live(app, v)
                          /\ Shown(app', v) <=> Shown(app, v)
  BY <1>9 DEF Live, Shown
<1>11. \A v : InProgram(app', v) <=> InProgram(app, v)
  BY <1>9 DEF InProgram
<1>12. \A v \in Windows : Live(app, v) => (v \in app.filter <=> ~InProgram(app, v))
  BY DEF ProgramIInv, TrackedOnce
<1>13. \A v \in Windows : (v \in app.filter \/ InProgram(app, v)) => Live(app, v)
  BY DEF ProgramIInv, TrackedOnce
<1>14. ASSUME NEW v \in Windows, Live(app, v), active # Dead
       PROVE  v \in app'.topmost <=> IsActive(app, v)
  BY <1>6, <1>8, <1>12, <1>14
<1>15. \A v \in Windows : Shown(app, v) => Live(app, v) /\ (IsActive(app, v) <=> active = v)
  BY DEF Shown, Live, IsActive
<1>16. \A v \in Windows : ~Shown(app, v) => (IsActive(app, v) <=> active = None)
  BY DEF IsActive
<1>17. ProgramTypeOK'
  <2>1. notifies \in Nat /\ notifies <= MaxNotifies /\ active \in Windows \union {Dialog, Foreign, Dead, None}
    BY ProgramAssumption DEF ProgramIInv, ProgramTypeOK
  <2>2. notifies - 1 \in 0 .. MaxNotifies
    BY <1>1, <2>1, ProgramAssumption
  <2> QED
    BY <1>1, <1>8, <2>1, <2>2 DEF ProgramTypeOK
<1>18. TrackedOnce'
  BY <1>9, <1>10, <1>11 DEF ProgramIInv, TrackedOnce
<1>19. TopmostInStep'
  BY <1>1, <1>10, <1>14, <1>15 DEF TopmostInStep
<1>20. HibernationKnown'
  BY <1>9, <1>10, <1>11 DEF ProgramIInv, HibernationKnown
<1>21. ToolbarAtHome'
  <2>1. app'.parent = app.parent \/ InProgram(app, app'.parent)
    BY <1>6, <1>8
  <2> QED
    BY <1>9, <1>11, <2>1 DEF ProgramIInv, ToolbarAtHome
<1>22. ListedOnce'
  BY <1>9 DEF ProgramIInv, ListedOnce
<1>23. ActiveShown'
  BY <1>1, <1>10 DEF ProgramIInv, ActiveShown
<1>24. MadeOrNot'
  <2>1. app'.topmost \subseteq Windows /\ app.killable \subseteq Windows
    BY <1>2, <1>8 DEF Apps
  <2>2. \A v \in Windows : Live(app, v) => app.state[v] # None
    BY ProgramAssumption DEF Live
  <2>3. \A v \in app'.topmost : app.state[v] # None
    <3> SUFFICES ASSUME NEW v \in app'.topmost PROVE app.state[v] # None
      OBVIOUS
    <3>1. v \in Windows
      BY <2>1
    <3>2. CASE v \in app.filter \/ InProgram(app, v)
      BY <1>13, <2>2, <3>1, <3>2
    <3>3. CASE ~ (v \in app.filter \/ InProgram(app, v))
      <4>1. v \in app.topmost
        BY <1>6, <1>8, <3>1, <3>3
      <4> QED
        BY <4>1 DEF ProgramIInv, MadeOrNot
    <3> QED
      BY <3>2, <3>3
  <2>4. \A v \in app'.killable : Shown(app', v)
    BY <1>9, <1>10, <2>1 DEF ProgramIInv, MadeOrNot
  <2> QED
    BY <1>9, <2>3, <2>4 DEF MadeOrNot
<1>25. OneOnTop'
  <2> SUFFICES ASSUME ~app.liberal, NEW u \in Windows,
                      Shown(app, u) /\ InProgram(app, u) /\ u \in app'.topmost
               PROVE  /\ app'.onTop
                      /\ \A v \in app'.topmost : Live(app, v) => v = u
                      /\ app.toolbar # None => app'.parent = u
    <3>1. app'.topmost \subseteq Windows
      BY <1>8 DEF Apps
    <3> QED
      BY <1>9, <1>10, <1>11, <3>1 DEF OneOnTop
  <2>1. app.tracks
    BY <1>5
  <2>2. u \in p.topmost
    BY <1>4, <1>8
  <2>3. u # None /\ u # Dead /\ u # Foreign /\ Dead # None
    BY ProgramAssumption
  <2>4. app'.topmost \subseteq Windows
    BY <1>8 DEF Apps
  <2>5. u \in app.topmost => /\ app.onTop
                             /\ \A v \in app.topmost : Live(app, v) => v = u
                             /\ app.toolbar # None => app.parent = u
    BY DEF ProgramIInv, OneOnTop
  <2>6. CASE active = Dead
    <3>1. u \in app.topmost
      BY <1>6, <2>2, <2>6
    <3>2. app'.onTop
      BY <1>6, <1>8, <2>1, <2>5, <2>6, <3>1
    <3>3. app'.parent = app.parent
      BY <1>6, <1>8, <2>6
    <3>4. ASSUME NEW v \in app'.topmost, Live(app, v) PROVE v = u
      <4>1. v \in Windows /\ v # Dead
        BY <2>4, ProgramAssumption
      <4>2. v \notin app.filter
        BY <1>8, <1>15, <1>16, <2>3, <2>6, <4>1
      <4>3. v \in app.topmost
        BY <1>6, <1>8, <2>6, <4>1, <4>2
      <4> QED
        BY <2>5, <3>1, <3>4, <4>3
    <3> QED
      BY <2>5, <3>1, <3>2, <3>3, <3>4
  <2>7. CASE active # Dead
    <3>1. active = u
      BY <1>14, <1>15, <2>7
    <3>2. app'.onTop
      BY <1>6, <1>8, <2>1, <2>3, <3>1
    <3>3. \A v \in Windows : IsActive(app, v) => v = u
      BY <1>15, <1>16, <2>3, <3>1
    <3>4. \A v \in app'.topmost : Live(app, v) => v = u
      BY <1>14, <2>4, <2>7, <3>3
    <3>5. ASSUME app.toolbar # None PROVE app'.parent = u
      <4>1. CASE u \in app.topmost
        <5>1. p.parent = app.parent
          BY <1>6, <3>3, <4>1
        <5> QED
          BY <1>8, <2>5, <3>5, <4>1, <5>1
      <4>2. CASE u \notin app.topmost
        <5>1. IsActive(app, u)
          BY <1>15, <3>1
        <5>2. InProgram(app, p.parent) /\ IsActive(app, p.parent)
          BY <1>6, <2>7, <3>5, <4>2, <5>1
        <5>3. p.parent \in Windows
          BY <1>2, <5>2 DEF InProgram, Apps
        <5> QED
          BY <1>8, <3>3, <5>2, <5>3
      <4> QED
        BY <4>1, <4>2
    <3> QED
      BY <3>2, <3>4, <3>5
  <2> QED
    BY <2>6, <2>7
<1> QED
  BY <1>17, <1>18, <1>19, <1>20, <1>21, <1>22, <1>23, <1>24, <1>25 DEF ProgramIInv

(* Windows and program agree in every application of any number of windows and *)
(* toolbars, however late the events come: hildon_program_add_window,          *)
(* hildon_window_update_topmost and hildon_program_set_common_toolbar.         *)
THEOREM ProgramSafe == ProgramSpec => []ProgramInv
<1>1. ProgramInit => ProgramIInv
  BY ProgramIInvInit
<1>2. ProgramIInv /\ [ProgramNext]_programVars => ProgramIInv'
  <2> SUFFICES ASSUME ProgramIInv, [ProgramNext]_programVars PROVE ProgramIInv'
    OBVIOUS
  <2>1. ASSUME NEW v \in Windows \union {Dialog, Foreign, None}, SetActive(v) PROVE ProgramIInv'
    BY <2>1, SetActiveStep
  <2>2. CASE DialogDies
    BY <2>2, DialogDiesStep
  <2>3. CASE HandleNotify
    BY <2>3, HandleNotifyStep
  <2>4. ASSUME NEW w \in Windows, NewWindow(w) PROVE ProgramIInv'
    BY <2>4, NewWindowStep
  <2>5. ASSUME NEW w \in Windows, Realize(w) PROVE ProgramIInv'
    BY <2>5, RealizeStep
  <2>6. ASSUME NEW w \in Windows, Unrealize(w) PROVE ProgramIInv'
    BY <2>6, UnrealizeStep
  <2>7. ASSUME NEW w \in Windows, DestroyWindow(w) PROVE ProgramIInv'
    BY <2>7, DestroyWindowStep
  <2>8. ASSUME NEW w \in Windows, AddWindowToProgram(w) PROVE ProgramIInv'
    BY <2>8, AddWindowStep
  <2>9. ASSUME NEW w \in Windows, RemoveWindow(w) PROVE ProgramIInv'
    BY <2>9, RemoveWindowStep
  <2>10. ASSUME NEW can \in BOOLEAN, SetCanHibernate(can) PROVE ProgramIInv'
    BY <2>10, SetCanHibernateStep
  <2>11. ASSUME NEW t \in Toolbars, SetCommonToolbar(t) PROVE ProgramIInv'
    BY <2>11, SetCommonToolbarStep
  <2>12. CASE UNCHANGED programVars
    BY <2>12 DEF programVars, ProgramIInv, ProgramTypeOK, TrackedOnce, TopmostInStep,
                 HibernationKnown, ToolbarAtHome, ListedOnce, ActiveShown, MadeOrNot, OneOnTop
  <2> QED
    BY <2>1, <2>2, <2>3, <2>4, <2>5, <2>6, <2>7, <2>8, <2>9, <2>10, <2>11, <2>12 DEF ProgramNext
<1>3. ProgramIInv => ProgramInv
  BY ProgramIInvImpliesInv
<1> QED
  BY <1>1, <1>2, <1>3, PTL DEF ProgramSpec

-----------------------------------------------------------------------------
(* The bread crumb trail.  The path has each crumb once, and the layout is    *)
(* that of its end until something asks for a new one.                        *)
Trails ==
  [items : Seq(Crumbs), hidden : SUBSET Crumbs, width : 0 .. MaxWidth,
   focus : Crumbs \union {None}, back : BOOLEAN, queued : BOOLEAN, crashed : BOOLEAN]

PathOK(x) ==
  /\ x \in Trails
  /\ \A j, k \in DOMAIN x.items : j # k => x.items[j] # x.items[k]
  /\ x.hidden \subseteq Elements(x.items)
  /\ x.focus \in Elements(x.items) \union {None}
  /\ x.back <=> Len(x.items) > 1

TipShown(x) ==
  \E k \in 0 .. Len(x.items) :
    /\ Elements(x.items) \ x.hidden = Elements(SubSeq(x.items, 1, k))
    /\ k > 0 => NaturalOf(SubSeq(x.items, 1, k - 1)) + 1 < x.width
    /\ k < Len(x.items) => x.width <= NaturalOf(SubSeq(x.items, 1, k)) + 1

TrailIInv == PathOK(trail) /\ (~trail.queued /\ trail.width > 1 => TipShown(trail))

LEMMA TrailIInvImpliesInv == TrailIInv => TrailInv
<1> SUFFICES ASSUME TrailIInv PROVE TrailInv
  OBVIOUS
<1>1. TrailTypeOK
  BY DEF TrailIInv, PathOK, Trails, TrailTypeOK
<1>2. BackHasTarget
  BY DEF TrailIInv, PathOK, BackHasTarget
<1>3. EndOfPathShown
  BY DEF TrailIInv, TipShown, EndOfPathShown
<1> QED
  BY <1>1, <1>2, <1>3 DEF TrailInv

LEMMA HeadFact ==
  ASSUME NEW S, NEW s \in Seq(S), s # <<>>
  PROVE  Len(s) \in Nat \ {0} /\ Head(s) \in Elements(s) /\ Head(s) \in S /\ Head(s) = s[1]
<1>1. Len(s) \in Nat \ {0} /\ DOMAIN s = 1 .. Len(s) /\ Head(s) = s[1]
  OBVIOUS
<1>2. 1 \in DOMAIN s /\ s[1] \in S
  BY <1>1
<1> QED
  BY <1>1, <1>2 DEF Elements

LEMMA TipsFact ==
  ASSUME NEW x, PathOK(x), NEW n \in 1 .. Len(x.items)
  PROVE  LET y == RemoveTips(x, n)
         IN /\ PathOK(y) /\ y.queued /\ y.crashed = x.crashed
            /\ y.items = SubSeq(x.items, n + 1, Len(x.items))
            /\ y.items \in Seq(Crumbs) /\ Len(y.items) = Len(x.items) - n
            /\ \A k \in 1 .. Len(x.items) - n : y.items[k] = x.items[k + n]
<1> DEFINE s == x.items
           gone == Elements(SubSeq(s, 1, n))
           rest == SubSeq(s, n + 1, Len(s))
           y == RemoveTips(x, n)
<1>1. x \in Trails /\ s \in Seq(Crumbs) /\ Len(s) \in Nat /\ DOMAIN s = 1 .. Len(s)
  BY DEF PathOK, Trails
<1>2. rest \in Seq(Crumbs) /\ Len(rest) = Len(s) - n /\ DOMAIN rest = 1 .. Len(s) - n
  BY <1>1
<1>3. \A k \in 1 .. Len(s) - n : rest[k] = s[k + n]
  BY <1>1
<1>4. Elements(s) \ gone \subseteq Elements(rest)
  <2> SUFFICES ASSUME NEW c \in Elements(s) \ gone PROVE c \in Elements(rest)
    OBVIOUS
  <2>1. PICK k \in 1 .. Len(s) : c = s[k]
    BY <1>1 DEF Elements
  <2>2. \A j \in 1 .. n : s[j] \in gone
    <3>1. TAKE j \in 1 .. n
    <3>2. SubSeq(s, 1, n)[j] = s[j] /\ j \in DOMAIN SubSeq(s, 1, n)
      BY <1>1, <3>1
    <3> QED
      BY <3>2 DEF Elements
  <2>3. k - n \in 1 .. Len(s) - n
    BY <1>1, <2>1, <2>2
  <2>4. rest[k - n] = c
    BY <1>1, <1>3, <2>1, <2>3
  <2> QED
    BY <1>2, <2>3, <2>4 DEF Elements
<1>5. /\ y.items = rest /\ y.hidden = x.hidden \ gone /\ y.width = x.width
      /\ y.focus = IF x.focus \in gone THEN None ELSE x.focus
      /\ y.queued = TRUE /\ y.back = (Len(s) > n + 1) /\ y.crashed = x.crashed
  BY <1>1 DEF RemoveTips, Trails
<1>6. y \in Trails
  <2>1. x.hidden \ gone \in SUBSET Crumbs /\ (IF x.focus \in gone THEN None ELSE x.focus) \in Crumbs \union {None}
    BY <1>1 DEF Trails
  <2>2. (Len(s) > n + 1) \in BOOLEAN
    OBVIOUS
  <2> QED
    BY <1>1, <1>2, <2>1, <2>2 DEF RemoveTips, Trails
<1>7. \A j, k \in DOMAIN rest : j # k => rest[j] # rest[k]
  <2> SUFFICES ASSUME NEW j \in 1 .. Len(s) - n, NEW k \in 1 .. Len(s) - n, j # k
               PROVE  rest[j] # rest[k]
    BY <1>2
  <2>1. j + n \in 1 .. Len(s) /\ k + n \in 1 .. Len(s) /\ j + n # k + n
    BY <1>1
  <2>2. s[j + n] # s[k + n]
    BY <1>1, <2>1 DEF PathOK
  <2> QED
    BY <1>3, <2>2
<1>8. x.hidden \ gone \subseteq Elements(rest)
  BY <1>4 DEF PathOK
<1>9. (IF x.focus \in gone THEN None ELSE x.focus) \in Elements(rest) \union {None}
  BY <1>4 DEF PathOK
<1>10. Len(s) > n + 1 <=> Len(rest) > 1
  BY <1>1, <1>2
<1>11. PathOK(y)
  BY <1>5, <1>6, <1>7, <1>8, <1>9, <1>10 DEF PathOK
<1> QED
  BY <1>2, <1>3, <1>5, <1>11

LEMMA ReturnFact ==
  ASSUME NEW x, PathOK(x), NEW c
  PROVE  LET y == ReturnTo(x, c)
         IN /\ PathOK(y) /\ (y.queued \/ y = x) /\ y.crashed = x.crashed
            /\ c \notin Elements(x.items) => y.items = <<>>
            /\ c \in Elements(x.items)
                 => y.items = SubSeq(x.items, PlaceOf(x.items, c), Len(x.items))
<1> DEFINE s == x.items
           n == IF c \in Elements(s) THEN PlaceOf(s, c) - 1 ELSE Len(s)
           z == RemoveTips(x, n)
           y == ReturnTo(x, c)
<1>1. x \in Trails /\ s \in Seq(Crumbs) /\ Len(s) \in Nat /\ DOMAIN s = 1 .. Len(s)
  BY DEF PathOK, Trails
<1>2. c \in Elements(s) => PlaceOf(s, c) \in 1 .. Len(s)
  BY <1>1 DEF Elements, PlaceOf
<1>3. n \in 0 .. Len(s)
  BY <1>1, <1>2
<1>4. CASE n = 0
  <2>1. y = x
    BY <1>4 DEF ReturnTo
  <2>2. c \notin Elements(s) => s = <<>>
    BY <1>1, <1>4
  <2>3. c \in Elements(s) => s = SubSeq(s, PlaceOf(s, c), Len(s))
    BY <1>1, <1>2, <1>4
  <2> QED
    BY <2>1, <2>2, <2>3
<1>5. CASE n # 0
  <2> HIDE DEF n
  <2>1. n \in 1 .. Len(s)
    BY <1>1, <1>3, <1>5
  <2>2. /\ PathOK(z) /\ z.queued /\ z.crashed = x.crashed /\ z.items = SubSeq(s, n + 1, Len(s))
        /\ z.items \in Seq(Crumbs) /\ Len(z.items) = Len(s) - n
    BY <2>1, TipsFact
  <2> HIDE DEF z
  <2>3. z.items # <<>> => Head(z.items) \in Elements(z.items) /\ Head(z.items) \in Crumbs
    BY <2>2, HeadFact
  <2>4. \/ y = z
        \/ z.items # <<>> /\ y = [z EXCEPT !.focus = Head(z.items)]
    <3> USE DEF n, z
    <3> QED
      BY <1>5 DEF ReturnTo
  <2> HIDE DEF y
  <2>5. PathOK(y) /\ y.queued /\ y.items = z.items /\ y.crashed = x.crashed
    <3>1. CASE y = z
      BY <2>2, <3>1
    <3>2. CASE z.items # <<>> /\ y = [z EXCEPT !.focus = Head(z.items)]
      <4>1. z \in Trails
        BY <2>2 DEF PathOK
      <4>2. /\ y \in Trails /\ y.items = z.items /\ y.hidden = z.hidden /\ y.back = z.back
            /\ y.queued = z.queued /\ y.focus = Head(z.items) /\ y.crashed = z.crashed
        BY <2>3, <3>2, <4>1 DEF Trails
      <4>3. y.focus \in Elements(y.items) \union {None}
        BY <2>3, <3>2, <4>2
      <4>4. y.back <=> Len(y.items) > 1
        BY <2>2, <4>2 DEF PathOK
      <4>5. y.hidden \subseteq Elements(y.items)
        BY <2>2, <4>2 DEF PathOK
      <4>6. \A j, k \in DOMAIN y.items : j # k => y.items[j] # y.items[k]
        BY <2>2, <4>2 DEF PathOK
      <4> QED
        BY <2>2, <4>2, <4>3, <4>4, <4>5, <4>6 DEF PathOK
    <3> QED
      BY <2>4, <3>1, <3>2
  <2>6. c \notin Elements(s) => z.items = <<>>
    <3> USE DEF n
    <3> QED
      BY <1>1, <2>2
  <2>7. c \in Elements(s) => z.items = SubSeq(s, PlaceOf(s, c), Len(s))
    <3>1. ASSUME c \in Elements(s) PROVE n + 1 = PlaceOf(s, c)
      BY <1>1, <1>2, <3>1 DEF n
    <3> QED
      BY <2>2, <3>1
  <2>8. y.items = z.items /\ PathOK(y) /\ y.queued /\ y.crashed = x.crashed
    BY <2>5
  <2> QED
    BY <2>6, <2>7, <2>8 DEF y
<1> QED
  BY <1>4, <1>5

(* The pixels of a path, counted from the tip. *)
LEMMA PixelsFact ==
  ASSUME NEW s \in Seq(Crumbs), NEW k \in 0 .. Len(s)
  PROVE  /\ NaturalOf(SubSeq(s, 1, k)) \in Nat
         /\ k = 0 => NaturalOf(SubSeq(s, 1, k)) = 0
         /\ k > 0 => /\ NaturalOf(SubSeq(s, 1, k)) =
                          NaturalOf(SubSeq(s, 1, k - 1)) + Natural[s[k]]
                     /\ NaturalOf(SubSeq(s, 1, k - 1)) < NaturalOf(SubSeq(s, 1, k))
<1> DEFINE Pixels(j) == UNION {{i} \X (1 .. Natural[s[i]]) : i \in 1 .. j}
<1>1. ASSUME NEW j \in 0 .. Len(s) PROVE NaturalOf(SubSeq(s, 1, j)) = Cardinality(Pixels(j))
  <2>1. /\ SubSeq(s, 1, j) \in Seq(Crumbs) /\ DOMAIN SubSeq(s, 1, j) = 1 .. j
        /\ \A i \in 1 .. j : SubSeq(s, 1, j)[i] = s[i]
    OBVIOUS
  <2>2. {{i} \X (1 .. Natural[SubSeq(s, 1, j)[i]]) : i \in DOMAIN SubSeq(s, 1, j)} =
        {{i} \X (1 .. Natural[s[i]]) : i \in 1 .. j}
    BY <2>1
  <2> QED
    BY <2>2 DEF NaturalOf
<1>2. \A i \in 1 .. Len(s) : Natural[s[i]] \in Nat \ {0, 1}
  BY TrailAssumption
<1>3. \A i \in 1 .. Len(s) : /\ IsFiniteSet({i} \X (1 .. Natural[s[i]]))
                             /\ Cardinality({i} \X (1 .. Natural[s[i]])) = Natural[s[i]]
  <2>1. TAKE i \in 1 .. Len(s)
  <2>2. IsFiniteSet({i}) /\ Cardinality({i}) = 1
    BY FS_Singleton
  <2>3. IsFiniteSet(1 .. Natural[s[i]]) /\ Cardinality(1 .. Natural[s[i]]) = Natural[s[i]]
    <3>1. Natural[s[i]] \in Nat /\ Natural[s[i]] > 1
      BY <1>2, <2>1
    <3> DEFINE m == Natural[s[i]]
    <3> HIDE DEF m
    <3>2. 1 \in Int /\ m \in Int
      BY <3>1 DEF m
    <3>3. IsFiniteSet(1 .. m) /\ Cardinality(1 .. m) = IF 1 > m THEN 0 ELSE m - 1 + 1
      BY ONLY <3>2, FS_Interval
    <3>4. m \in Nat /\ m > 1
      BY <3>1 DEF m
    <3>5. IsFiniteSet(1 .. m) /\ Cardinality(1 .. m) = m
      BY <3>3, <3>4
    <3> QED
      BY <3>5 DEF m
  <2>4. /\ IsFiniteSet({i} \X (1 .. Natural[s[i]]))
        /\ Cardinality({i} \X (1 .. Natural[s[i]])) = 1 * Natural[s[i]]
    BY <2>2, <2>3, FS_Product
  <2> QED
    BY <1>2, <2>4
<1>4. ASSUME NEW j \in 0 .. Len(s) PROVE IsFiniteSet(Pixels(j))
  <2>1. IsFiniteSet(1 .. j)
    BY FS_Interval
  <2>2. IsFiniteSet({{i} \X (1 .. Natural[s[i]]) : i \in 1 .. j})
    <3> DEFINE T == {{i} \X (1 .. Natural[s[i]]) : i \in 1 .. j}
               f == [i \in 1 .. j |-> {i} \X (1 .. Natural[s[i]])]
    <3>1. f \in Surjection(1 .. j, T)
      BY DEF Surjection
    <3> HIDE DEF f, T
    <3>2. IsFiniteSet(T)
      BY <2>1, <3>1, FS_Surjection
    <3> QED
      BY <3>2 DEF T
  <2>3. \A T \in {{i} \X (1 .. Natural[s[i]]) : i \in 1 .. j} : IsFiniteSet(T)
    <3>1. TAKE T \in {{i} \X (1 .. Natural[s[i]]) : i \in 1 .. j}
    <3>2. PICK i \in 1 .. j : T = {i} \X (1 .. Natural[s[i]])
      OBVIOUS
    <3>3. i \in 1 .. Len(s)
      OBVIOUS
    <3> QED
      BY <1>3, <3>2, <3>3
  <2> QED
    BY <2>2, <2>3, FS_UNION
<1>5. \A j \in 0 .. Len(s) : Cardinality(Pixels(j)) \in Nat
  BY <1>4, FS_CardinalityType
<1>6. ASSUME k = 0 PROVE Cardinality(Pixels(k)) = 0
  <2>1. Pixels(k) = {}
    BY <1>6
  <2> QED
    BY <2>1, FS_EmptySet
<1>7. ASSUME k > 0 PROVE Cardinality(Pixels(k)) = Cardinality(Pixels(k - 1)) + Natural[s[k]]
  <2> DEFINE B == {k} \X (1 .. Natural[s[k]])
  <2>1. k - 1 \in 0 .. Len(s) /\ k \in 1 .. Len(s) /\ 1 .. k = (1 .. k - 1) \union {k}
    BY <1>7
  <2>2. Pixels(k) = Pixels(k - 1) \union B
    BY <2>1
  <2>3. Pixels(k - 1) \intersect B = {}
    <3>1. SUFFICES ASSUME NEW p \in Pixels(k - 1), p \in B PROVE FALSE
      OBVIOUS
    <3>2. PICK i \in 1 .. k - 1 : p \in {i} \X (1 .. Natural[s[i]])
      OBVIOUS
    <3>3. p[1] = i /\ p[1] = k
      BY <3>1, <3>2
    <3> QED
      BY <2>1, <3>2, <3>3
  <2>4. IsFiniteSet(Pixels(k - 1)) /\ IsFiniteSet(B) /\ Cardinality(B) = Natural[s[k]]
    BY <1>3, <1>4, <2>1
  <2> HIDE DEF Pixels, B
  <2> QED
    <3>1. Cardinality(Pixels(k)) =
            Cardinality(Pixels(k - 1)) + Cardinality(B) - Cardinality({})
      BY <2>2, <2>3, <2>4, FS_Union
    <3>2. Cardinality({}) = 0
      BY FS_EmptySet
    <3> QED
      BY <1>2, <1>5, <2>1, <2>4, <3>1, <3>2
<1> HIDE DEF Pixels
<1>8. k > 0 => k - 1 \in 0 .. Len(s) /\ k \in 1 .. Len(s)
  OBVIOUS
<1> QED
  BY <1>1, <1>2, <1>5, <1>6, <1>7, <1>8

LEMMA FitFact ==
  ASSUME NEW s \in Seq(Crumbs), NEW w \in Nat
  PROVE  \E k \in 0 .. Len(s) :
           /\ NaturalOf(SubSeq(s, 1, k)) <= w
           /\ k < Len(s) => NaturalOf(SubSeq(s, 1, k + 1)) > w
<1> DEFINE P(k) == NaturalOf(SubSeq(s, 1, k))
           T == {k \in 0 .. Len(s) : P(k) > w}
<1>1. Len(s) \in Nat
  OBVIOUS
<1>2. \A k \in 0 .. Len(s) : P(k) \in Nat /\ (k = 0 => P(k) = 0)
  BY PixelsFact
<1> HIDE DEF P
<1>3. CASE T = {}
  <2>1. Len(s) \in 0 .. Len(s) /\ ~(P(Len(s)) > w) /\ P(Len(s)) \in Nat
    BY <1>1, <1>2, <1>3
  <2>2. P(Len(s)) <= w
    BY <2>1
  <2> QED
    BY <2>1, <2>2 DEF P
<1>4. CASE T # {}
  <2>1. \E m \in T : \A k \in 0 .. m - 1 : k \notin T
    <3> DEFINE R == {ss \in Nat \X Nat : ss[1] < ss[2]}
    <3>1. IsWellFoundedOn(R, Nat)
      BY NatLessThanWellFounded DEF OpToRel
    <3>2. T \subseteq Nat
      BY <1>1
    <3> HIDE DEF R, T
    <3>3. PICK m \in T : \A k \in T : ~ (<<k, m>> \in R)
      BY <1>4, <3>1, <3>2, WFMin
    <3>4. \A k \in 0 .. m - 1 : <<k, m>> \in R
      BY <3>2 DEF R
    <3> QED
      BY <3>3, <3>4
  <2>2. PICK m \in T : \A k \in 0 .. m - 1 : k \notin T
    BY <2>1
  <2>3. m \in 0 .. Len(s) /\ P(m) > w /\ m # 0
    BY <1>1, <1>2
  <2>4. m - 1 \in 0 .. Len(s) /\ m - 1 \in 0 .. m - 1 /\ m - 1 < Len(s) /\ (m - 1) + 1 = m
    BY <1>1, <2>3
  <2>5. P(m - 1) <= w
    BY <1>2, <2>2, <2>4
  <2> QED
    BY <2>3, <2>4, <2>5 DEF P
<1> QED
  BY <1>3, <1>4

LEMMA PrefixFact ==
  ASSUME NEW s \in Seq(Crumbs), NEW k \in 0 .. Len(s)
  PROVE  Elements(SubSeq(s, 1, k)) = {s[j] : j \in 1 .. k} /\ Elements(SubSeq(s, 1, k)) \subseteq Elements(s)
<1>1. Len(s) \in Nat /\ DOMAIN s = 1 .. Len(s) /\ DOMAIN SubSeq(s, 1, k) = 1 .. k
  OBVIOUS
<1>2. \A j \in 1 .. k : SubSeq(s, 1, k)[j] = s[j] /\ j \in DOMAIN s
  OBVIOUS
<1> QED
  BY <1>1, <1>2 DEF Elements

LEMMA LayoutFact ==
  ASSUME NEW x, PathOK(x)
  PROVE  LET y == [x EXCEPT !.hidden = HiddenCrumbs(x), !.queued = FALSE]
         IN PathOK(y) /\ (y.width > 1 => TipShown(y))
<1> DEFINE s == x.items
           P(k) == NaturalOf(SubSeq(s, 1, k))
           Fits(k) == P(k) <= x.width /\ (k < Len(s) => P(k + 1) > x.width)
           fit == CHOOSE k \in 0 .. Len(s) : Fits(k)
           part == IF fit < Len(s) /\ x.width > P(fit) + 1 THEN fit + 1 ELSE fit
           h == HiddenCrumbs(x)
           y == [x EXCEPT !.hidden = h, !.queued = FALSE]
<1>1. /\ x \in Trails /\ s \in Seq(Crumbs) /\ Len(s) \in Nat /\ DOMAIN s = 1 .. Len(s)
      /\ x.width \in Nat /\ Elements(s) \subseteq Crumbs
  BY TrailAssumption DEF PathOK, Trails, Elements
<1>2. h = IF part = 0 THEN x.hidden ELSE Elements(s) \ Elements(SubSeq(s, 1, part))
  BY DEF HiddenCrumbs
<1>3. \E k \in 0 .. Len(s) : Fits(k)
  BY <1>1, FitFact
<1>4. fit \in 0 .. Len(s) /\ Fits(fit)
  BY <1>3
<1>5. \A k \in 0 .. Len(s) : P(k) \in Nat /\ (k = 0 => P(k) = 0) /\ (k > 0 => P(k - 1) + 1 < P(k))
  <2> SUFFICES ASSUME NEW k \in 0 .. Len(s)
               PROVE  P(k) \in Nat /\ (k = 0 => P(k) = 0) /\ (k > 0 => P(k - 1) + 1 < P(k))
    OBVIOUS
  <2>1. /\ P(k) \in Nat /\ (k = 0 => P(k) = 0)
        /\ k > 0 => P(k) = P(k - 1) + Natural[s[k]]
    BY <1>1, PixelsFact
  <2>2. k > 0 => k - 1 \in 0 .. Len(s) /\ s[k] \in Crumbs
    BY <1>1
  <2>3. k > 0 => P(k - 1) \in Nat /\ Natural[s[k]] \in Nat \ {0, 1}
    BY <1>1, <2>2, PixelsFact, TrailAssumption
  <2> HIDE DEF P
  <2> QED
    BY <2>1, <2>3
<1> HIDE DEF P, fit
<1>6. part \in 0 .. Len(s)
  BY <1>1, <1>4
<1>7. part > 0 => P(part - 1) + 1 < x.width
  <2>1. CASE part = fit
    BY <1>1, <1>4, <1>5, <2>1
  <2>2. CASE part # fit
    <3>1. part = fit + 1 /\ part - 1 = fit /\ x.width > P(fit) + 1
      BY <1>4, <2>2
    <3> HIDE DEF part
    <3> QED
      BY <1>1, <1>4, <1>5, <3>1
  <2> QED
    BY <2>1, <2>2
<1>14. part < Len(s) => x.width <= P(part) + 1
  <2>1. P(fit) \in Nat
    BY <1>4, <1>5
  <2>2. CASE part = fit
    BY <1>1, <1>4, <2>1, <2>2
  <2>3. CASE part # fit
    <3>1. part = fit + 1 /\ fit < Len(s)
      BY <1>4, <2>3
    <3>2. P(fit + 1) \in Nat /\ P(fit + 1) > x.width
      BY <1>1, <1>4, <1>5, <3>1
    <3> HIDE DEF part
    <3> QED
      BY <1>1, <3>1, <3>2
  <2> QED
    BY <2>2, <2>3
<1>8. x.width > 1 /\ part = 0 => s = <<>>
  BY <1>1, <1>4, <1>5
<1> HIDE DEF part, h
<1>9. h \subseteq Elements(s)
  BY <1>2 DEF PathOK
<1>10. y \in Trails /\ y.items = s /\ y.hidden = h /\ y.width = x.width /\ y.focus = x.focus /\ y.back = x.back
  BY <1>1, <1>9 DEF Trails
<1> HIDE DEF y
<1>11. PathOK(y)
  <2>1. y.back <=> Len(y.items) > 1
    BY <1>10 DEF PathOK
  <2>2. y.focus \in Elements(y.items) \union {None}
    BY <1>10 DEF PathOK
  <2>3. \A j, k \in DOMAIN y.items : j # k => y.items[j] # y.items[k]
    BY <1>10 DEF PathOK
  <2> QED
    BY <1>9, <1>10, <2>1, <2>2, <2>3 DEF PathOK
<1>12. ASSUME x.width > 1 PROVE TipShown(y)
  <2>1. part \in 0 .. Len(s)
    BY <1>6
  <2>2. Elements(s) \ h = Elements(SubSeq(s, 1, part))
    <3>1. CASE part = 0
      <4>1. Elements(s) = {}
        BY <1>1, <1>8, <1>12, <3>1 DEF Elements
      <4>2. DOMAIN SubSeq(s, 1, part) = {}
        BY <1>1, <3>1
      <4> QED
        BY <4>1, <4>2 DEF Elements
    <3>2. CASE part # 0
      BY <1>1, <1>2, <1>6, <3>2, PrefixFact
    <3> QED
      BY <3>1, <3>2
  <2>3. part > 0 => NaturalOf(SubSeq(s, 1, part - 1)) + 1 < x.width
    BY <1>7 DEF P
  <2>4. part < Len(s) => x.width <= NaturalOf(SubSeq(s, 1, part)) + 1
    BY <1>14 DEF P
  <2> QED
    BY <1>10, <2>1, <2>2, <2>3, <2>4 DEF TipShown
<1>13. PathOK(y) /\ (y.width > 1 => TipShown(y))
  BY <1>10, <1>11, <1>12
<1> QED
  BY <1>13 DEF y, h

LEMMA TrailInitFact == TrailInit => TrailIInv
<1> SUFFICES ASSUME TrailInit PROVE TrailIInv
  OBVIOUS
<1>1. /\ trail.items = <<>> /\ trail.hidden = {} /\ trail.width = MaxWidth /\ trail.focus = None
      /\ trail.back = FALSE
  BY DEF TrailInit
<1>2. trail \in Trails
  BY TrailAssumption DEF TrailInit, Trails
<1>3. Elements(<<>>) = {} /\ DOMAIN <<>> = {} /\ Len(<<>>) = 0
  BY DEF Elements
<1>4. PathOK(trail)
  BY <1>1, <1>2, <1>3 DEF PathOK
<1>5. TipShown(trail)
  <2>1. Elements(SubSeq(<<>>, 1, 0)) = {}
    BY DEF Elements
  <2> QED
    <3>1. 0 \in 0 .. Len(trail.items) /\ ~(0 < Len(trail.items))
      BY <1>1
    <3>2. Elements(trail.items) \ trail.hidden = Elements(SubSeq(trail.items, 1, 0))
      BY <1>1, <1>3, <2>1
    <3>3. ~(0 > 0)
      OBVIOUS
    <3> QED
      BY <1>1, <3>1, <3>2, <3>3 DEF TipShown
<1> QED
  BY <1>4, <1>5 DEF TrailIInv

LEMMA PushFact ==
  ASSUME NEW x, PathOK(x), NEW c \in Crumbs, c \notin Elements(x.items)
  PROVE  PathOK(PushCrumb(x, c)) /\ PushCrumb(x, c).queued
<1> DEFINE s == x.items
           t == <<c>> \o s
           y == PushCrumb(x, c)
<1>1. x \in Trails /\ s \in Seq(Crumbs) /\ Len(s) \in Nat /\ DOMAIN s = 1 .. Len(s)
  BY DEF PathOK, Trails
<1>2. /\ t \in Seq(Crumbs) /\ Len(t) = Len(s) + 1 /\ DOMAIN t = 1 .. Len(s) + 1 /\ t[1] = c
      /\ \A k \in 2 .. Len(s) + 1 : t[k] = s[k - 1]
  BY <1>1
<1>3. Elements(s) \subseteq Elements(t)
  <2> SUFFICES ASSUME NEW k \in 1 .. Len(s) PROVE s[k] \in Elements(t)
    BY <1>1 DEF Elements
  <2>1. k + 1 \in DOMAIN t /\ t[k + 1] = s[k]
    BY <1>1, <1>2
  <2> QED
    BY <2>1 DEF Elements
<1>4. \A j, k \in DOMAIN t : j # k => t[j] # t[k]
  <2>1. \A k \in 1 .. Len(s) : s[k] # c
    BY <1>1 DEF Elements
  <2> SUFFICES ASSUME NEW j \in 1 .. Len(s) + 1, NEW k \in 1 .. Len(s) + 1, j < k
               PROVE  t[j] # t[k]
    BY <1>1, <1>2
  <2>2. k - 1 \in 1 .. Len(s) /\ t[k] = s[k - 1]
    BY <1>1, <1>2
  <2>3. CASE j = 1
    BY <1>2, <2>1, <2>2, <2>3
  <2>4. CASE j # 1
    <3>1. j - 1 \in 1 .. Len(s) /\ t[j] = s[j - 1] /\ j - 1 # k - 1
      BY <1>1, <1>2, <2>4
    <3>2. s[j - 1] # s[k - 1]
      BY <1>1, <2>2, <3>1 DEF PathOK
    <3> QED
      BY <2>2, <3>1, <3>2
  <2> QED
    BY <2>3, <2>4
<1> HIDE DEF t
<1>5. y = [x EXCEPT !.items = t, !.back = Len(s) > 0, !.queued = TRUE]
  BY <1>1 DEF PushCrumb, t, Trails
<1>6. (Len(s) > 0) \in BOOLEAN
  OBVIOUS
<1> HIDE DEF y
<1>7. /\ y \in Trails /\ y.items = t /\ y.hidden = x.hidden /\ y.focus = x.focus
      /\ y.back = (Len(s) > 0) /\ y.queued = TRUE
  BY <1>1, <1>2, <1>5, <1>6 DEF Trails
<1>8. y.hidden \subseteq Elements(t) /\ y.focus \in Elements(t) \union {None}
  BY <1>3, <1>7 DEF PathOK
<1>9. Len(s) > 0 <=> Len(t) > 1
  BY <1>1, <1>2
<1>10. PathOK(y)
  BY <1>4, <1>7, <1>8, <1>9 DEF PathOK
<1> QED
  BY <1>7, <1>10 DEF y

LEMMA TailFact ==
  ASSUME NEW S, NEW s \in Seq(S), NEW t \in Seq(S), NEW n \in 0 .. Len(s), NEW q \in 1 .. Len(t),
         Len(t) = Len(s) - n, \A k \in 1 .. Len(s) - n : t[k] = s[k + n]
  PROVE  SubSeq(t, q, Len(t)) = SubSeq(s, q + n, Len(s))
<1> DEFINE a == SubSeq(t, q, Len(t))
           b == SubSeq(s, q + n, Len(s))
           m == Len(t) - q + 1
<1>1. /\ a \in Seq(S) /\ Len(a) = m /\ b \in Seq(S) /\ Len(b) = m
  OBVIOUS
<1>2. \A k \in 1 .. m : a[k] = t[q + k - 1] /\ b[k] = s[q + n + k - 1]
  OBVIOUS
<1>3. \A k \in 1 .. m : q + k - 1 \in 1 .. Len(s) - n /\ (q + k - 1) + n = q + n + k - 1
  OBVIOUS
<1>4. \A k \in 1 .. m : a[k] = b[k]
  BY <1>2, <1>3
<1> HIDE DEF a, b
<1> QED
  BY <1>1, <1>4, SeqEqual DEF a, b

(* What is left when the application has removed n crumbs. *)
LEMMA TakenFact ==
  ASSUME PathOK(trail), NEW n \in 0 .. Len(trail.items)
  PROVE  LET y == TakenFirst(n)
         IN /\ PathOK(y) /\ (y.queued \/ y = trail) /\ y.crashed = trail.crashed
            /\ y.items \in Seq(Crumbs) /\ Len(y.items) = Len(trail.items) - n
            /\ \A k \in 1 .. Len(trail.items) - n : y.items[k] = trail.items[k + n]
<1>1. trail.items \in Seq(Crumbs) /\ Len(trail.items) \in Nat
  BY DEF PathOK, Trails
<1>2. CASE n = 0
  <2>1. TakenFirst(n) = trail
    BY <1>2 DEF TakenFirst
  <2>2. \A k \in 1 .. Len(trail.items) - n : k + n = k
    BY <1>2
  <2> QED
    BY <1>1, <1>2, <2>1, <2>2
<1>3. CASE n # 0
  <2>1. TakenFirst(n) = RemoveTips(trail, n) /\ n \in 1 .. Len(trail.items)
    BY <1>1, <1>3 DEF TakenFirst
  <2> QED
    BY <2>1, TipsFact
<1> QED
  BY <1>2, <1>3

LEMMA ActivateFact ==
  ASSUME TrailIInv, NEW k \in DOMAIN trail.items, NEW n \in 0 .. Len(trail.items),
         ActivateCrumb(trail.items[k], n)
  PROVE  /\ TrailIInv'
         /\ trail'.items = IF n < k THEN SubSeq(trail.items, k, Len(trail.items)) ELSE <<>>
         /\ trail'.crashed = IF n = Len(trail.items) THEN TRUE ELSE trail.crashed
<1> DEFINE s == trail.items
           c == s[k]
           y == TakenFirst(n)
           t == y.items
<1>1. trail \in Trails /\ s \in Seq(Crumbs) /\ Len(s) \in Nat /\ DOMAIN s = 1 .. Len(s)
  BY DEF TrailIInv, PathOK, Trails
<1>2. /\ PathOK(y) /\ (y.queued \/ y = trail) /\ y.crashed = trail.crashed
      /\ t \in Seq(Crumbs) /\ Len(t) = Len(s) - n
      /\ \A i \in 1 .. Len(s) - n : t[i] = s[i + n]
  BY TakenFact DEF TrailIInv
<1>3. y.queued \/ (y.width > 1 => TipShown(y))
  BY <1>2 DEF TrailIInv
<1> HIDE DEF y
<1>4. CASE n = Len(s)
  <2>1. trail' = [y EXCEPT !.crashed = TRUE]
    BY <1>4 DEF ActivateCrumb, y
  <2>2. y \in Trails
    BY <1>2 DEF PathOK
  <2>3. /\ trail' \in Trails /\ trail'.items = t /\ trail'.hidden = y.hidden /\ trail'.width = y.width
        /\ trail'.focus = y.focus /\ trail'.back = y.back /\ trail'.queued = y.queued
        /\ trail'.crashed = TRUE
    BY <2>1, <2>2 DEF Trails
  <2>4. PathOK(trail')
    <3>1. trail'.back <=> Len(trail'.items) > 1
      BY <1>2, <2>3 DEF PathOK
    <3> QED
      BY <1>2, <2>3, <3>1 DEF PathOK
  <2>5. TipShown(y) => TipShown(trail')
    BY <2>3 DEF TipShown
  <2>6. TrailIInv'
    BY <1>3, <2>3, <2>4, <2>5 DEF TrailIInv, PathOK, TipShown
  <2>7. t = <<>> /\ ~(n < k)
    BY <1>1, <1>2, <1>4
  <2> QED
    BY <1>4, <2>3, <2>6, <2>7
<1>5. CASE n # Len(s)
  <2>1. trail' = ReturnTo(y, c)
    BY <1>5 DEF ActivateCrumb, y
  <2>2. /\ PathOK(trail') /\ (trail'.queued \/ trail' = y) /\ trail'.crashed = trail.crashed
        /\ c \notin Elements(t) => trail'.items = <<>>
        /\ c \in Elements(t) => trail'.items = SubSeq(t, PlaceOf(t, c), Len(t))
    BY <1>2, <2>1, ReturnFact
  <2>3. TrailIInv'
    BY <1>3, <2>2 DEF TrailIInv, PathOK, TipShown
  <2>4. \A i, j \in 1 .. Len(s) : i # j => s[i] # s[j]
    BY <1>1 DEF TrailIInv, PathOK
  <2>5. DOMAIN t = 1 .. Len(s) - n
    BY <1>1, <1>2
  <2>6. CASE n < k
    <3>1. k - n \in 1 .. Len(s) - n /\ (k - n) + n = k /\ t[k - n] = c
      BY <1>1, <1>2, <2>6
    <3>2. \A i \in 1 .. Len(s) - n : t[i] = c => i = k - n
      <4>1. SUFFICES ASSUME NEW i \in 1 .. Len(s) - n, t[i] = c PROVE i = k - n
        OBVIOUS
      <4>2. i + n \in 1 .. Len(s) /\ s[i + n] = s[k]
        BY <1>1, <1>2, <4>1
      <4>3. i + n = k
        BY <1>1, <2>4, <4>2
      <4> QED
        BY <1>1, <4>3
    <3>3. c \in Elements(t) /\ PlaceOf(t, c) = k - n
      BY <2>5, <3>1, <3>2 DEF Elements, PlaceOf
    <3>4. SubSeq(t, k - n, Len(t)) = SubSeq(s, (k - n) + n, Len(s))
      <4> DEFINE q == k - n
      <4>1. /\ s \in Seq(Crumbs) /\ t \in Seq(Crumbs) /\ n \in 0 .. Len(s) /\ q \in 1 .. Len(t)
            /\ Len(t) = Len(s) - n /\ \A i \in 1 .. Len(s) - n : t[i] = s[i + n]
        BY <1>1, <1>2, <3>1
      <4> HIDE DEF t, s, q
      <4>2. SubSeq(t, q, Len(t)) = SubSeq(s, q + n, Len(s))
        BY ONLY <4>1, TailFact
      <4> QED
        BY <4>2 DEF q
    <3>5. trail'.items = SubSeq(s, k, Len(s))
      BY <2>2, <3>1, <3>3, <3>4
    <3> QED
      BY <1>5, <2>2, <2>3, <2>6, <3>5
  <2>7. CASE ~(n < k)
    <3>1. c \notin Elements(t)
      <4>1. SUFFICES ASSUME NEW i \in 1 .. Len(s) - n, t[i] = c PROVE FALSE
        BY <2>5 DEF Elements
      <4>2. i + n \in 1 .. Len(s) /\ s[i + n] = s[k] /\ i + n # k
        BY <1>1, <1>2, <2>7, <4>1
      <4> QED
        BY <1>1, <2>4, <4>2
    <3> QED
      BY <1>5, <2>2, <2>3, <2>7, <3>1
  <2> QED
    BY <2>6, <2>7
<1> QED
  BY <1>4, <1>5

(* The clicks and the back button are activations of a crumb of the path. *)
LEMMA ClickFact ==
  ASSUME TrailIInv, NEW c, NEW n, ClickCrumb(c, n)
  PROVE  \E k \in DOMAIN trail.items : ActivateCrumb(trail.items[k], n)
BY DEF ClickCrumb, Elements

LEMMA TrailStepFact == TrailIInv /\ [TrailNext]_trailVars => TrailIInv'
<1> SUFFICES ASSUME TrailIInv, [TrailNext]_trailVars PROVE TrailIInv'
  OBVIOUS
<1>1. /\ trail \in Trails /\ trail.items \in Seq(Crumbs) /\ Len(trail.items) \in Nat
      /\ DOMAIN trail.items = 1 .. Len(trail.items) /\ PathOK(trail)
  BY DEF TrailIInv, PathOK, Trails
<1>2. CASE SizeAllocate
  <2> DEFINE y == [trail EXCEPT !.hidden = HiddenCrumbs(trail), !.queued = FALSE]
  <2>1. PathOK(y) /\ (y.width > 1 => TipShown(y))
    BY <1>1, LayoutFact
  <2>2. trail' = y
    BY <1>2 DEF SizeAllocate
  <2> HIDE DEF y
  <2> QED
    BY <2>1, <2>2 DEF TrailIInv, PathOK, TipShown
<1>3. CASE Pop
  <2>1. 1 \in 1 .. Len(trail.items) /\ trail' = RemoveTips(trail, 1)
    BY <1>1, <1>3 DEF Pop
  <2>2. PathOK(trail') /\ trail'.queued
    BY <1>1, <2>1, TipsFact
  <2> QED
    BY <2>2 DEF TrailIInv, PathOK
<1>4. CASE Clear
  <2>1. Len(trail.items) \in 1 .. Len(trail.items) /\ trail' = RemoveTips(trail, Len(trail.items))
    BY <1>1, <1>4 DEF Clear
  <2>2. PathOK(trail') /\ trail'.queued
    BY <1>1, <2>1, TipsFact
  <2> QED
    BY <2>2 DEF TrailIInv, PathOK
<1>5. ASSUME NEW n \in 0 .. Len(trail.items), MoveParent(n) PROVE TrailIInv'
  <2>1. 2 \in DOMAIN trail.items
    BY <1>1, <1>5 DEF MoveParent
  <2> QED
    BY <1>5, <2>1, ActivateFact DEF MoveParent
<1>6. ASSUME NEW w \in 0 .. MaxWidth, Resize(w) PROVE TrailIInv'
  <2>1. /\ trail' \in Trails /\ trail'.items = trail.items /\ trail'.hidden = trail.hidden
        /\ trail'.focus = trail.focus /\ trail'.back = trail.back /\ trail'.queued = TRUE
    BY <1>1, <1>6 DEF Resize, Trails
  <2>2. PathOK(trail')
    <3>1. trail'.back <=> Len(trail'.items) > 1
      BY <1>1, <2>1 DEF PathOK
    <3> QED
      BY <1>1, <2>1, <3>1 DEF PathOK
  <2> QED
    BY <2>1, <2>2 DEF TrailIInv, PathOK
<1>7. ASSUME NEW c \in Crumbs, Push(c) PROVE TrailIInv'
  <2>1. PathOK(trail') /\ trail'.queued
    BY <1>1, <1>7, PushFact DEF Push
  <2> QED
    BY <2>1 DEF TrailIInv, PathOK
<1>8. ASSUME NEW c \in Crumbs, FocusCrumb(c) PROVE TrailIInv'
  <2>1. /\ trail' \in Trails /\ trail'.items = trail.items /\ trail'.hidden = trail.hidden
        /\ trail'.focus = c /\ trail'.back = trail.back /\ trail'.queued = trail.queued
        /\ trail'.width = trail.width
    BY <1>1, <1>8 DEF FocusCrumb, Trails
  <2>2. PathOK(trail')
    <3>1. trail'.back <=> Len(trail'.items) > 1
      BY <1>1, <2>1 DEF PathOK
    <3>2. trail'.focus \in Elements(trail'.items) \union {None}
      BY <1>8, <2>1 DEF FocusCrumb
    <3> QED
      BY <1>1, <2>1, <3>1, <3>2 DEF PathOK
  <2>3. TipShown(trail) => TipShown(trail')
    BY <2>1 DEF TipShown
  <2> QED
    BY <2>1, <2>2, <2>3 DEF TrailIInv, PathOK, TipShown
<1>9. ASSUME NEW n \in 0 .. Len(trail.items), NEW c \in Crumbs, ClickCrumb(c, n) PROVE TrailIInv'
  BY <1>9, ClickFact, ActivateFact
<1>10. CASE UNCHANGED trailVars
  BY <1>10 DEF trailVars, TrailIInv, PathOK, TipShown
<1> QED
  BY <1>2, <1>3, <1>4, <1>5, <1>6, <1>7, <1>8, <1>9, <1>10 DEF TrailNext

(* Whatever is pushed, popped, clicked and resized, the back button can be     *)
(* used exactly if there is a crumb to go back to, and after a layout what is  *)
(* shown is the end of the path, as much as fits and no more, unless there is  *)
(* no room for any of the tip.                                                 *)
THEOREM TrailSafe == TrailSpec => []TrailInv
<1>1. TrailSpec => []TrailIInv
  BY TrailInitFact, TrailStepFact, PTL DEF TrailSpec
<1> QED
  BY <1>1, TrailIInvImpliesInv, PTL

(* By a click on a crumb, or the back button, the path up to that crumb stays  *)
(* as it was if the application has removed less when it is asked first; else  *)
(* the whole path goes, and the program crashes if nothing was left.           *)
THEOREM ClicksKeepPath == TrailSpec => PathKept
<1> DEFINE PathStays == \A k \in DOMAIN trail.items, n \in 0 .. Len(trail.items) :
              ClickCrumb(trail.items[k], n) \/ (k = 2 /\ MoveParent(n)) =>
                /\ trail'.items = IF n < k THEN SubSeq(trail.items, k, Len(trail.items)) ELSE <<>>
                /\ trail'.crashed <=> n = Len(trail.items)
<1>1. TrailSpec => []TrailIInv
  BY TrailInitFact, TrailStepFact, PTL DEF TrailSpec
<1>2. ASSUME TrailIInv, TrailNext PROVE PathStays
  <2> SUFFICES ASSUME NEW k \in DOMAIN trail.items, NEW n \in 0 .. Len(trail.items),
                      ActivateCrumb(trail.items[k], n)
               PROVE  /\ trail'.items = IF n < k THEN SubSeq(trail.items, k, Len(trail.items)) ELSE <<>>
                      /\ trail'.crashed <=> n = Len(trail.items)
    BY DEF ClickCrumb, MoveParent
  <2>1. /\ trail'.items = IF n < k THEN SubSeq(trail.items, k, Len(trail.items)) ELSE <<>>
        /\ trail'.crashed = IF n = Len(trail.items) THEN TRUE ELSE trail.crashed
    BY <1>2, ActivateFact
  <2>2. trail.crashed = FALSE
    BY <1>2 DEF TrailNext, TrailIInv, PathOK, Trails
  <2> QED
    BY <2>1, <2>2
<1>3. TrailIInv /\ [TrailNext]_trailVars => [PathStays]_trailVars
  BY <1>2
<1> QED
  BY <1>1, <1>3, PTL DEF PathKept, TrailSpec
=============================================================================
