----------------------------- MODULE HildonBanner -----------------------------
(***************************************************************************)
(* Banners of a libhildon1 application.  Every window has at most one      *)
(* timed banner, which requests for the same window use again, and so has  *)
(* the application as a whole; animations and progress bars are banners    *)
(* of their own.  The timer of a banner starts when its window is mapped.  *)
(***************************************************************************)
EXTENDS Naturals, NullPointer

CONSTANTS
  Owners,   \* windows of the application, and one for banners without a window
  Global,
  Banners,  \* banners at a time
  Period    \* steps of the clock a timed banner stays

ASSUME BannerAssumption ==
  /\ Global \in Owners /\ None \notin Owners \union Banners
  /\ Period \in Nat \ {0}

VARIABLES
  banners,     \* the banners
  registered   \* the timed banner of a window, and global_timed_banner

bannerVars == <<banners, registered>>

(* "gone": no such banner, or one that is destroyed *)
Banner == [state : {"gone", "hidden", "shown"},
           owner : Owners \union {None},
           timed : BOOLEAN,
           lasting : BOOLEAN,       \* its timeout is 0
           mapping : BOOLEAN,       \* a map event is under way,
           mapped : BOOLEAN,        \* has been delivered
           timer : 0 .. Period + 1, \* steps until timeout, and one; 0: no timer
           age : 0 .. Period]       \* steps since the last request

NoBanner == [state |-> "gone", owner |-> None, timed |-> FALSE, lasting |-> FALSE,
             mapping |-> FALSE, mapped |-> FALSE, timer |-> 0, age |-> 0]

BannerTypeOK ==
  /\ banners \in [Banners -> Banner]
  /\ \A b \in Banners : banners[b].state = "gone" => banners[b] = NoBanner
  /\ registered \in [Owners -> Banners \union {None}]

BannerInit ==
  /\ banners = [b \in Banners |-> NoBanner]
  /\ registered = [o \in Owners |-> None]

LiveBanner(b) == banners[b].state # "gone"

(* hildon_banner_ensure_timeout *)
EnsureTimeout(x) ==
  IF x.timer = 0 /\ x.timed /\ ~x.lasting THEN [x EXCEPT !.timer = Period + 1] ELSE x

(* Mutant: a request finds the timer of the one before. *)
RestartKeepsTimer(x) == x

(* The end of hildon_banner_constructor. *)
RestartTimeout(x) == IF x.timer # 0 THEN EnsureTimeout([x EXCEPT !.timer = 0]) ELSE x

(* gtk_widget_show_all *)
ShowAll(x) == [x EXCEPT !.state = "shown", !.mapping = @ \/ x.state = "hidden"]

Requested(x) == ShowAll(RestartTimeout([x EXCEPT !.age = 0]))

(* Mutant: the timer of a banner outlives it. *)
DestroyKeepsTimer(bs, regs, b) ==
  /\ banners' = [bs EXCEPT ![b] = [NoBanner EXCEPT !.timer = bs[b].timer]]
  /\ registered' = [regs EXCEPT ![bs[b].owner] = IF @ = b THEN None ELSE @]

(* Mutant: a banner drops the entry of its window whatever its kind. *)
DestroyedForgets(bs, regs, b) ==
  /\ banners' = [bs EXCEPT ![b] = NoBanner]
  /\ registered' = [regs EXCEPT ![bs[b].owner] = IF @ = b \/ bs[b].owner # Global THEN None ELSE @]

(* hildon_banner_destroy *)
DestroyBanner(bs, regs, b) ==
  /\ banners' = [bs EXCEPT ![b] = NoBanner]
  /\ registered' = [regs EXCEPT ![bs[b].owner] =
                      IF @ = b \/ (bs[b].timed /\ bs[b].owner # Global) THEN None ELSE @]

---------------------------------------------------------------------------
CreateBanner(o, timed) ==
  /\ \E b \in Banners : ~LiveBanner(b)
  /\ LET b == CHOOSE free \in Banners : ~LiveBanner(free)
     IN /\ banners' = [banners EXCEPT ![b] = Requested([NoBanner EXCEPT !.state = "hidden",
                                                         !.owner = o, !.timed = timed])]
        /\ registered' = IF timed THEN [registered EXCEPT ![o] = b] ELSE registered

(* hildon_banner_show_information, on the banner of the window if it has one. *)
ShowInformation(o) ==
  LET b == registered[o]
  IN IF b = None THEN CreateBanner(o, TRUE)
     ELSE /\ banners' = [banners EXCEPT ![b] = Requested(@)]
          /\ UNCHANGED registered

(* hildon_banner_show_animation, hildon_banner_show_progress *)
ShowProgress(o) == CreateBanner(o, FALSE)

(* hildon_banner_set_timeout, which is for timed banners not yet displayed. *)
SetTimeout(b, lasting) ==
  /\ banners[b].timed /\ ~banners[b].mapped /\ banners[b].lasting # lasting
  /\ banners' = [banners EXCEPT ![b].lasting = lasting]
  /\ UNCHANGED registered

(* Mutant: only a new request starts the timer. *)
MapEventStartsNothing(b) ==
  /\ banners[b].mapping
  /\ banners' = [banners EXCEPT ![b] = [@ EXCEPT !.mapping = FALSE, !.mapped = TRUE]]
  /\ UNCHANGED registered

(* hildon_banner_map_event *)
MapEvent(b) ==
  /\ banners[b].mapping
  /\ banners' = [banners EXCEPT ![b] = EnsureTimeout([@ EXCEPT !.mapping = FALSE, !.mapped = TRUE])]
  /\ UNCHANGED registered

(* The applications' ways to keep a banner that closes (simulate_close).    *)
(* One that shows a new message must also keep the banner: otherwise the     *)
(* new timer outlives it.                                                    *)
Kept(x) == {x, [x EXCEPT !.state = "hidden"], Requested(x)}

(* hildon_banner_timeout *)
BannerTimeout(b) ==
  /\ banners[b].timer = 1
  /\ \/ /\ banners[b].state = "shown"
        /\ \E x \in Kept([banners[b] EXCEPT !.timer = Period + 1]) :
             banners' = [banners EXCEPT ![b] = x]
        /\ UNCHANGED registered
     \/ DestroyBanner(banners, registered, b)

(* hildon_banner_button_press_event *)
BannerClicked(b) ==
  /\ banners[b].state = "shown"
  /\ \/ \E x \in Kept(banners[b]) : banners' = [banners EXCEPT ![b] = x]
        /\ UNCHANGED registered
     \/ DestroyBanner(banners, registered, b)

(* gtk_widget_destroy *)
CloseBanner(b) == LiveBanner(b) /\ DestroyBanner(banners, registered, b)

(* A window is destroyed, its banners with it, and the next has its place. *)
OwnerDestroyed(o) ==
  /\ o # Global /\ \E b \in Banners : banners[b].owner = o
  /\ banners' = [b \in Banners |-> IF banners[b].owner = o THEN NoBanner ELSE banners[b]]
  /\ registered' = [registered EXCEPT ![o] = None]

Clock ==
  /\ \E b \in Banners : banners[b].timer > 1
  /\ banners' = [b \in Banners |->
       IF ~LiveBanner(b) THEN banners[b]
       ELSE [banners[b] EXCEPT !.timer = IF @ > 1 THEN @ - 1 ELSE @,
                               !.age = IF @ < Period THEN @ + 1 ELSE @]]
  /\ UNCHANGED registered

BannerNext ==
  \/ Clock
  \/ \E o \in Owners : ShowInformation(o) \/ ShowProgress(o) \/ OwnerDestroyed(o)
  \/ \E b \in Banners : \/ MapEvent(b) \/ BannerTimeout(b) \/ BannerClicked(b) \/ CloseBanner(b)
                        \/ \E lasting \in BOOLEAN : SetTimeout(b, lasting)

BannerSpec == BannerInit /\ [][BannerNext]_bannerVars

---------------------------------------------------------------------------
(* A window has one timed banner, and the next request finds it exactly as   *)
(* long as it lives.                                                         *)
OneTimedBanner ==
  /\ \A b \in Banners : LiveBanner(b) /\ banners[b].timed => registered[banners[b].owner] = b
  /\ \A o \in Owners : registered[o] # None =>
       banners[registered[o]].owner = o /\ banners[registered[o]].timed

(* A timed banner on the screen goes away by itself: its timer runs or will  *)
(* once it is mapped; no other banner is closed by a timer.                  *)
TimedBannersEnd ==
  \A b \in Banners :
    /\ banners[b].state = "shown" /\ banners[b].timed /\ ~banners[b].lasting
         => banners[b].timer # 0 \/ banners[b].mapping
    /\ banners[b].timer # 0 => banners[b].timed

(* Every message is on the screen for the whole period, also when it has     *)
(* taken the banner of another one.                                          *)
FullTime == \A b \in Banners : banners[b].timer = 1 => banners[b].age = Period

(* An owner has one timed banner at most, it ends, and never before its time. *)
BannerInv ==
  /\ BannerTypeOK
  /\ OneTimedBanner
  /\ TimedBannersEnd
  /\ FullTime

=============================================================================
