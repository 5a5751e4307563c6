----------------------------- MODULE MCComponents -----------------------------
(* Parts that do not interact, each on its own: a behaviour exercises the one *)
(* in focus.  Windows and widgets of libhildon1, and the data structures of   *)
(* sapwood and of the window manager.  The background of the home window is   *)
(* explored with MaxEfforts calls of its manager and changes of colours and   *)
(* mode together; the dialog changes only while no answer is awaited, because *)
(* a call has a copy of what the dialog showed.                               *)
EXTENDS HildonProgram, HildonBanner, HildonNumberEditor, HildonRangeEditor,
        HildonFindToolbar, HildonBreadCrumbTrail, HomeBackground,
        SapwoodStream, SapwoodTheme, MatchboxStack, TLC

CONSTANTS Parts, w1, w2, tb1, tb2, b1, b2, b3, MaxEfforts

VARIABLES focus, efforts

MCTyped == (-6 .. 6) \union NotNumbers
MCRangeTexts == -4 .. 5
MCRangeValues == {-3, -1, 0, 1, 3, 4}
(* A close of two units, opens of three and five, a header of one. *)
MCLengths == {2, 3, 5}
MCNatural == (b1 :> 2) @@ (b2 :> 3) @@ (b3 :> 2)

(* The parts that are not in focus stay in one of their initial states. *)
MCInit ==
  /\ focus \in Parts
  /\ ProgramInit /\ (focus # "program" => ~app.liberal)
  /\ BannerInit
  /\ NumberInit
  /\ RangeInit /\ (focus # "range" => range.min = 0 /\ range.max = 4)
  /\ HistoryInit /\ (focus # "history" => history.limit = 0)
  /\ TrailInit
  /\ BackgroundInit
  /\ StreamInit /\ ThemeInit /\ StackInit
  /\ efforts = 0

Others(part) ==
  /\ part # "program" => UNCHANGED programVars
  /\ part # "banners" => UNCHANGED bannerVars
  /\ part # "number" => UNCHANGED numberVars
  /\ part # "range" => UNCHANGED rangeVars
  /\ part # "history" => UNCHANGED historyVars
  /\ part # "trail" => UNCHANGED trailVars
  /\ part # "stream" => UNCHANGED streamVars
  /\ part # "theme" => UNCHANGED themeVars
  /\ part # "stack" => UNCHANGED stackVars
  /\ part # "background" => UNCHANGED <<bgVars, efforts>>

Restyled ==
  chooser # None /\ chooser' # None /\ chooser.chosen.look # chooser'.chosen.look

Effort == StartHomeWindow \/ Len(calls') > Len(calls) \/ Restyled
Trouble == (crossed' # crossed \/ unsaved' # unsaved) /\ ~StartHomeWindow

MCBackground ==
  /\ BackgroundNext
  /\ Choose => Pending = {}
  /\ efforts' = efforts + (IF Effort THEN 1 ELSE 0) + (IF Trouble THEN 1 ELSE 0)
  /\ efforts' <= MaxEfforts

MCNext ==
  /\ UNCHANGED focus
  /\ \/ focus = "program" /\ ProgramNext
     \/ focus = "banners" /\ BannerNext
     \/ focus = "number" /\ NumberNext
     \/ focus = "range" /\ RangeNext
     \/ focus = "history" /\ HistoryNext
     \/ focus = "trail" /\ TrailNext
     \/ focus = "stream" /\ StreamNext
     \/ focus = "theme" /\ ThemeNext
     \/ focus = "stack" /\ StackNext
     \/ focus = "background" /\ MCBackground
  /\ Others(focus)

MCVars ==
  <<focus, efforts, programVars, bannerVars, numberVars, rangeVars, historyVars, trailVars,
    bgVars, streamVars, themeVars, stackVars>>

MCSpec == /\ MCInit /\ [][MCNext]_MCVars
          /\ \A c \in Processes : WF_streamVars(ServeStep(c))
==============================================================================
