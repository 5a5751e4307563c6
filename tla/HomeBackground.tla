---------------------------- MODULE HomeBackground ----------------------------
(***************************************************************************)
(* Setting the background of the home window.  The dialog hands a copy of  *)
(* its choice to the background manager, which paints the image and, for   *)
(* one that is not on the device, writes a copy to the cache; its answers  *)
(* come back in the order of the calls.  After a second a note offers to   *)
(* stop waiting.  What was confirmed is saved, and saving removes all      *)
(* files of the cache but that of the background that is shown.            *)
(***************************************************************************)
EXTENDS Naturals, Sequences, FiniteSets, NullPointer

CONSTANTS
  Local, Remote,   \* images on the device, and on memory cards or elsewhere
  Looks,           \* colours and modes
  CacheNames,      \* names of cache files, numbers
  MaxCalls         \* bound: calls of the manager under way, loading timeouts that run

VARIABLES
  background,  \* priv->background
  picture,     \* what priv->background_picture shows
  conf,        \* the file the background is saved in
  cacheDir,    \* per name: the cache file
  chooser,     \* the dialog: its background, its own row, previous_background
  calls,       \* calls of the manager, oldest first
  waiting,     \* loading timeouts, the one remembered, and the cancel note
  undone,      \* history: what the dialog asked for last did not come about
  unsaved,     \* history: the file could not be written when it was last tried
  crossed      \* history: since the start, the user went on while an answer was awaited

bgVars == <<background, picture, conf, cacheDir, chooser, calls, waiting, undone, unsaved, crossed>>

CallIds == 1 .. 2 * MaxCalls + 2
AllImages == Local \union Remote
Backgrounds == [image : AllImages, look : Looks, cache : CacheNames \union {None}]
CacheFiles == [image : AllImages, whole : BOOLEAN]
Pictures == [image : AllImages, look : Looks]
Choosers ==
  [previous : Backgrounds, chosen : Backgrounds,
   row : [image : AllImages, cache : CacheNames \union {None}] \union {None}]
Calls ==
  [id : CallIds, background : Backgrounds, kind : {"start", "preview", "confirm", "restore"},
   done : {"no", "ok", "failed"}, dropped : BOOLEAN, painted : Pictures \union {None},
   fresh : CacheNames \union {None}]
WholeFile(image) == [image |-> image, whole |-> TRUE]

ASSUME BackgroundAssumption ==
  /\ Local # {} /\ Local \intersect Remote = {} /\ Looks # {}
  /\ CacheNames \subseteq Nat /\ MaxCalls \in Nat \ {0}
  /\ None \notin Choosers \union CacheNames

BackgroundTypeOK ==
  /\ background \in Backgrounds /\ conf \in Backgrounds
  /\ picture \in Pictures \union {None}
  /\ cacheDir \in [CacheNames -> CacheFiles \union {None}]
  /\ chooser \in Choosers \union {None}
  /\ calls \in Seq(Calls)
  /\ waiting \in [timers : SUBSET CallIds, timeout : CallIds \union {None},
                  note : CallIds \union {None}]
  /\ {undone, unsaved, crossed} \subseteq BOOLEAN

Equal(a, b) == a.image = b.image /\ a.look = b.look

Default ==
  [image |-> CHOOSE n \in Local : TRUE, look |-> CHOOSE l \in Looks : TRUE, cache |-> None]

NotWaiting == [timers |-> {}, timeout |-> None, note |-> None]
-----------------------------------------------------------------------------
(* Files. *)
CleanUpCache(b) == [n \in CacheNames |-> IF n = b.cache THEN cacheDir[n] ELSE None]

(* The cache is cleaned up whether or not the file could be written. *)
SaveBackground(b) ==
  \E written \in BOOLEAN :
    /\ conf' = IF written THEN b ELSE conf
    /\ cacheDir' = CleanUpCache(b)
    /\ undone' = ~written /\ unsaved' = ~written

(* The names are random: no file has a new one. *)
UnusedNames ==
  LET remembered == {background, conf} \union {calls[i].background : i \in DOMAIN calls}
                      \union (IF chooser = None THEN {} ELSE {chooser.previous, chooser.chosen})
  IN  {n \in CacheNames : /\ cacheDir[n] = None
                          /\ \A b \in remembered : b.cache # n
                          /\ \A i \in DOMAIN calls : calls[i].fresh # n}
-----------------------------------------------------------------------------
(* Calls of the manager. *)
Least(S) == CHOOSE n \in S : \A m \in S : n <= m

RequiresCaching(b) == b.cache = None /\ b.image \in Remote

NewId ==
  Least(CallIds \ (waiting.timers \union {waiting.note} \union {calls[i].id : i \in DOMAIN calls}))

ApplyAsync(before, b, kind) ==
  /\ Len(before) < MaxCalls
  /\ RequiresCaching(b) => UnusedNames # {}
  /\ calls' = Append(before,
       [id |-> NewId, background |-> b, kind |-> kind, done |-> "no", dropped |-> FALSE,
        painted |-> None, fresh |-> IF RequiresCaching(b) THEN Least(UnusedNames) ELSE None])

StartWaiting ==
  /\ Cardinality(waiting.timers) < MaxCalls
  /\ waiting' = [waiting EXCEPT !.timers = @ \union {NewId}, !.timeout = NewId]

Pending == {i \in DOMAIN calls : ~calls[i].dropped}

(* Nothing but the note, once it is up, keeps the user from going on. *)
MayCross == waiting.note = None /\ crossed' = (crossed \/ Pending # {})

(* background_manager_set_background: the cache file, when the background    *)
(* has one, takes the place of the image.                                    *)
ManagerServes ==
  /\ \E i \in DOMAIN calls :
       /\ calls[i].done = "no" /\ \A j \in 1 .. (i - 1) : calls[j].done # "no"
       /\ LET b == calls[i].background
              new == calls[i].fresh
              source == IF b.cache = None THEN WholeFile(b.image) ELSE cacheDir[b.cache]
          IN  \/ /\ source # None /\ source.whole
                 /\ calls' = [calls EXCEPT ![i].done = "ok",
                                ![i].painted = [image |-> source.image, look |-> b.look]]
                 /\ cacheDir' = IF new = None THEN cacheDir ELSE [cacheDir EXCEPT ![new] = source]
              \/ /\ calls' = [calls EXCEPT ![i].done = "failed"]
                 /\ \/ UNCHANGED cacheDir
                    \/ /\ new # None
                       /\ cacheDir' =
                            [cacheDir EXCEPT ![new] = [image |-> b.image, whole |-> FALSE]]
  /\ UNCHANGED <<background, picture, conf, chooser, waiting, undone, unsaved, crossed>>

(* hd_home_background_apply_async_dbus_callback and the callback it gets. *)
AsyncReply ==
  /\ calls # <<>> /\ Head(calls).done # "no"
  /\ calls' = Tail(calls)
  /\ UNCHANGED <<chooser, crossed>>
  /\ LET c == Head(calls)
         b == IF c.fresh = None THEN c.background ELSE [c.background EXCEPT !.cache = c.fresh]
     IN  \/ c.dropped /\ UNCHANGED <<background, picture, conf, cacheDir, waiting, undone, unsaved>>
         \/ /\ ~c.dropped
            /\ waiting' = [NotWaiting EXCEPT !.timers = waiting.timers \ {waiting.timeout}]
            /\ \/ /\ c.done = "failed"
                  /\ undone' = (undone \/ c.kind \in {"confirm", "restore"})
                  /\ UNCHANGED <<background, picture, conf, cacheDir, unsaved>>
               \/ /\ c.done = "ok"
                  /\ background' = b /\ picture' = c.painted
                  /\ IF c.kind = "confirm"
                       THEN SaveBackground(b)
                       ELSE UNCHANGED <<conf, cacheDir, undone, unsaved>>
-----------------------------------------------------------------------------
(* The dialog. *)
SetBackgroundActivate ==
  /\ chooser = None /\ MayCross
  /\ chooser' = [previous |-> background, chosen |-> background,
                 row |-> IF background.image \in Local THEN None
                         ELSE [image |-> background.image, cache |-> background.cache]]
  /\ UNCHANGED <<background, picture, conf, cacheDir, calls, waiting, undone, unsaved>>

(* A row of the list: the images that come with the device, and the dialog's *)
(* own row for any other.                                                    *)
Rows ==
  {[image |-> n, cache |-> None] : n \in Local}
    \union (IF chooser.row = None THEN {} ELSE {chooser.row})

(* What the row's cache file is for: without it only the name is set. *)
FilenameChangedOnly(row) ==
  chooser' = [chooser EXCEPT !.chosen.image = row.image,
                             !.row = IF row.image \in Local THEN @ ELSE row]

FilenameChanged(row) ==
  chooser' = [chooser EXCEPT !.chosen.image = row.image, !.chosen.cache = row.cache,
                             !.row = IF row.image \in Local THEN @ ELSE row]

Choose ==
  /\ chooser # None /\ waiting.note = None
  /\ \/ \E row \in Rows : FilenameChanged(row)
     \/ \E n \in Remote : FilenameChanged([image |-> n, cache |-> None])
     \/ \E l \in Looks : chooser' = [chooser EXCEPT !.chosen.look = l]
  /\ UNCHANGED <<background, picture, conf, cacheDir, calls, waiting, undone, unsaved, crossed>>

CanRespond == chooser # None /\ MayCross

RespondOk ==
  /\ CanRespond
  /\ chooser' = None
  /\ UNCHANGED <<background, picture>>
  /\ IF Equal(background, chooser.chosen)
       THEN SaveBackground(background) /\ UNCHANGED <<calls, waiting>>
       ELSE /\ ApplyAsync(calls, chooser.chosen, "confirm") /\ StartWaiting
            /\ UNCHANGED <<conf, cacheDir, undone, unsaved>>

RespondPreview ==
  /\ CanRespond
  /\ ApplyAsync(calls, chooser.chosen, "preview") /\ StartWaiting
  /\ UNCHANGED <<background, picture, conf, cacheDir, chooser, undone, unsaved>>

RespondCancel ==
  /\ CanRespond
  /\ chooser' = None
  /\ IF Equal(background, chooser.previous)
       THEN UNCHANGED calls ELSE ApplyAsync(calls, chooser.previous, "restore")
  /\ UNCHANGED <<background, picture, conf, cacheDir, waiting, undone, unsaved>>
-----------------------------------------------------------------------------
(* The note. *)
LoadingTimeout ==
  /\ \E id \in waiting.timers :
       waiting' = [timers |-> waiting.timers \ {id}, timeout |-> None,
                   note |-> IF waiting.note = None THEN id ELSE waiting.note]
  /\ UNCHANGED <<background, picture, conf, cacheDir, chooser, calls, undone, unsaved, crossed>>

CancelNoteResponse ==
  /\ waiting.note # None
  /\ waiting' = [waiting EXCEPT !.note = None]
  /\ calls' = [i \in DOMAIN calls |->
                 [calls[i] EXCEPT !.dropped = @ \/ calls[i].id = waiting.note]]
  /\ undone' = (undone \/ \E i \in DOMAIN calls : /\ calls[i].id = waiting.note
                                                   /\ calls[i].kind = "confirm")
  /\ UNCHANGED <<background, picture, conf, cacheDir, chooser, unsaved, crossed>>
-----------------------------------------------------------------------------
(* hildon-desktop ends and starts again; nobody takes the answers to its     *)
(* earlier calls.                                                            *)
StartHomeWindow ==
  LET lost == conf.cache # None /\ cacheDir[conf.cache] = None
      loaded == IF lost THEN Default ELSE conf
      answered == Cardinality({i \in DOMAIN calls : calls[i].done # "no"})
      left == SubSeq([i \in DOMAIN calls |-> [calls[i] EXCEPT !.dropped = TRUE]],
                     answered + 1, Len(calls))
  IN  /\ IF lost THEN SaveBackground(loaded)
         ELSE undone' = FALSE /\ unsaved' = FALSE /\ UNCHANGED <<conf, cacheDir>>
      /\ crossed' = FALSE
      /\ background' = loaded /\ picture' = None
      /\ chooser' = None /\ waiting' = NotWaiting
      /\ ApplyAsync(left, loaded, "start")

BackgroundInit ==
  /\ background = Default /\ conf = Default /\ picture = None
  /\ cacheDir = [n \in CacheNames |-> None]
  /\ chooser = None /\ waiting = NotWaiting
  /\ undone = FALSE /\ unsaved = FALSE /\ crossed = FALSE
  /\ calls = <<[id |-> 1, background |-> Default, kind |-> "start", done |-> "no",
                dropped |-> FALSE, painted |-> None, fresh |-> None]>>

BackgroundNext ==
  \/ ManagerServes \/ AsyncReply
  \/ SetBackgroundActivate \/ Choose \/ RespondOk \/ RespondPreview \/ RespondCancel
  \/ LoadingTimeout \/ CancelNoteResponse
  \/ StartHomeWindow

BackgroundSpec == BackgroundInit /\ [][BackgroundNext]_bgVars
-----------------------------------------------------------------------------
InTheDialog == IF chooser = None THEN {} ELSE {chooser.previous, chooser.chosen}

(* A background that is saved, shown or can be chosen again has the cache    *)
(* file it names, with its image, although every save empties the directory  *)
(* and calls that were given up still write to it: what the user confirmed   *)
(* is there after a restart.  A save that fails can take the file's own       *)
(* background with it, but no other, until one succeeds or the next start;   *)
(* and a user who does not wait for an answer can lose any, until the next    *)
(* start.                                                                    *)
CacheUsable ==
  ~crossed =>
    \A b \in {background} \union InTheDialog \union (IF unsaved THEN {} ELSE {conf}) :
      b.cache # None => cacheDir[b.cache] = WholeFile(b.image)

(* Whatever the user does and whether or not files can be written, a cache   *)
(* file is at worst lost, for which a start checks: never does the name of a  *)
(* background lead to half a file or to another image.                       *)
CacheOwn ==
  \A b \in {background, conf} \union InTheDialog :
    b.cache # None => cacheDir[b.cache] \in {None, WholeFile(b.image)}

(* The picture is that of priv->background, whatever file it was read from.  *)
PictureOfBackground == picture # None => Equal(picture, background)

(* A loading timeout or a cancel note belongs to a call somebody waits for,   *)
(* until the user does not wait.                                             *)
NoteHasReason ==
  ~crossed =>
    waiting.timers \union ({waiting.note} \ {None}) \subseteq {calls[i].id : i \in Pending}

(* With the dialog closed and no answer to come, the background on the       *)
(* screen is the one in the file, unless the last request failed or was      *)
(* stopped, or the user did not wait since the start.                        *)
SavedIsShown ==
  chooser = None /\ Pending = {} /\ ~undone /\ ~crossed => Equal(background, conf)

(* The background, its picture, its file and its cache agree. *)
BackgroundInv ==
  /\ BackgroundTypeOK /\ CacheUsable /\ CacheOwn
  /\ PictureOfBackground /\ NoteHasReason /\ SavedIsShown
==============================================================================
