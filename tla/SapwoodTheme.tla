---------------------------- MODULE SapwoodTheme ----------------------------
(***************************************************************************)
(* The theme data of one process that has loaded the Sapwood engine.       *)
(* Parsing an engine block of a gtkrc file makes ThemeImages, kept in the  *)
(* image list of an rc style; merging styles shares them.  The files an    *)
(* image names are ThemePixbufs, canonicalised by file in pixbuf_hash and  *)
(* shared by all images; a ThemePixbuf opens its pixmap at the server the  *)
(* first time it is painted and closes it when its last image is freed.    *)
(*                                                                         *)
(* GTK+ parses without returning to the main loop: while a block is being  *)
(* parsed nothing else happens.  The iterations of the loop in             *)
(* sapwood_rc_style_parse are steps of their own.                          *)
(***************************************************************************)
EXTENDS Naturals, Sequences, FiniteSets, NullPointer

CONSTANTS
  Files,       \* image files, by the canonical name realpath gives
  Images,      \* addresses a ThemeImage can be allocated at
  Styles,      \* addresses of rc styles
  Slots,       \* background, overlay, gap_start, gap, gap_end
  RefModulus,  \* ThemePixbuf.refcnt is a bit field of this many values
  MaxList,     \* bound: length of an image list (state space only)
  ShadowAfterImage  \* do gtkrc files put shadowcolor behind an image

ASSUME ThemeAssumption ==
  /\ IsFiniteSet(Images) /\ IsFiniteSet(Styles) /\ IsFiniteSet(Slots)
  /\ None \notin Files \union Images \union Styles
  /\ RefModulus \in Nat \ {0}
  /\ MaxList \in Nat
  /\ ShadowAfterImage \in BOOLEAN

VARIABLES
  live,     \* the rc styles that exist
  list,     \* per style: img_list
  image,    \* per address: refcount and files by slot; refcount 0 is free
  pbref,    \* per file: refcnt of its ThemePixbuf in pixbuf_hash, 0 when none
  opened,   \* files whose ThemePixbuf has a pixmap
  parsing,  \* the style being parsed and the local img, or None
  status    \* "running", or how the process went down

themeVars == <<live, list, image, pbref, opened, parsing, status>>

FilesOf == [Slots -> Files \union {None}]
NoFiles == [s \in Slots |-> None]

ThemeTypeOK ==
  /\ live \subseteq Styles
  /\ list \in [Styles -> Seq(Images)]
  /\ image \in [Images -> [refcount : Nat, files : FilesOf]]
  /\ pbref \in [Files -> 0 .. RefModulus - 1]
  /\ opened \subseteq Files
  /\ parsing \in [style : live, img : Images \union {None}] \union {None}
  /\ status \in {"running", "asserted", "corrupted"}

ThemeInit ==
  /\ live = {}
  /\ list = [s \in Styles |-> <<>>]
  /\ image = [i \in Images |-> [refcount |-> 0, files |-> NoFiles]]
  /\ pbref = [f \in Files |-> 0]
  /\ opened = {}
  /\ parsing = None
  /\ status = "running"

(* Mutant: styles come and go while a block is parsed. *)
IdleWhileParsing == status = "running"

Idle == status = "running" /\ parsing = None

(* How often an image is in a list, and a file among the slots of an image *)
(* or of a set of images.                                                  *)
Occurs(i, seq) == Cardinality({k \in DOMAIN seq : seq[k] = i})
Uses(files, f) == Cardinality({s \in Slots : files[s] = f})
SlotsOf(f, images) == {p \in images \X Slots : image[p[1]].files[p[2]] = f}

Free == {i \in Images : image[i].refcount = 0}

-----------------------------------------------------------------------------
(* Mutant: the bit field wraps without the assertion. *)
CanonicalizeWraps(files) ==
  /\ pbref' = [f \in Files |-> (pbref[f] + Uses(files, f)) % RefModulus]
  /\ UNCHANGED status

(* validate_pixbuf for every slot: the canonical ThemePixbuf of each file  *)
(* gains a reference per slot, or is entered in the hash with the first.   *)
(* theme_pixbuf_ref asserts that its bit field has not come round to zero. *)
CanonicalizeAll(files) ==
  LET more == [f \in Files |-> pbref[f] + Uses(files, f)]
  IN  IF \A f \in Files : more[f] < RefModulus
      THEN pbref' = more /\ UNCHANGED status
      ELSE status' = "asserted" /\ UNCHANGED pbref

(* Mutant: theme_pixbuf_destroy keeps the pixmap. *)
UnrefKeepsPixmaps(seq) ==
  LET gone == {i \in Images : Occurs(i, seq) > 0 /\ image[i].refcount <= Occurs(i, seq)}
  IN  /\ image' = [i \in Images |->
                      IF i \in gone THEN [refcount |-> 0, files |-> NoFiles]
                      ELSE [image[i] EXCEPT !.refcount = @ - Occurs(i, seq)]]
      /\ pbref' = [f \in Files |->
                     pbref[f] - Cardinality(SlotsOf(f, gone))]
      /\ UNCHANGED <<opened, status>>

(* Mutant: an image that is freed destroys its pixbufs ("blindly"). *)
UnrefDestroys(seq) ==
  LET gone == {i \in Images : Occurs(i, seq) > 0 /\ image[i].refcount <= Occurs(i, seq)}
  IN  /\ image' = [i \in Images |->
                      IF i \in gone THEN [refcount |-> 0, files |-> NoFiles]
                      ELSE [image[i] EXCEPT !.refcount = @ - Occurs(i, seq)]]
      /\ pbref' = [f \in Files |->
                     pbref[f] - Cardinality(SlotsOf(f, gone))]
      /\ opened' = {f \in opened : \A i \in gone : Uses(image[i].files, f) = 0}
      /\ UNCHANGED status

(* theme_image_unref for each element of seq.  An image that runs out of   *)
(* references is freed and gives up its ThemePixbufs; one without images   *)
(* leaves the hash and closes its pixmap.  To drop a reference of an image *)
(* that is freed already is to write to freed memory.                      *)
UnrefImages(seq) ==
  LET gone == {i \in Images : Occurs(i, seq) > 0 /\ image[i].refcount <= Occurs(i, seq)}
      left == [f \in Files |->
                 pbref[f] - Cardinality(SlotsOf(f, gone))]
  IN  IF \E i \in Images : image[i].refcount < Occurs(i, seq)
      THEN status' = "corrupted" /\ UNCHANGED <<image, pbref, opened>>
      ELSE /\ image' = [i \in Images |->
                          IF i \in gone THEN [refcount |-> 0, files |-> NoFiles]
                          ELSE [image[i] EXCEPT !.refcount = @ - Occurs(i, seq)]]
           /\ pbref' = left
           /\ opened' = {f \in opened : left[f] > 0}
           /\ UNCHANGED status

-----------------------------------------------------------------------------
(* GTK+ makes a style for the engine; parse starts with img = NULL.  The   *)
(* style may have been merged into before its block is parsed.             *)
CreateStyle(s) ==
  /\ Idle
  /\ s \notin live
  /\ live' = live \union {s}
  /\ list' = [list EXCEPT ![s] = <<>>]
  /\ UNCHANGED <<image, pbref, opened, parsing, status>>

ParseBegin(s) ==
  /\ Idle
  /\ s \in live
  /\ parsing' = [style |-> s, img |-> None]
  /\ UNCHANGED <<live, list, image, pbref, opened, status>>

(* An image block: a new ThemeImage is prepended to the list. *)
ParseImage(i, files) ==
  /\ status = "running" /\ parsing # None
  /\ i \in Free
  /\ Len(list[parsing.style]) < MaxList
  /\ CanonicalizeAll(files)
  /\ image' = [image EXCEPT ![i] = [refcount |-> 1, files |-> files]]
  /\ list' = [list EXCEPT ![parsing.style] = <<i>> \o @]
  /\ parsing' = [parsing EXCEPT !.img = i]
  /\ UNCHANGED <<live, opened>>

(* A shadowcolor line sets no image, but the loop goes on to test img,     *)
(* which still points to the image of the iteration before, and prepends   *)
(* that image once more.                                                   *)
ParseShadowColor ==
  /\ status = "running" /\ parsing # None
  /\ parsing.img # None => ShadowAfterImage
  /\ Len(list[parsing.style]) < MaxList
  /\ IF parsing.img # None
     THEN list' = [list EXCEPT ![parsing.style] = <<parsing.img>> \o @]
     ELSE UNCHANGED list
  /\ UNCHANGED <<live, image, pbref, opened, parsing, status>>

(* g_list_reverse *)
Reversed(seq) == [k \in DOMAIN seq |-> seq[Len(seq) + 1 - k]]

(* The right curly: the list is put in the order of the file. *)
ParseEnd ==
  /\ status = "running" /\ parsing # None
  /\ list' = [list EXCEPT ![parsing.style] = Reversed(@)]
  /\ parsing' = None
  /\ UNCHANGED <<live, image, pbref, opened, status>>

(* A syntax error: an image begun is freed before its pixbufs are          *)
(* canonical, parse returns, and GTK+ gives up the style.                  *)
ParseError ==
  /\ status = "running" /\ parsing # None
  /\ UnrefImages(list[parsing.style])
  /\ live' = live \ {parsing.style}
  /\ list' = [list EXCEPT ![parsing.style] = <<>>]
  /\ parsing' = None

(* Mutant: the images are appended without theme_image_ref. *)
MergeWithoutRef(dest, src) ==
  /\ Idle
  /\ dest \in live /\ src \in live /\ dest # src
  /\ Len(list[dest]) + Len(list[src]) <= MaxList
  /\ list' = [list EXCEPT ![dest] = @ \o list[src]]
  /\ UNCHANGED <<live, image, pbref, opened, parsing, status>>

(* sapwood_rc_style_merge: the images of src follow those of dest, and     *)
(* both lists hold them.                                                   *)
MergeStyle(dest, src) ==
  /\ Idle
  /\ dest \in live /\ src \in live /\ dest # src
  /\ Len(list[dest]) + Len(list[src]) <= MaxList
  /\ list' = [list EXCEPT ![dest] = @ \o list[src]]
  /\ image' = [i \in Images |->
                 [image[i] EXCEPT !.refcount = @ + Occurs(i, list[src])]]
  /\ UNCHANGED <<live, pbref, opened, parsing, status>>

FinalizeStyle(s) ==
  /\ Idle
  /\ s \in live
  /\ UnrefImages(list[s])
  /\ live' = live \ {s}
  /\ list' = [list EXCEPT ![s] = <<>>]
  /\ UNCHANGED parsing

(* theme_pixbuf_get_pixmap for an image of a style in use: the first       *)
(* painting opens the file; when that fails the next one tries again.      *)
Paint(f) ==
  /\ Idle
  /\ \E s \in live, k \in 1 .. MaxList, slot \in Slots :
       k <= Len(list[s]) /\ image[list[s][k]].files[slot] = f
  /\ opened' \in {opened, opened \union {f}}
  /\ UNCHANGED <<live, list, image, pbref, parsing, status>>

-----------------------------------------------------------------------------
ThemeNext ==
  \/ \E s \in Styles : CreateStyle(s) \/ ParseBegin(s) \/ FinalizeStyle(s)
  \/ \E i \in Images, files \in FilesOf : ParseImage(i, files)
  \/ ParseShadowColor
  \/ ParseEnd
  \/ ParseError
  \/ \E dest, src \in Styles : MergeStyle(dest, src)
  \/ \E f \in Files : Paint(f)

ThemeSpec == ThemeInit /\ [][ThemeNext]_themeVars
-----------------------------------------------------------------------------
(* Where an image is in the lists of the styles that exist. *)
Places(i) == UNION {{s} \X {k \in DOMAIN list[s] : list[s][k] = i} : s \in live}

(* A ThemeImage is referenced exactly once for every place it has in the   *)
(* lists of the styles that exist.                                         *)
ImageRefsMatch ==
  status = "running" =>
    \A i \in Images : image[i].refcount = Cardinality(Places(i))

(* A ThemePixbuf is referenced exactly once for every slot, of any image,  *)
(* that names its file.                                                    *)
PixbufRefsMatch ==
  status = "running" =>
    \A f \in Files : pbref[f] = Cardinality(SlotsOf(f, Images))

(* The process has a pixmap open only for files some image still names:    *)
(* when a theme is unloaded everything it opened has been closed.          *)
PixmapsHaveUsers ==
  status = "running" => \A f \in opened : \E s \in live, i \in Images, slot \in Slots :
    Occurs(i, list[s]) > 0 /\ image[i].files[slot] = f

(* "Avoids crashing on theme change" (ChangeLog:1240): giving up the       *)
(* styles of a theme never drops a reference of an image freed before.     *)
NoUseAfterFree == status # "corrupted"

(* A pixmap is closed only in a step that gives up a style, and a painting *)
(* of a file that stays in use never loses its pixmap in between.          *)
ClosedOnlyUnused ==
  [][\A f \in opened : f \notin opened' => pbref'[f] = 0 /\ live' # live]_themeVars

(* Reference counts of images and pixbufs and the hash of pixmaps are those of *)
(* the styles that use them. *)
ThemeInv ==
  /\ ThemeTypeOK
  /\ ImageRefsMatch
  /\ PixbufRefsMatch
  /\ PixmapsHaveUsers

=============================================================================
