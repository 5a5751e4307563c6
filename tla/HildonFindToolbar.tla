--------------------------- MODULE HildonFindToolbar ---------------------------
(***************************************************************************)
(* The history of the find toolbar of libhildon1: a list, of the toolbar   *)
(* or of the application, to which a search appends its text, and a filter *)
(* that decides when a row is inserted or all are filtered again whether   *)
(* it is among the latest ones.                                            *)
(***************************************************************************)
EXTENDS Naturals, Sequences, NullPointer

CONSTANTS
  Searches,   \* texts searched for, the empty one left out
  MaxHistory  \* greatest history_limit

ASSUME HistoryAssumption == None \notin {"own", "given"} /\ MaxHistory \in Nat

VARIABLE history

historyVars == <<history>>

Row == [text : Searches, visible : BOOLEAN]

HistoryTypeOK ==
  /\ history \in [rows : Seq(Row), limit : 0 .. MaxHistory, list : {None, "own", "given"},
                  column : BOOLEAN,    \* is the column of the texts set
                  touched : BOOLEAN]   \* the application has changed its list since
                                       \* the last filtering
  /\ history.list = None => history.rows = <<>>
  /\ history.list = "own" => history.column

HistoryInit ==
  \E limit \in 0 .. MaxHistory :
    history = [rows |-> <<>>, limit |-> limit, list |-> None, column |-> FALSE, touched |-> FALSE]

(* hildon_find_toolbar_filter *)
Among(x, rows, k) == k > Len(rows) - x.limit

Refilter(x) ==
  [x EXCEPT !.rows = [k \in DOMAIN x.rows |->
                        [text |-> x.rows[k].text, visible |-> Among(x, x.rows, k)]],
            !.touched = FALSE]

(* A row is inserted, which the filter sees, but the others do not change. *)
InsertLast(x, s) ==
  [x EXCEPT !.rows = Append(@, [text |-> s, visible |-> x.limit > 0])]

(* Mutant: the search for the text starts with the second row. *)
FindAfterFirst(x, s) ==
  {k \in DOMAIN x.rows : k > 1 /\ x.rows[k].text = s}

(* hildon_find_toolbar_find_string *)
FindString(x, s) ==
  {k \in DOMAIN x.rows : x.rows[k].text = s /\ \A j \in 1 .. k - 1 : x.rows[j].text # s}

RemoveRow(x, k) ==
  [x EXCEPT !.rows = SubSeq(@, 1, k - 1) \o SubSeq(@, k + 1, Len(@))]

WithoutString(x, s) ==
  IF FindString(x, s) = {} THEN x ELSE RemoveRow(x, CHOOSE k \in FindString(x, s) : TRUE)

(* Mutant: the filter is trusted to follow the list. *)
AppendUnfiltered(x, s) == InsertLast(WithoutString(x, s), s)

AppendHistory(x, s) == Refilter(InsertLast(WithoutString(x, s), s))

(* Mutant: only the application sets the column. *)
CreateListPlain(x, s) == Refilter(InsertLast([x EXCEPT !.list = "own"], s))

(* The toolbar's own list. *)
CreateList(x, s) == Refilter(InsertLast([x EXCEPT !.list = "own", !.column = TRUE], s))

---------------------------------------------------------------------------
(* hildon_find_toolbar_emit_search and the default handler of history_append, *)
(* hildon_find_toolbar_history_append                                        *)
SearchFor(s) ==
  history' = IF history.list = None THEN CreateList(history, s)
             ELSE IF ~history.column THEN history
             ELSE AppendHistory(history, s)

(* The properties history_limit, list and column.  With the limit the filter *)
(* is made anew.                                                             *)
SetHistoryLimit(limit) ==
  LET x == [history EXCEPT !.limit = limit]
  IN history' = IF x.list = None THEN x ELSE [Refilter(x) EXCEPT !.column = TRUE]

SetList(texts) ==
  history' = Refilter([history EXCEPT !.rows = [k \in DOMAIN texts |-> [text |-> texts[k], visible |-> TRUE]],
                                      !.list = "given"])

SetColumn == history.list # None /\ history' = [history EXCEPT !.column = TRUE]

(* The application changes its list. *)
AppAppends(s) ==
  /\ history.list = "given" /\ FindString(history, s) = {}
  /\ history' = [InsertLast(history, s) EXCEPT !.touched = TRUE]

AppRemoves(k) ==
  /\ history.list = "given" /\ k \in DOMAIN history.rows
  /\ history' = [RemoveRow(history, k) EXCEPT !.touched = TRUE]

HistoryNext ==
  \/ \E s \in Searches : SearchFor(s) \/ AppAppends(s)
  \/ \E limit \in 0 .. MaxHistory : SetHistoryLimit(limit)
  \/ \E texts \in {<<>>} \union {<<s>> : s \in Searches} : SetList(texts)
  \/ SetColumn
  \/ \E k \in DOMAIN history.rows : AppRemoves(k)

HistorySpec == HistoryInit /\ [][HistoryNext]_historyVars

---------------------------------------------------------------------------
(* No text is twice in the history, wherever it was when searched for again. *)
HistoryDistinct ==
  \A j, k \in DOMAIN history.rows :
    history.rows[j].text = history.rows[k].text => j = k

(* The latest history_limit texts are shown and no other, until the          *)
(* application changes its list behind the filter.                           *)
LatestShown ==
  ~history.touched =>
    \A k \in DOMAIN history.rows :
      history.rows[k].visible <=> Len(history.rows) - k < history.limit

(* The history of searches has no duplicates and its filter shows the latest. *)
HistoryInv ==
  /\ HistoryTypeOK
  /\ HistoryDistinct
  /\ LatestShown

=============================================================================
