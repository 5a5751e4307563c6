-------------------------------- MODULE Lists --------------------------------
(* GLib's lists: of items, rows, applications, plugins. *)
EXTENDS Naturals, Sequences, FiniteSets

Entries(s) == {s[n] : n \in DOMAIN s}

Once(s) == \A m, n \in DOMAIN s : m # n => s[m] # s[n]

(* The orders in which a hash table can give its elements. *)
Orders(S) == {s \in [1 .. Cardinality(S) -> S] : Once(s) /\ Entries(s) = S}

(* g_list_index *)
At(s, i) == CHOOSE n \in DOMAIN s : s[n] = i /\ \A m \in DOMAIN s : s[m] = i => n <= m

(* g_list_remove, gtk_list_store_remove *)
TakenOut(s, i) ==
  IF \E n \in DOMAIN s : s[n] = i
    THEN [n \in 1 .. Len(s) - 1 |-> IF n < At(s, i) THEN s[n] ELSE s[n + 1]] ELSE s

(* The elements at the places in I, of each beginning of a list and of all of it. *)
Picks(list, I) ==
  LET picked[n \in 0 .. Len(list)] ==
        IF n = 0 THEN <<>> ELSE IF n \in I THEN Append(picked[n - 1], list[n]) ELSE picked[n - 1]
  IN picked

Picked(list, I) == Picks(list, I)[Len(list)]

Among(list, S) == Picked(list, {n \in DOMAIN list : list[n] \in S})
=============================================================================
