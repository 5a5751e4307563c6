--------------------------- MODULE SapwoodServer ---------------------------
(***************************************************************************)
(* The pixmap server of the Sapwood theme engine: one process that loads   *)
(* each theme image once, keeps it in a GCache keyed by file name, and     *)
(* hands the same response to every client that opens the file.  A client  *)
(* connection owns a "cleanup" hash table with one CacheNode per response  *)
(* the client has open; the table is torn down when the client hangs up.   *)
(*                                                                         *)
(* The server is a single-threaded GLib main loop, so the processing of    *)
(* one request (process_buffer) is one atomic step.  Here a client may     *)
(* send any well-formed request in any order; Sapwood.tla composes this    *)
(* module with the clients the theme engine really runs.                   *)
(***************************************************************************)
EXTENDS Naturals, FiniteSets

CONSTANTS
  Clients,   \* processes that may connect to the server
  Files,     \* absolute names of image files
  Ids,       \* addresses a PixbufOpenResponse can be allocated at
  NoId,      \* no response
  MaxOpens,  \* bound: opens of one file by one client (state space only)
  MaxRefs    \* bound: references of one cache entry (state space only)

ASSUME ServerAssumption ==
  /\ IsFiniteSet(Clients)
  /\ NoId \notin Ids
  /\ MaxOpens \in Nat
  /\ MaxRefs \in Nat

VARIABLES
  conn,  \* per client: is it connected to the server
  refs,  \* per file: ref_count of its GCache entry, 0 when it has none
  rep,   \* per file: the response the cache holds for it
  nodes  \* per client, per response id: refcnt of its CacheNode, 0 when none

serverVars == <<conn, refs, rep, nodes>>

ServerTypeOK ==
  /\ conn \in [Clients -> BOOLEAN]
  /\ refs \in [Files -> Nat]
  /\ rep \in [Files -> Ids \union {NoId}]
  /\ nodes \in [Clients -> [Ids -> Nat]]

NoNodes == [i \in Ids |-> 0]

ServerInit ==
  /\ conn = [c \in Clients |-> FALSE]
  /\ refs = [f \in Files |-> 0]
  /\ rep = [f \in Files |-> NoId]
  /\ nodes = [c \in Clients |-> NoNodes]

Cached(f) == refs[f] > 0

(* Clients whose cleanup table has a node for the response of file f. *)
Holders(f) == {c \in Clients : rep[f] \in Ids /\ nodes[c][rep[f]] > 0}

(* Addresses malloc may return for a new response: no live one has them. *)
FreeIds == {i \in Ids : \A f \in Files : rep[f] # i}

-----------------------------------------------------------------------------
(***************************************************************************)
(* GCache, as the server uses it.  Inserting a key that is present only    *)
(* takes a reference; removing a value drops one and destroys the entry    *)
(* when none is left.  One call removes each value of the set gone once.   *)
(***************************************************************************)
(* Mutant: a key that is present gains no reference. *)
CacheInsertNoRef(f, i) ==
  /\ refs' = [refs EXCEPT ![f] = 1]
  /\ rep' = [rep EXCEPT ![f] = i]

CacheInsert(f, i) ==
  /\ refs' = [refs EXCEPT ![f] = @ + 1]
  /\ rep' = [rep EXCEPT ![f] = i]

(* Mutant: the entry goes with its first reference. *)
CacheRemoveAtOnce(gone) ==
  LET left == [f \in Files |-> IF rep[f] \in gone THEN 0 ELSE refs[f]]
  IN  /\ refs' = left
      /\ rep' = [f \in Files |-> IF left[f] = 0 THEN NoId ELSE rep[f]]

CacheRemove(gone) ==
  LET left == [f \in Files |-> IF rep[f] \in gone THEN refs[f] - 1 ELSE refs[f]]
  IN  /\ refs' = left
      /\ rep' = [f \in Files |-> IF left[f] = 0 THEN NoId ELSE rep[f]]

-----------------------------------------------------------------------------
(***************************************************************************)
(* The operations of the server, one per outcome.                          *)
(***************************************************************************)

(* main_sock_callback: accept, and an empty cleanup table. *)
AcceptClient(c) ==
  /\ ~conn[c]
  /\ conn' = [conn EXCEPT ![c] = TRUE]
  /\ nodes' = [nodes EXCEPT ![c] = NoNodes]
  /\ UNCHANGED <<refs, rep>>

(* The open gets response i: the one in the cache, or a newly loaded one.  *)
(* g_cache_insert takes one more reference of the entry on every open.     *)
OpenAs(c, f, i) ==
  /\ conn[c]
  /\ IF Cached(f) THEN i = rep[f] ELSE i \in FreeIds
  /\ CacheInsert(f, i)
  /\ nodes' = [nodes EXCEPT ![c][i] = @ + 1]
  /\ UNCHANGED conn

(* gdk_pixbuf_new_from_file failed: the NULL entry is inserted and removed *)
(* again in the same call, and the reply is the one-byte error.            *)
OpenFails(c, f) ==
  /\ conn[c]
  /\ ~Cached(f)
  /\ UNCHANGED serverVars

(* The node loses one reference; only the last one removes the node from   *)
(* the table, whose destroy function drops one reference of the cache.     *)
CloseId(c, i) ==
  /\ conn[c]
  /\ nodes[c][i] > 0
  /\ nodes' = [nodes EXCEPT ![c][i] = @ - 1]
  /\ IF nodes[c][i] = 1 THEN CacheRemove({i}) ELSE UNCHANGED <<refs, rep>>
  /\ UNCHANGED conn

(* "close failed, no such pixmap" *)
CloseUnknown(c, i) ==
  /\ conn[c]
  /\ nodes[c][i] = 0
  /\ UNCHANGED serverVars

(* Mutant: the table is dropped without the destroy function of its nodes. *)
ClientRemovedLeaks(c) ==
  /\ conn[c]
  /\ conn' = [conn EXCEPT ![c] = FALSE]
  /\ nodes' = [nodes EXCEPT ![c] = NoNodes]
  /\ UNCHANGED <<refs, rep>>

(* The callback saw G_IO_HUP and returned FALSE; client_sock_removed       *)
(* destroys the cleanup table, and with it every node, whatever its refcnt.*)
ClientRemoved(c) ==
  /\ conn[c]
  /\ conn' = [conn EXCEPT ![c] = FALSE]
  /\ nodes' = [nodes EXCEPT ![c] = NoNodes]
  /\ CacheRemove({i \in Ids : nodes[c][i] > 0})

-----------------------------------------------------------------------------
ServerOpen(c, f) ==
  /\ refs[f] < MaxRefs
  /\ \E i \in Ids : nodes[c][i] < MaxOpens /\ OpenAs(c, f, i)

ServerNext ==
  \E c \in Clients :
    \/ AcceptClient(c)
    \/ \E f \in Files : ServerOpen(c, f) \/ OpenFails(c, f)
    \/ \E i \in Ids : CloseId(c, i) \/ CloseUnknown(c, i)
    \/ ClientRemoved(c)

ServerSpec == ServerInit /\ [][ServerNext]_serverVars
-----------------------------------------------------------------------------
(***************************************************************************)
(* What the reference counting must guarantee.                             *)
(***************************************************************************)

(* Every response a client still has open is in the cache: no close and no *)
(* disconnect of one client frees the pixmaps another client has open, and *)
(* cleanup_pixmap_destroy never follows a pointer to a freed response.     *)
OpenResponsesCached ==
  \A c \in Clients, i \in Ids :
    nodes[c][i] > 0 => \E f \in Files : rep[f] = i /\ Cached(f)

(* An entry has at least one reference for each connection that has it     *)
(* open, so it outlives all of them but the last.                          *)
RefsCoverHolders ==
  \A f \in Files : Cardinality(Holders(f)) <= refs[f]

(* "reference counted between clients" (HACKING:231): an entry that no     *)
(* connected client has open is not in the cache any more.  process_buffer *)
(* takes a cache reference for every open but drops one per node.          *)
UnusedImagesReleased ==
  \A f \in Files : Cached(f) => Holders(f) # {}

(* One response per file, a distinct one for each; an entry exists exactly *)
(* as long as it has references.                                           *)
CacheConsistent ==
  /\ \A f \in Files : Cached(f) <=> rep[f] \in Ids
  /\ \A f, g \in Files : rep[f] = rep[g] /\ rep[f] \in Ids => f = g

(* The inductive invariant. *)
ServerInv ==
  /\ ServerTypeOK
  /\ CacheConsistent
  /\ OpenResponsesCached
  /\ RefsCoverHolders
=============================================================================
