-------------------------- MODULE Sapwood_proofs --------------------------
(***************************************************************************)
(* Proofs about the pixmap server and its clients, for any number of       *)
(* clients, files and response addresses.  First the server alone: the     *)
(* reference counts of the cache and the cleanup tables of the clients     *)
(* agree, whatever the clients send and whenever they hang up.  Then the   *)
(* server with the clients of the theme engine and the X server: nobody    *)
(* uses a pixmap that is gone, and together they implement SharedImages.   *)
(***************************************************************************)
EXTENDS Sapwood, FiniteSetTheorems, SequenceTheorems, TLAPS

(* The holders of a file are finitely many. *)
LEMMA HoldersFinite ==
  ASSUME NEW f \in Files
  PROVE  IsFiniteSet(Holders(f)) /\ Cardinality(Holders(f)) \in Nat
<1>1. Holders(f) \subseteq Clients
  BY DEF Holders
<1>2. IsFiniteSet(Holders(f))
  BY <1>1, ServerAssumption, FS_Subset
<1> QED
  BY <1>2, FS_CardinalityType

(* Two connections that have the same file open account for two references.*)
LEMMA TwoHolders ==
  ASSUME RefsCoverHolders, NEW f \in Files, refs[f] \in Nat,
         NEW c \in Holders(f), NEW d \in Holders(f), c # d
  PROVE  refs[f] >= 2
<1>1. Cardinality({c, d}) = 2
  <2>1. IsFiniteSet({c}) /\ Cardinality({c}) = 1
    BY FS_Singleton
  <2>2. Cardinality({c} \union {d}) = Cardinality({c}) + 1
    <3>1. d \notin {c}
      OBVIOUS
    <3> QED
      BY <2>1, <3>1, FS_AddElement
  <2>3. {c} \union {d} = {c, d}
    OBVIOUS
  <2> QED
    BY <2>1, <2>2, <2>3
<1>2. {c, d} \subseteq Holders(f)
  OBVIOUS
<1>3. 2 <= Cardinality(Holders(f))
  BY <1>1, <1>2, HoldersFinite, FS_Subset
<1> QED
  BY <1>3, HoldersFinite DEF RefsCoverHolders

(* Dropping the nodes of a set of responses of one client, and one cache   *)
(* reference for each, keeps the invariant: CloseId drops one response,    *)
(* ClientRemoved all that the client has.                                  *)
LEMMA DropKeepsInv ==
  ASSUME ServerInv,
         NEW c \in Clients, NEW gone \in SUBSET Ids,
         \A i \in gone : nodes[c][i] > 0,
         conn' \in [Clients -> BOOLEAN],
         nodes' \in [Clients -> [Ids -> Nat]],
         \A i \in Ids : nodes'[c][i] > 0 <=> nodes[c][i] > 0 /\ i \notin gone,
         \A d \in Clients \ {c} : nodes'[d] = nodes[d],
         CacheRemove(gone)
  PROVE  ServerInv'
<1> USE ServerAssumption
<1>1. \A f \in Files : rep[f] \in gone => refs[f] \in Nat /\ refs[f] > 0
  BY DEF ServerInv, ServerTypeOK, CacheConsistent, Cached
<1>2. \A f \in Files : /\ refs'[f] = IF rep[f] \in gone THEN refs[f] - 1 ELSE refs[f]
                       /\ rep'[f] = IF refs'[f] = 0 THEN NoId ELSE rep[f]
  BY DEF CacheRemove
<1>3. ServerTypeOK'
  <2>1. refs' \in [Files -> Nat]
    BY <1>1 DEF CacheRemove, ServerInv, ServerTypeOK
  <2>2. rep' \in [Files -> Ids \union {NoId}]
    BY DEF CacheRemove, ServerInv, ServerTypeOK
  <2> QED
    BY <2>1, <2>2 DEF ServerTypeOK
<1>4. CacheConsistent'
  BY <1>1, <1>2, <1>3 DEF ServerInv, ServerTypeOK, CacheConsistent, Cached
<1>5. OpenResponsesCached'
  <2> SUFFICES ASSUME NEW d \in Clients, NEW i \in Ids, nodes'[d][i] > 0
               PROVE  \E f \in Files : rep'[f] = i /\ refs'[f] > 0
    BY DEF OpenResponsesCached, Cached
  <2>1. nodes[d][i] > 0
    BY DEF ServerInv, ServerTypeOK
  <2>2. PICK f \in Files : rep[f] = i /\ refs[f] > 0
    BY <2>1 DEF ServerInv, OpenResponsesCached, Cached
  <2>3. refs[f] \in Nat
    BY DEF ServerInv, ServerTypeOK
  <2>4. CASE i \notin gone
    BY <2>2, <2>3, <2>4, <1>2
  <2>5. CASE i \in gone
    <3>1. d # c /\ nodes[c][i] > 0
      BY <2>5
    <3>2. c \in Holders(f) /\ d \in Holders(f)
      BY <2>1, <2>2, <3>1 DEF Holders
    <3>3. refs[f] >= 2
      BY <3>1, <3>2, <2>3, TwoHolders DEF ServerInv
    <3> QED
      BY <2>2, <2>3, <2>5, <3>3, <1>2
  <2> QED
    BY <2>4, <2>5
<1>6. RefsCoverHolders'
  <2> SUFFICES ASSUME NEW f \in Files
               PROVE  Cardinality(Holders(f)') <= refs'[f]
    BY DEF RefsCoverHolders
  <2>1. /\ refs[f] \in Nat /\ refs'[f] \in Nat
        /\ Cardinality(Holders(f)) \in Nat
        /\ Cardinality(Holders(f)) <= refs[f]
    BY <1>3, HoldersFinite DEF ServerInv, ServerTypeOK, RefsCoverHolders
  <2>2. Holders(f)' \subseteq Holders(f)
    <3> SUFFICES ASSUME NEW d \in Clients, rep'[f] \in Ids, nodes'[d][rep'[f]] > 0
                 PROVE  rep[f] \in Ids /\ nodes[d][rep[f]] > 0
      BY DEF Holders
    <3>1. rep[f] = rep'[f]
      BY <1>2
    <3> QED
      BY <3>1
  <2>3. CASE rep[f] \notin gone
    <3>1. Cardinality(Holders(f)') <= Cardinality(Holders(f)) /\ Cardinality(Holders(f)') \in Nat
      BY <2>2, HoldersFinite, FS_Subset, FS_CardinalityType
    <3> QED
      BY <3>1, <2>1, <2>3, <1>2
  <2>4. CASE rep[f] \in gone
    <3>1. c \in Holders(f)
      BY <2>4 DEF Holders
    <3>2. c \notin Holders(f)'
      BY <1>2, <2>4 DEF Holders
    <3>3. Holders(f)' \subseteq Holders(f) \ {c}
      BY <2>2, <3>2
    <3>4. /\ IsFiniteSet(Holders(f) \ {c})
          /\ Cardinality(Holders(f) \ {c}) = Cardinality(Holders(f)) - 1
      BY <3>1, HoldersFinite, FS_RemoveElement
    <3>5. /\ Cardinality(Holders(f)') \in Nat
          /\ Cardinality(Holders(f)') <= Cardinality(Holders(f) \ {c})
      BY <3>3, <3>4, FS_Subset, FS_CardinalityType
    <3> QED
      BY <3>4, <3>5, <2>1, <2>4, <1>2
  <2> QED
    BY <2>3, <2>4
<1> QED
  BY <1>3, <1>4, <1>5, <1>6 DEF ServerInv

(* An open keeps the invariant: the entry gets one reference, the client   *)
(* at most becomes one holder more.                                        *)
LEMMA OpenKeepsInv ==
  ASSUME ServerInv,
         NEW c \in Clients, NEW f \in Files, NEW i \in Ids,
         OpenAs(c, f, i)
  PROVE  ServerInv'
<1> USE ServerAssumption DEF ServerInv, ServerTypeOK
<1>1. /\ refs' = [refs EXCEPT ![f] = @ + 1]
      /\ rep' = [rep EXCEPT ![f] = i]
      /\ nodes' = [nodes EXCEPT ![c][i] = @ + 1]
      /\ conn' = conn
  BY DEF OpenAs, CacheInsert
<1>2. Cached(f) => rep[f] = i
  BY DEF OpenAs
<1>3. ~Cached(f) => \A g \in Files : rep[g] # i
  BY DEF OpenAs, FreeIds
<1>4. ServerTypeOK'
  BY <1>1
<1>5. \A d \in Clients, j \in Ids : nodes[d][j] > 0 => nodes'[d][j] > 0
  BY <1>1
<1>6. \A d \in Clients, j \in Ids : nodes'[d][j] > 0 => nodes[d][j] > 0 \/ (d = c /\ j = i)
  BY <1>1
<1>7. CacheConsistent'
  BY <1>1, <1>2, <1>3 DEF CacheConsistent, Cached
<1>8. OpenResponsesCached'
  <2> SUFFICES ASSUME NEW d \in Clients, NEW j \in Ids, nodes'[d][j] > 0
               PROVE  \E g \in Files : rep'[g] = j /\ refs'[g] > 0
    BY DEF OpenResponsesCached, Cached
  <2>1. CASE d = c /\ j = i
    BY <1>1, <2>1
  <2>2. CASE nodes[d][j] > 0
    <3>1. PICK g \in Files : rep[g] = j /\ refs[g] > 0
      BY <2>2 DEF OpenResponsesCached, Cached
    <3>2. rep'[g] = j /\ refs'[g] > 0
      BY <3>1, <1>1, <1>2 DEF Cached
    <3> QED
      BY <3>2
  <2> QED
    BY <1>6, <2>1, <2>2
<1>9. RefsCoverHolders'
  <2> SUFFICES ASSUME NEW g \in Files
               PROVE  Cardinality(Holders(g)') <= refs'[g]
    BY DEF RefsCoverHolders
  <2>1. /\ refs[g] \in Nat
        /\ IsFiniteSet(Holders(g)) /\ Cardinality(Holders(g)) \in Nat
        /\ Cardinality(Holders(g)) <= refs[g]
    BY HoldersFinite DEF RefsCoverHolders
  <2>2. CASE g # f
    <3>1. rep'[g] = rep[g] /\ refs'[g] = refs[g]
      BY <1>1, <2>2
    <3>2. rep[g] \in Ids => rep[g] # i
      <4>1. CASE Cached(f)
        BY <4>1, <1>2, <2>2 DEF CacheConsistent
      <4>2. CASE ~Cached(f)
        BY <4>2, <1>3
      <4> QED
        BY <4>1, <4>2
    <3>3. Holders(g)' = Holders(g)
      BY <3>1, <3>2, <1>1 DEF Holders
    <3> QED
      BY <2>1, <3>1, <3>3
  <2>3. CASE g = f
    <3>0. /\ refs[f] \in Nat
          /\ IsFiniteSet(Holders(f)) /\ Cardinality(Holders(f)) \in Nat
          /\ Cardinality(Holders(f)) <= refs[f]
      BY HoldersFinite DEF RefsCoverHolders
    <3>1. refs'[f] = refs[f] + 1 /\ rep'[f] = i
      BY <1>1
    <3>2. Holders(f)' \subseteq Holders(f) \union {c}
      <4> SUFFICES ASSUME NEW d \in Clients, nodes'[d][i] > 0, d # c
                   PROVE  d \in Holders(f)
        BY <3>1 DEF Holders
      <4>1. nodes[d][i] > 0
        BY <1>6
      <4>2. rep[f] = i
        BY <4>1, <1>2, <1>3 DEF OpenResponsesCached
      <4> QED
        BY <4>1, <4>2 DEF Holders
    <3>3. IsFiniteSet(Holders(f) \union {c})
      BY <3>0, FS_AddElement
    <3>4. /\ Cardinality(Holders(f) \union {c}) \in Nat
          /\ Cardinality(Holders(f) \union {c}) <= Cardinality(Holders(f)) + 1
      <4>1. CASE c \in Holders(f)
        <5>1. Holders(f) \union {c} = Holders(f)
          BY <4>1
        <5>2. Cardinality(Holders(f) \union {c}) = Cardinality(Holders(f))
          BY <5>1, Zenon
        <5> QED
          BY <5>2, <3>0
      <4>2. CASE c \notin Holders(f)
        <5>1. Cardinality(Holders(f) \union {c}) = Cardinality(Holders(f)) + 1
          BY <4>2, <3>0, FS_AddElement
        <5> QED
          BY <5>1, <3>0
      <4> QED
        BY <4>1, <4>2
    <3>5. /\ Cardinality(Holders(f)') \in Nat
          /\ Cardinality(Holders(f)') <= Cardinality(Holders(f) \union {c})
      BY <3>2, <3>3, FS_Subset, FS_CardinalityType
    <3> QED
      BY <3>1, <3>4, <3>5, <3>0, <2>3
  <2> QED
    BY <2>2, <2>3
<1> QED
  BY <1>4, <1>7, <1>8, <1>9

-----------------------------------------------------------------------------
(* No connection, an empty cache: the invariant holds initially. *)
LEMMA ServerInitInv == ServerInit => ServerInv
<1> SUFFICES ASSUME ServerInit PROVE ServerInv
  OBVIOUS
<1> USE ServerAssumption DEF ServerInit, NoNodes
<1>1. ServerTypeOK
  BY DEF ServerTypeOK
<1>2. CacheConsistent
  BY DEF CacheConsistent, Cached
<1>3. OpenResponsesCached
  BY DEF OpenResponsesCached
<1>4. RefsCoverHolders
  <2> SUFFICES ASSUME NEW f \in Files PROVE Cardinality(Holders(f)) <= refs[f]
    BY DEF RefsCoverHolders
  <2>1. Holders(f) = {}
    BY DEF Holders
  <2> QED
    BY <2>1, FS_EmptySet
<1> QED
  BY <1>1, <1>2, <1>3, <1>4 DEF ServerInv

(* A new connection holds nothing. *)
LEMMA AcceptKeepsInv ==
  ASSUME ServerInv, NEW c \in Clients, AcceptClient(c)
  PROVE  ServerInv'
<1> USE ServerAssumption
<1>1. /\ conn' \in [Clients -> BOOLEAN]
      /\ nodes' \in [Clients -> [Ids -> Nat]]
      /\ refs' = refs /\ rep' = rep
  BY DEF AcceptClient, ServerInv, ServerTypeOK, NoNodes
<1>2. \A d \in Clients, i \in Ids : nodes'[d][i] > 0 => nodes[d][i] > 0
  BY DEF AcceptClient, ServerInv, ServerTypeOK, NoNodes
<1>3. RefsCoverHolders'
  <2> SUFFICES ASSUME NEW f \in Files
               PROVE  Cardinality(Holders(f)') <= refs[f]
    BY <1>1 DEF RefsCoverHolders
  <2>1. Holders(f)' \subseteq Holders(f)
    BY <1>1, <1>2 DEF Holders
  <2>2. Cardinality(Holders(f)') \in Nat /\ Cardinality(Holders(f)') <= Cardinality(Holders(f))
    BY <2>1, HoldersFinite, FS_Subset, FS_CardinalityType
  <2> QED
    BY <2>2, HoldersFinite DEF ServerInv, ServerTypeOK, RefsCoverHolders
<1>4. OpenResponsesCached'
  BY <1>1, <1>2 DEF ServerInv, OpenResponsesCached, Cached
<1> QED
  BY <1>1, <1>3, <1>4 DEF ServerInv, ServerTypeOK, CacheConsistent, Cached

(* A close drops a reference of the entry with the last one of the node. *)
LEMMA CloseKeepsInv ==
  ASSUME ServerInv, NEW c \in Clients, NEW i \in Ids, CloseId(c, i)
  PROVE  ServerInv'
<1> USE ServerAssumption
<1>1. /\ conn' = conn
      /\ nodes[c][i] > 0
      /\ nodes' = [nodes EXCEPT ![c][i] = @ - 1]
  BY DEF CloseId
<1>2. nodes' \in [Clients -> [Ids -> Nat]] /\ nodes'[c][i] = nodes[c][i] - 1
  BY <1>1 DEF ServerInv, ServerTypeOK
<1>3. CASE nodes[c][i] = 1
  <2>1. CacheRemove({i})
    BY <1>3 DEF CloseId
  <2>2. \A j \in Ids : nodes'[c][j] > 0 <=> nodes[c][j] > 0 /\ j \notin {i}
    BY <1>1, <1>2, <1>3 DEF ServerInv, ServerTypeOK
  <2>3. \A d \in Clients \ {c} : nodes'[d] = nodes[d]
    BY <1>1 DEF ServerInv, ServerTypeOK
  <2>4. conn' \in [Clients -> BOOLEAN]
    BY <1>1 DEF ServerInv, ServerTypeOK
  <2>5. {i} \in SUBSET Ids /\ \A j \in {i} : nodes[c][j] > 0
    BY <1>1
  <2> QED
    BY <1>2, <2>1, <2>2, <2>3, <2>4, <2>5, DropKeepsInv
<1>4. CASE nodes[c][i] # 1
  <2>1. refs' = refs /\ rep' = rep
    BY <1>4 DEF CloseId
  <2>2. \A d \in Clients, j \in Ids : nodes'[d][j] > 0 <=> nodes[d][j] > 0
    BY <1>1, <1>4 DEF ServerInv, ServerTypeOK
  <2>3. \A f \in Files : Holders(f)' = Holders(f)
    BY <2>1, <2>2 DEF Holders
  <2>4. RefsCoverHolders'
    BY <2>1, <2>3 DEF ServerInv, RefsCoverHolders
  <2> QED
    BY <1>1, <1>2, <2>1, <2>2, <2>4
    DEF ServerInv, ServerTypeOK, CacheConsistent, Cached, OpenResponsesCached
<1> QED
  BY <1>3, <1>4

(* A hang-up drops one reference for each node of the client. *)
LEMMA HangUpKeepsInv ==
  ASSUME ServerInv, NEW c \in Clients, ClientRemoved(c)
  PROVE  ServerInv'
<1> USE ServerAssumption
<1> DEFINE gone == {i \in Ids : nodes[c][i] > 0}
<1>1. /\ nodes' \in [Clients -> [Ids -> Nat]]
      /\ conn' \in [Clients -> BOOLEAN]
      /\ \A d \in Clients \ {c} : nodes'[d] = nodes[d]
      /\ \A i \in Ids : nodes'[c][i] = 0
  BY DEF ClientRemoved, ServerInv, ServerTypeOK, NoNodes
<1>2. CacheRemove(gone)
  BY DEF ClientRemoved
<1>3. \A i \in Ids : nodes'[c][i] > 0 <=> nodes[c][i] > 0 /\ i \notin gone
  BY <1>1
<1>4. gone \in SUBSET Ids /\ \A i \in gone : nodes[c][i] > 0
  OBVIOUS
<1> HIDE DEF gone
<1> QED
  BY <1>1, <1>2, <1>3, <1>4, DropKeepsInv

(* A step that changes nothing of the server. *)
LEMMA ServerStutterKeepsInv == ServerInv /\ UNCHANGED serverVars => ServerInv'
BY DEF serverVars, ServerInv, ServerTypeOK, CacheConsistent, Cached,
       OpenResponsesCached, RefsCoverHolders, Holders

(* Every operation of the server preserves the invariant. *)
LEMMA ServerNextInv == ServerInv /\ [ServerNext]_serverVars => ServerInv'
<1> SUFFICES ASSUME ServerInv, [ServerNext]_serverVars PROVE ServerInv'
  OBVIOUS
<1>1. ASSUME NEW c \in Clients, NEW f \in Files, ServerOpen(c, f) PROVE ServerInv'
  BY <1>1, OpenKeepsInv DEF ServerOpen
<1>2. CASE UNCHANGED serverVars
  BY <1>2, ServerStutterKeepsInv
<1> QED
  BY <1>1, <1>2, AcceptKeepsInv, CloseKeepsInv, HangUpKeepsInv
  DEF ServerNext, OpenFails, CloseUnknown

(* Whatever its clients send, the server's reference counts stay sound. *)
THEOREM ServerInvariant == ServerSpec => []ServerInv
<1> QED
  BY ServerInitInv, ServerNextInv, PTL DEF ServerSpec

(* No close and no hang-up of one client frees what another has open. *)
THEOREM OpenResponsesStayCached == ServerSpec => []OpenResponsesCached
<1>1. ServerInv => OpenResponsesCached
  BY DEF ServerInv
<1> QED
  BY <1>1, ServerInvariant, PTL

(* A cache entry is referenced at least once for every holder. *)
THEOREM RefsAlwaysCoverHolders == ServerSpec => []RefsCoverHolders
<1>1. ServerInv => RefsCoverHolders
  BY DEF ServerInv
<1> QED
  BY <1>1, ServerInvariant, PTL

-----------------------------------------------------------------------------
(***************************************************************************)
(* The server with the clients of the theme engine.  The inductive         *)
(* invariant says for each client what its requests under way, its         *)
(* handles, its reply and its nodes in the server have to do with each     *)
(* other.                                                                  *)
(***************************************************************************)

Pending(c, req) == \E k \in 1 .. Len(sock[c]) : sock[c][k] = req

(* A process that ended keeps nothing but what it had written; a           *)
(* connection has a socket, and nodes are those of connections.            *)
LinksAgree(c) ==
  /\ conn[c] => linked[c]
  /\ ~conn[c] => nodes[c] = NoNodes
  /\ ~linked[c] => sock[c] = <<>>
  /\ ~up[c] => /\ reply[c] = NoId
               /\ waiting[c] = NoFile
               /\ handle[c] = NoHandles

(* A client blocks after an open: nothing comes behind it.                 *)
OpenComesLast(c) ==
  \A k \in 1 .. Len(sock[c]), f \in Files :
    sock[c][k] = Open(f) => k = Len(sock[c]) /\ (up[c] => waiting[c] = f)

(* The reply is the one the client waits for.                              *)
ReplyMeant(c) ==
  reply[c] # NoId =>
    /\ sock[c] = <<>>
    /\ waiting[c] \in Files
    /\ reply[c] \in Ids => rep[waiting[c]] = reply[c] /\ nodes[c][reply[c]] > 0

(* A handle is the response the server has for the file; only what has a   *)
(* handle is painted with.                                                 *)
HandlesMeant(c) ==
  /\ waiting[c] \in Files => handle[c][waiting[c]] = NoId
  /\ \A f \in Files : handle[c][f] # NoId =>
       rep[f] = handle[c][f] /\ nodes[c][handle[c][f]] > 0
  /\ \A p \in painting[c] : \E f \in Files : handle[c][f] = p

(* A close names a node, once, whose handle is gone.                       *)
ClosesMeant(c) ==
  \A k \in 1 .. Len(sock[c]), i \in Ids :
    sock[c][k] = Close(i) =>
      /\ nodes[c][i] > 0
      /\ \A f \in Files : handle[c][f] # i
      /\ \A m \in 1 .. Len(sock[c]) : sock[c][m] = Close(i) => m = k

(* A node has one reference, which a handle, the reply or a close of its   *)
(* client accounts for.                                                    *)
NodesAccounted(c) ==
  \A i \in Ids : nodes[c][i] > 0 =>
    /\ nodes[c][i] = 1
    /\ up[c] => \/ reply[c] = i
                \/ Pending(c, Close(i))
                \/ \E f \in Files : handle[c][f] = i

(* A file is opened again only behind the close of it.                     *)
OpensFresh(c) ==
  \A f \in Files :
    Pending(c, Open(f)) /\ c \in Holders(f) => Pending(c, Close(rep[f]))

ClientIInv(c) ==
  /\ LinksAgree(c)
  /\ OpenComesLast(c)
  /\ ReplyMeant(c)
  /\ HandlesMeant(c)
  /\ ClosesMeant(c)
  /\ NodesAccounted(c)
  /\ OpensFresh(c)

RefsExact == \A f \in Files : refs[f] = Cardinality(Holders(f))
PixmapsThere == \A f \in Files : Cached(f) => rep[f] \in xpixmaps \ freeing

SapwoodIInv ==
  /\ SapwoodTypeOK
  /\ ServerInv
  /\ RefsExact
  /\ PixmapsThere
  /\ \A c \in Clients : ClientIInv(c)

(* Requests are opens and closes, and their argument tells them apart.     *)
LEMMA RequestFact ==
  /\ \A r \in Requests : r.op = "open" => r.file \in Files /\ r = Open(r.file)
  /\ \A r \in Requests : r.op = "close" => r.id \in Ids /\ r = Close(r.id)
  /\ \A f \in Files : Open(f) \in Requests
  /\ \A i \in Ids : Close(i) \in Requests
  /\ \A f, i : Open(f) # Close(i)
  /\ \A f, g : Open(f) = Open(g) => f = g
  /\ \A i, j : Close(i) = Close(j) => i = j
<1>1. /\ \A f : Open(f).op = "open" /\ Open(f).file = f
      /\ \A i : Close(i).op = "close" /\ Close(i).id = i
  BY DEF Open, Close
<1>2. "open" # "close"
  OBVIOUS
<1> HIDE DEF Open, Close
<1>3. \A f, i : Open(f) # Close(i)
  BY <1>1, <1>2
<1> QED
  BY <1>1, <1>2, <1>3 DEF Requests

(* What sending and processing do to the queue of requests.                *)
LEMMA SendFact ==
  ASSUME NEW q \in Seq(Requests), NEW r \in Requests
  PROVE  /\ Append(q, r) \in Seq(Requests)
         /\ Len(Append(q, r)) = Len(q) + 1
         /\ \A k \in 1 .. Len(q) : Append(q, r)[k] = q[k]
         /\ Append(q, r)[Len(q) + 1] = r
OBVIOUS

LEMMA TakeFact ==
  ASSUME NEW q \in Seq(Requests), q # <<>>
  PROVE  /\ Tail(q) \in Seq(Requests)
         /\ Len(q) >= 1 /\ Len(q) \in Nat
         /\ Len(Tail(q)) = Len(q) - 1
         /\ \A k \in 1 .. Len(Tail(q)) : k + 1 \in 1 .. Len(q) /\ Tail(q)[k] = q[k + 1]
         /\ \A k \in 1 .. Len(q) : k # 1 => k - 1 \in 1 .. Len(Tail(q)) /\ q[k] = Tail(q)[k - 1]
         /\ Head(q) = q[1] /\ Head(q) \in Requests /\ 1 \in 1 .. Len(q)
OBVIOUS

(* The inductive invariant contains what the runs check. *)
LEMMA IInvSafe == SapwoodIInv => SapwoodInv
<1> SUFFICES ASSUME SapwoodIInv PROVE SapwoodInv
  OBVIOUS
<1> USE ServerAssumption, SapwoodAssumption
<1>0. /\ \A c \in Clients : ClientIInv(c)
      /\ SapwoodTypeOK /\ CacheConsistent
      /\ \A f \in Files : rep[f] \in Ids => rep[f] \in xpixmaps \ freeing
  BY DEF SapwoodIInv, ServerInv, PixmapsThere, CacheConsistent
<1>1. HandlesLive
  <2> SUFFICES ASSUME NEW c \in Clients, NEW f \in Files, handle[c][f] # NoId
               PROVE  /\ rep[f] = handle[c][f]
                      /\ nodes[c][rep[f]] = 1
                      /\ rep[f] \in xpixmaps \ freeing
    BY DEF HandlesLive
  <2>1. rep[f] = handle[c][f] /\ nodes[c][handle[c][f]] > 0
    BY <1>0 DEF ClientIInv, HandlesMeant
  <2>2. handle[c][f] \in Ids
    BY <1>0 DEF SapwoodTypeOK
  <2>3. nodes[c][rep[f]] = 1
    BY <1>0, <2>1, <2>2 DEF ClientIInv, NodesAccounted
  <2> QED
    BY <1>0, <2>1, <2>2, <2>3
<1>2. NoBadPixmap
  <2> SUFFICES ASSUME NEW c \in Clients, NEW p \in painting[c] PROVE p \in xpixmaps
    BY DEF NoBadPixmap
  <2>1. p \in Ids
    BY <1>0 DEF SapwoodTypeOK
  <2>2. PICK f \in Files : handle[c][f] = p
    BY <1>0 DEF ClientIInv, HandlesMeant
  <2> QED
    BY <1>1, <2>1, <2>2 DEF HandlesLive
<1>3. RepliesUsable
  BY <1>0 DEF RepliesUsable, ClientIInv, ReplyMeant
<1>4. ClosesKnown
  <2> SUFFICES ASSUME NEW c \in Clients, NEW k \in 1 .. MaxQueue,
                      k <= Len(sock[c]), sock[c][k].op = "close"
               PROVE  conn[c] /\ nodes[c][sock[c][k].id] > 0
    BY DEF ClosesKnown
  <2>1. sock[c] \in Seq(Requests) /\ k \in 1 .. Len(sock[c]) /\ sock[c][k] \in Requests
    BY <1>0 DEF SapwoodTypeOK
  <2>2. sock[c][k].id \in Ids /\ sock[c][k] = Close(sock[c][k].id)
    BY <2>1, RequestFact
  <2>3. nodes[c][sock[c][k].id] > 0
    BY <1>0, <2>1, <2>2 DEF ClientIInv, ClosesMeant
  <2>4. conn[c]
    BY <1>0, <2>2, <2>3 DEF ClientIInv, LinksAgree, NoNodes
  <2> QED
    BY <2>3, <2>4
<1> QED
  BY <1>0, <1>1, <1>2, <1>3, <1>4 DEF SapwoodInv

(* No client, no image: the invariant holds initially. *)
LEMMA SapwoodInitIInv == SapwoodInit => SapwoodIInv
<1> SUFFICES ASSUME SapwoodInit PROVE SapwoodIInv
  OBVIOUS
<1> USE ServerAssumption, SapwoodAssumption DEF SapwoodInit
<1>1. ServerInv
  BY ServerInitInv
<1>2. SapwoodTypeOK
  BY <1>1 DEF SapwoodTypeOK, ServerInv, NoHandles
<1>3. RefsExact
  <2> SUFFICES ASSUME NEW f \in Files PROVE refs[f] = Cardinality(Holders(f))
    BY DEF RefsExact
  <2>1. Holders(f) = {} /\ refs[f] = 0
    BY DEF Holders, ServerInit
  <2> QED
    BY <2>1, FS_EmptySet
<1>4. PixmapsThere
  BY DEF PixmapsThere, Cached, ServerInit
<1>5. ASSUME NEW c \in Clients PROVE ClientIInv(c)
  <2>1. /\ Len(sock[c]) = 0 /\ reply[c] = NoId /\ waiting[c] = NoFile /\ sock[c] = <<>>
        /\ handle[c] = NoHandles /\ painting[c] = {} /\ nodes[c] = NoNodes
        /\ ~conn[c] /\ ~up[c]
    BY DEF ServerInit
  <2> QED
    BY <2>1 DEF ClientIInv, LinksAgree, OpenComesLast, ReplyMeant, HandlesMeant,
       ClosesMeant, NodesAccounted, OpensFresh, Pending, NoHandles, NoNodes
<1> QED
  BY <1>1, <1>2, <1>3, <1>4, <1>5 DEF SapwoodIInv

(* Nothing of client d changes. *)
Unmoved(d) ==
  /\ conn'[d] = conn[d] /\ nodes'[d] = nodes[d] /\ linked'[d] = linked[d]
  /\ sock'[d] = sock[d] /\ up'[d] = up[d] /\ reply'[d] = reply[d]
  /\ waiting'[d] = waiting[d] /\ handle'[d] = handle[d] /\ painting'[d] = painting[d]

(* Entries come with new addresses and go, but do not change hands. *)
EntriesKept ==
  \A f \in Files : \/ rep'[f] = rep[f]
                   \/ rep'[f] = NoId
                   \/ \A g \in Files : rep[g] # rep'[f]

(* What a client has open stays where it is while others act. *)
LEMMA NodesKeepFile ==
  ASSUME ServerInv, ServerInv', EntriesKept, NEW d \in Clients,
         NEW i \in Ids, nodes[d][i] > 0, nodes'[d][i] > 0, NEW f \in Files
  PROVE  rep'[f] = i <=> rep[f] = i
<1> USE ServerAssumption DEF ServerInv
<1>1. PICK g \in Files : rep'[g] = i
  BY DEF OpenResponsesCached
<1>2. PICK h \in Files : rep[h] = i
  BY DEF OpenResponsesCached
<1>3. rep[g] = i
  BY <1>1, <1>2 DEF EntriesKept
<1>4. rep[f] = i => f = g
  BY <1>3 DEF CacheConsistent
<1>5. rep'[f] = i => f = g
  BY <1>1 DEF CacheConsistent
<1> QED
  BY <1>1, <1>3, <1>4, <1>5

LEMMA OthersKeep ==
  ASSUME SapwoodIInv, ServerInv', EntriesKept, NEW d \in Clients, Unmoved(d)
  PROVE  ClientIInv(d)'
<1> USE ServerAssumption, SapwoodAssumption DEF Unmoved
<1>1. ServerInv /\ ClientIInv(d) /\ SapwoodTypeOK
  BY DEF SapwoodIInv
<1>2. \A i \in Ids, f \in Files : nodes[d][i] > 0 => (rep'[f] = i <=> rep[f] = i)
  BY <1>1, NodesKeepFile
<1>3. LinksAgree(d)' /\ OpenComesLast(d)' /\ ClosesMeant(d)' /\ NodesAccounted(d)'
  BY <1>1 DEF ClientIInv, LinksAgree, OpenComesLast, ClosesMeant, NodesAccounted, Pending
<1>4. ReplyMeant(d)'
  BY <1>1, <1>2 DEF ClientIInv, ReplyMeant
<1>5. HandlesMeant(d)'
  <2>1. \A f \in Files : handle[d][f] # NoId => handle[d][f] \in Ids
    BY <1>1 DEF SapwoodTypeOK
  <2> QED
    BY <1>1, <1>2, <2>1 DEF ClientIInv, HandlesMeant
<1>6. OpensFresh(d)'
  <2> SUFFICES ASSUME NEW f \in Files, Pending(d, Open(f))', (d \in Holders(f))'
               PROVE  Pending(d, Close(rep[f]))'
    BY DEF OpensFresh
  <2>1. rep'[f] \in Ids /\ nodes[d][rep'[f]] > 0
    BY DEF Holders
  <2>2. rep[f] = rep'[f]
    BY <1>2, <2>1
  <2>3. Pending(d, Open(f)) /\ d \in Holders(f)
    BY <2>1, <2>2 DEF Pending, Holders
  <2>4. Pending(d, Close(rep[f]))
    BY <1>1, <2>3 DEF ClientIInv, OpensFresh
  <2> QED
    BY <2>2, <2>4 DEF Pending
<1> QED
  BY <1>3, <1>4, <1>5, <1>6 DEF ClientIInv

(* A step of client c or of the server for it: what is left to show. *)
LEMMA StepOfClient ==
  ASSUME SapwoodIInv, NEW c \in Clients, SapwoodTypeOK', ServerInv', RefsExact',
         PixmapsThere', EntriesKept, ClientIInv(c)',
         \A d \in Clients \ {c} : Unmoved(d)
  PROVE  SapwoodIInv'
<1>1. \A d \in Clients : ClientIInv(d)'
  BY OthersKeep
<1> QED
  BY <1>1 DEF SapwoodIInv

(* A step of client c alone. *)
LEMMA StepOfClientAlone ==
  ASSUME SapwoodIInv, NEW c \in Clients, SapwoodTypeOK', ClientIInv(c)',
         UNCHANGED <<serverVars, xVars>>,
         \A d \in Clients \ {c} : Unmoved(d)
  PROVE  SapwoodIInv'
<1>1. ServerInv'
  BY ServerStutterKeepsInv DEF SapwoodIInv
<1>2. RefsExact' /\ PixmapsThere'
  BY DEF SapwoodIInv, RefsExact, PixmapsThere, serverVars, xVars, Cached, Holders
<1>3. EntriesKept
  BY DEF EntriesKept, serverVars
<1> QED
  BY <1>1, <1>2, <1>3, StepOfClient

-----------------------------------------------------------------------------
(* The steps of the clients. *)

LEMMA StartKeepsIInv ==
  ASSUME SapwoodIInv, NEW c \in Clients, Start(c)
  PROVE  SapwoodIInv'
<1> USE ServerAssumption, SapwoodAssumption DEF Start
<1>1. ClientIInv(c) /\ SapwoodTypeOK
  BY DEF SapwoodIInv
<1>2. SapwoodTypeOK'
  BY <1>1 DEF SapwoodTypeOK, ServerTypeOK, serverVars, xVars
<1>3. /\ ~conn[c] /\ nodes[c] = NoNodes /\ sock[c] = <<>>
      /\ reply[c] = NoId /\ waiting[c] = NoFile /\ handle[c] = NoHandles
  BY <1>1 DEF ClientIInv, LinksAgree
<1>4. Len(sock[c]) = 0 /\ painting[c] = {}
  BY <1>1, <1>3 DEF ClientIInv, HandlesMeant, NoHandles, SapwoodTypeOK
<1>5. ClientIInv(c)'
  BY <1>3, <1>4 DEF ClientIInv, LinksAgree, OpenComesLast, ReplyMeant, HandlesMeant,
     ClosesMeant, NodesAccounted, OpensFresh, Pending, NoHandles, NoNodes,
     Holders, serverVars
<1>6. \A d \in Clients \ {c} : Unmoved(d)
  BY <1>1 DEF Unmoved, serverVars, SapwoodTypeOK
<1> QED
  BY <1>2, <1>5, <1>6, StepOfClientAlone

(* A client that is not blocked has no open under way and no reply. *)
LEMMA ReadyFact ==
  ASSUME SapwoodIInv, NEW c \in Clients, Ready(c)
  PROVE  /\ reply[c] = NoId
         /\ \A k \in 1 .. Len(sock[c]), f \in Files : sock[c][k] # Open(f)
BY SapwoodAssumption DEF SapwoodIInv, ClientIInv, ReplyMeant, OpenComesLast, Ready

LEMMA RequestOpenKeepsIInv ==
  ASSUME SapwoodIInv, NEW c \in Clients, NEW f \in Files, RequestOpen(c, f)
  PROVE  SapwoodIInv'
<1> USE ServerAssumption, SapwoodAssumption DEF RequestOpen, Ready
<1>1. ClientIInv(c) /\ SapwoodTypeOK /\ ServerInv
  BY DEF SapwoodIInv
<1> DEFINE n == Len(sock[c])
<1>2. /\ sock[c] \in Seq(Requests) /\ n \in Nat /\ Open(f) \in Requests
      /\ sock'[c] = Append(sock[c], Open(f))
      /\ sock' \in [Clients -> Seq(Requests)]
  BY <1>1, RequestFact DEF SapwoodTypeOK, Send
<1>3. /\ Len(sock'[c]) = n + 1
      /\ \A k \in 1 .. n : sock'[c][k] = sock[c][k]
      /\ sock'[c][n + 1] = Open(f)
  BY <1>2, SendFact
<1>4. SapwoodTypeOK'
  BY <1>1, <1>2 DEF SapwoodTypeOK, ServerTypeOK, serverVars, xVars
<1>5. /\ reply[c] = NoId
      /\ \A k \in 1 .. n, g \in Files : sock[c][k] # Open(g)
  BY ReadyFact
<1>6. /\ linked'[c] /\ waiting'[c] = f /\ up'[c] /\ reply'[c] = NoId
      /\ handle' = handle /\ painting' = painting /\ nodes' = nodes /\ rep' = rep
      /\ conn' = conn
  BY <1>1, <1>5 DEF SapwoodTypeOK, serverVars
<1>7. LinksAgree(c)' /\ ReplyMeant(c)' /\ HandlesMeant(c)'
  BY <1>1, <1>6 DEF ClientIInv, LinksAgree, ReplyMeant, HandlesMeant
<1>8. OpenComesLast(c)'
  <2> SUFFICES ASSUME NEW k \in 1 .. Len(sock'[c]), NEW g \in Files, sock'[c][k] = Open(g)
               PROVE  k = Len(sock'[c]) /\ (up'[c] => waiting'[c] = g)
    BY DEF OpenComesLast
  <2>1. k = n + 1
    BY <1>2, <1>3, <1>5
  <2> QED
    BY <2>1, <1>3, <1>6, RequestFact
<1>9. ClosesMeant(c)'
  <2> SUFFICES ASSUME NEW k \in 1 .. Len(sock'[c]), NEW i \in Ids, sock'[c][k] = Close(i)
               PROVE  /\ nodes'[c][i] > 0
                      /\ \A g \in Files : handle'[c][g] # i
                      /\ \A m \in 1 .. Len(sock'[c]) : sock'[c][m] = Close(i) => m = k
    BY DEF ClosesMeant
  <2>1. \A m \in 1 .. Len(sock'[c]) :
          sock'[c][m] = Close(i) => m \in 1 .. n /\ sock[c][m] = Close(i)
    BY <1>2, <1>3, RequestFact
  <2>2. /\ nodes[c][i] > 0
        /\ \A g \in Files : handle[c][g] # i
        /\ \A m \in 1 .. n : sock[c][m] = Close(i) => m = k
    BY <1>1, <2>1 DEF ClientIInv, ClosesMeant
  <2> QED
    BY <1>6, <2>1, <2>2
<1>10. \A i \in Ids : Pending(c, Close(i)) => Pending(c, Close(i))'
  BY <1>2, <1>3 DEF Pending
<1>11. NodesAccounted(c)'
  BY <1>1, <1>5, <1>6, <1>10 DEF ClientIInv, NodesAccounted
<1>12. OpensFresh(c)'
  <2> SUFFICES ASSUME NEW g \in Files, Pending(c, Open(g))', (c \in Holders(g))'
               PROVE  Pending(c, Close(rep[g]))'
    BY <1>6 DEF OpensFresh
  <2>1. g = f
    BY <1>2, <1>3, <1>5, RequestFact DEF Pending
  <2>2. rep[f] \in Ids /\ nodes[c][rep[f]] > 0
    BY <1>6, <2>1 DEF Holders
  <2>3. ~ \E h \in Files : handle[c][h] = rep[f]
    <3> SUFFICES ASSUME NEW h \in Files, handle[c][h] = rep[f] PROVE FALSE
      OBVIOUS
    <3>1. rep[h] = rep[f]
      BY <2>2, <1>1 DEF ClientIInv, HandlesMeant
    <3>2. h = f
      BY <3>1, <2>2, <1>1 DEF ServerInv, CacheConsistent
    <3> QED
      BY <3>2, <2>2
  <2>4. Pending(c, Close(rep[f]))
    BY <1>1, <1>5, <2>2, <2>3 DEF ClientIInv, NodesAccounted
  <2> QED
    BY <2>1, <2>2, <2>4, <1>6, <1>10 DEF Pending
<1>13. ClientIInv(c)'
  BY <1>7, <1>8, <1>9, <1>11, <1>12 DEF ClientIInv
<1>14. \A d \in Clients \ {c} : Unmoved(d)
  BY <1>1 DEF Unmoved, serverVars, SapwoodTypeOK, Send
<1> QED
  BY <1>4, <1>13, <1>14, StepOfClientAlone

LEMMA TakeReplyKeepsIInv ==
  ASSUME SapwoodIInv, NEW c \in Clients, TakeReply(c)
  PROVE  SapwoodIInv'
<1> USE ServerAssumption, SapwoodAssumption DEF TakeReply
<1>1. ClientIInv(c) /\ SapwoodTypeOK /\ ServerInv
  BY DEF SapwoodIInv
<1> DEFINE w == waiting[c]
           h == IF reply[c] = Failed THEN NoId ELSE reply[c]
<1>2. /\ w \in Files /\ sock[c] = <<>> /\ Len(sock[c]) = 0
      /\ h \in Ids \union {NoId} /\ handle[c][w] = NoId
      /\ h # NoId => h = reply[c] /\ rep[w] = h /\ nodes[c][h] > 0
      /\ reply[c] \in Ids => h = reply[c]
  BY <1>1 DEF ClientIInv, ReplyMeant, HandlesMeant, SapwoodTypeOK
<1>3. /\ waiting'[c] = NoFile /\ up'[c] /\ up[c] /\ reply'[c] = NoId
      /\ handle'[c] = [handle[c] EXCEPT ![w] = h]
      /\ handle[c] \in [Files -> Ids \union {NoId}]
      /\ painting' = painting /\ nodes' = nodes /\ rep' = rep
      /\ conn' = conn /\ sock' = sock /\ linked' = linked
  BY <1>1 DEF SapwoodTypeOK, serverVars
<1>4. SapwoodTypeOK'
  BY <1>1, <1>2 DEF SapwoodTypeOK, ServerTypeOK, serverVars, xVars
<1>5. LinksAgree(c)' /\ OpenComesLast(c)' /\ ReplyMeant(c)' /\ ClosesMeant(c)' /\ OpensFresh(c)'
  BY <1>1, <1>2, <1>3
  DEF ClientIInv, LinksAgree, OpenComesLast, ReplyMeant, ClosesMeant, OpensFresh, Pending
<1>6. \A g \in Files : handle'[c][g] = IF g = w THEN h ELSE handle[c][g]
  BY <1>2, <1>3
<1>7. HandlesMeant(c)'
  <2>1. \A g \in Files : handle'[c][g] # NoId =>
          rep'[g] = handle'[c][g] /\ nodes'[c][handle'[c][g]] > 0
    BY <1>1, <1>2, <1>3, <1>6 DEF ClientIInv, HandlesMeant
  <2>2. \A p \in painting'[c] : \E g \in Files : handle'[c][g] = p
    <3> SUFFICES ASSUME NEW p \in painting[c] PROVE \E g \in Files : handle'[c][g] = p
      BY <1>3
    <3>1. PICK g \in Files : handle[c][g] = p
      BY <1>1 DEF ClientIInv, HandlesMeant
    <3>2. p # NoId
      BY <1>1 DEF SapwoodTypeOK
    <3> QED
      BY <3>1, <3>2, <1>2, <1>6
  <2>3. waiting'[c] \notin Files
    BY <1>3
  <2> QED
    BY <2>1, <2>2, <2>3 DEF HandlesMeant
<1>8. NodesAccounted(c)'
  <2> SUFFICES ASSUME NEW i \in Ids, nodes[c][i] > 0
               PROVE  nodes[c][i] = 1 /\ \E g \in Files : handle'[c][g] = i
    BY <1>3 DEF NodesAccounted
  <2>1. ~Pending(c, Close(i))
    BY <1>2 DEF Pending
  <2>2. nodes[c][i] = 1 /\ (reply[c] = i \/ \E g \in Files : handle[c][g] = i)
    BY <1>1, <1>3, <2>1 DEF ClientIInv, NodesAccounted
  <2>3. i # NoId
    OBVIOUS
  <2> QED
    BY <1>2, <1>6, <2>2, <2>3
<1>9. ClientIInv(c)'
  BY <1>5, <1>7, <1>8 DEF ClientIInv
<1>10. \A d \in Clients \ {c} : Unmoved(d)
  BY <1>1 DEF Unmoved, serverVars, SapwoodTypeOK
<1> QED
  BY <1>4, <1>9, <1>10, StepOfClientAlone

LEMMA PaintKeepsIInv ==
  ASSUME SapwoodIInv, NEW c \in Clients, NEW f \in Files, Paint(c, f)
  PROVE  SapwoodIInv'
<1> USE ServerAssumption, SapwoodAssumption DEF Paint
<1>1. ClientIInv(c) /\ SapwoodTypeOK
  BY DEF SapwoodIInv
<1>2. SapwoodTypeOK' /\ painting'[c] = painting[c] \union {handle[c][f]}
  BY <1>1 DEF SapwoodTypeOK, ServerTypeOK, serverVars, xVars
<1>3. ClientIInv(c)'
  BY <1>1, <1>2 DEF ClientIInv, LinksAgree, OpenComesLast, ReplyMeant, HandlesMeant,
     ClosesMeant, NodesAccounted, OpensFresh, Pending, Holders, serverVars
<1>4. \A d \in Clients \ {c} : Unmoved(d)
  BY <1>1 DEF Unmoved, serverVars, SapwoodTypeOK
<1> QED
  BY <1>2, <1>3, <1>4, StepOfClientAlone

LEMMA XPaintKeepsIInv ==
  ASSUME SapwoodIInv, NEW c \in Clients, XPaint(c)
  PROVE  SapwoodIInv'
<1> USE ServerAssumption, SapwoodAssumption DEF XPaint
<1>1. ClientIInv(c) /\ SapwoodTypeOK
  BY DEF SapwoodIInv
<1>2. SapwoodTypeOK' /\ painting'[c] = {}
  BY <1>1 DEF SapwoodTypeOK, ServerTypeOK, serverVars, xVars
<1>3. ClientIInv(c)'
  BY <1>1, <1>2 DEF ClientIInv, LinksAgree, OpenComesLast, ReplyMeant, HandlesMeant,
     ClosesMeant, NodesAccounted, OpensFresh, Pending, Holders, serverVars
<1>4. \A d \in Clients \ {c} : Unmoved(d)
  BY <1>1 DEF Unmoved, serverVars, SapwoodTypeOK
<1> QED
  BY <1>2, <1>3, <1>4, StepOfClientAlone

LEMMA ExitKeepsIInv ==
  ASSUME SapwoodIInv, NEW c \in Clients, Exit(c)
  PROVE  SapwoodIInv'
<1> USE ServerAssumption, SapwoodAssumption DEF Exit
<1>1. ClientIInv(c) /\ SapwoodTypeOK
  BY DEF SapwoodIInv
<1>2. /\ ~up'[c] /\ reply'[c] = NoId /\ waiting'[c] = NoFile
      /\ handle'[c] = NoHandles /\ painting'[c] = {}
      /\ conn' = conn /\ nodes' = nodes /\ rep' = rep /\ sock' = sock /\ linked' = linked
  BY <1>1 DEF SapwoodTypeOK, serverVars
<1>3. SapwoodTypeOK'
  BY <1>1 DEF SapwoodTypeOK, ServerTypeOK, serverVars, xVars, NoHandles
<1>4. ClientIInv(c)'
  BY <1>1, <1>2 DEF ClientIInv, LinksAgree, OpenComesLast, ReplyMeant, HandlesMeant,
     ClosesMeant, NodesAccounted, OpensFresh, Pending, Holders, NoHandles
<1>5. \A d \in Clients \ {c} : Unmoved(d)
  BY <1>1 DEF Unmoved, serverVars, SapwoodTypeOK
<1> QED
  BY <1>3, <1>4, <1>5, StepOfClientAlone

LEMMA CloseFileKeepsIInv ==
  ASSUME SapwoodIInv, NEW c \in Clients, NEW f \in Files, CloseFile(c, f)
  PROVE  SapwoodIInv'
<1> USE ServerAssumption, SapwoodAssumption DEF CloseFile, Ready
<1>1. ClientIInv(c) /\ SapwoodTypeOK /\ ServerInv
  BY DEF SapwoodIInv
<1> DEFINE n == Len(sock[c])
           i == handle[c][f]
<1>2. /\ sock[c] \in Seq(Requests) /\ n \in Nat /\ i \in Ids /\ Close(i) \in Requests
      /\ sock'[c] = Append(sock[c], Close(i))
      /\ sock' \in [Clients -> Seq(Requests)]
  BY <1>1, RequestFact DEF SapwoodTypeOK, Send
<1>3. /\ Len(sock'[c]) = n + 1
      /\ \A k \in 1 .. n : sock'[c][k] = sock[c][k]
      /\ sock'[c][n + 1] = Close(i)
  BY <1>2, SendFact
<1>4. SapwoodTypeOK'
  BY <1>1, <1>2 DEF SapwoodTypeOK, ServerTypeOK, serverVars, xVars
<1>5. /\ reply[c] = NoId
      /\ \A k \in 1 .. n, g \in Files : sock[c][k] # Open(g)
  BY ReadyFact
<1>6. /\ waiting'[c] = NoFile /\ up'[c] /\ up[c] /\ reply'[c] = NoId /\ linked' = linked
      /\ painting'[c] = {} /\ nodes' = nodes /\ rep' = rep /\ conn' = conn
      /\ \A g \in Files : handle'[c][g] = IF g = f THEN NoId ELSE handle[c][g]
  BY <1>1, <1>5 DEF SapwoodTypeOK, serverVars
<1>7. rep[f] = i /\ nodes[c][i] > 0 /\ conn[c] /\ linked[c]
  BY <1>1, <1>2 DEF ClientIInv, HandlesMeant, LinksAgree, NoNodes
<1>8. LinksAgree(c)' /\ ReplyMeant(c)' /\ HandlesMeant(c)'
  BY <1>1, <1>6, <1>7 DEF ClientIInv, LinksAgree, ReplyMeant, HandlesMeant
<1>9. \A k \in 1 .. n + 1, g \in Files : sock'[c][k] # Open(g)
  BY <1>2, <1>3, <1>5, RequestFact
<1>10. OpenComesLast(c)' /\ OpensFresh(c)'
  BY <1>3, <1>9 DEF OpenComesLast, OpensFresh, Pending
<1>11. \A g \in Files : handle[c][g] = i => g = f
  BY <1>1, <1>2, <1>7 DEF ClientIInv, HandlesMeant, ServerInv, CacheConsistent
<1>12. ClosesMeant(c)'
  <2> SUFFICES ASSUME NEW k \in 1 .. Len(sock'[c]), NEW j \in Ids, sock'[c][k] = Close(j)
               PROVE  /\ nodes'[c][j] > 0
                      /\ \A g \in Files : handle'[c][g] # j
                      /\ \A m \in 1 .. Len(sock'[c]) : sock'[c][m] = Close(j) => m = k
    BY DEF ClosesMeant
  <2>1. \A m \in 1 .. n : sock[c][m] # Close(i)
    BY <1>1, <1>2 DEF ClientIInv, ClosesMeant
  <2>2. CASE k = n + 1
    <3>1. j = i
      BY <2>2, <1>3, RequestFact
    <3> QED
      BY <2>1, <2>2, <3>1, <1>2, <1>3, <1>6, <1>7, <1>11
  <2>3. CASE k # n + 1
    <3>1. k \in 1 .. n /\ sock[c][k] = Close(j)
      BY <2>3, <1>2, <1>3
    <3>2. j # i
      BY <2>1, <3>1
    <3>3. \A m \in 1 .. Len(sock'[c]) :
            sock'[c][m] = Close(j) => m \in 1 .. n /\ sock[c][m] = Close(j)
      BY <3>2, <1>2, <1>3, RequestFact
    <3>4. /\ nodes[c][j] > 0
          /\ \A g \in Files : handle[c][g] # j
          /\ \A m \in 1 .. n : sock[c][m] = Close(j) => m = k
      BY <3>1, <1>1 DEF ClientIInv, ClosesMeant
    <3> QED
      BY <3>3, <3>4, <1>6
  <2> QED
    BY <2>2, <2>3
<1>13. NodesAccounted(c)'
  <2> SUFFICES ASSUME NEW j \in Ids, nodes[c][j] > 0
               PROVE  /\ nodes[c][j] = 1
                      /\ Pending(c, Close(j))' \/ \E g \in Files : handle'[c][g] = j
    BY <1>6 DEF NodesAccounted
  <2>1. /\ nodes[c][j] = 1
        /\ Pending(c, Close(j)) \/ \E g \in Files : handle[c][g] = j
    BY <1>1, <1>5, <1>6 DEF ClientIInv, NodesAccounted
  <2>2. CASE Pending(c, Close(j))
    <3>1. PICK k \in 1 .. n : sock[c][k] = Close(j)
      BY <2>2 DEF Pending
    <3>2. k \in 1 .. Len(sock'[c]) /\ sock'[c][k] = Close(j)
      BY <3>1, <1>2, <1>3
    <3> QED
      BY <2>1, <3>2 DEF Pending
  <2>3. CASE j = i
    <3>1. n + 1 \in 1 .. Len(sock'[c]) /\ sock'[c][n + 1] = Close(j)
      BY <2>3, <1>2, <1>3
    <3> QED
      BY <2>1, <3>1 DEF Pending
  <2>4. CASE j # i /\ \E g \in Files : handle[c][g] = j
    BY <2>1, <2>4, <1>6
  <2> QED
    BY <2>1, <2>2, <2>3, <2>4
<1>14. ClientIInv(c)'
  BY <1>8, <1>10, <1>12, <1>13 DEF ClientIInv
<1>15. \A d \in Clients \ {c} : Unmoved(d)
  BY <1>1 DEF Unmoved, serverVars, SapwoodTypeOK, Send
<1> QED
  BY <1>4, <1>14, <1>15, StepOfClientAlone

-----------------------------------------------------------------------------
(* The steps of the server.  With one node per client that has a file open *)
(* the references are exactly the holders.                                 *)

LEMMA OpenKeepsExact ==
  ASSUME ServerInv, RefsExact,
         NEW c \in Clients, NEW f \in Files, NEW i \in Ids,
         OpenAs(c, f, i), c \notin Holders(f)
  PROVE  /\ RefsExact'
         /\ nodes[c][i] = 0
         /\ \A g \in Files : Holders(g)' = IF g = f THEN Holders(f) \union {c} ELSE Holders(g)
         /\ \A g \in Files : Cached(g)' <=> Cached(g) \/ g = f
<1> USE ServerAssumption DEF ServerInv, ServerTypeOK
<1>1. /\ refs' = [refs EXCEPT ![f] = @ + 1]
      /\ rep' = [rep EXCEPT ![f] = i]
      /\ nodes' = [nodes EXCEPT ![c][i] = @ + 1]
  BY DEF OpenAs, CacheInsert
<1>2. Cached(f) => rep[f] = i
  BY DEF OpenAs
<1>3. ~Cached(f) => \A g \in Files : rep[g] # i
  BY DEF OpenAs, FreeIds
<1>4. \A d \in Clients : nodes[d][i] > 0 => rep[f] = i
  BY <1>2, <1>3 DEF OpenResponsesCached
<1>5. nodes[c][i] = 0
  BY <1>4 DEF Holders
<1>6. \A g \in Files : Holders(g)' = IF g = f THEN Holders(f) \union {c} ELSE Holders(g)
  <2> SUFFICES ASSUME NEW g \in Files
               PROVE  Holders(g)' = IF g = f THEN Holders(f) \union {c} ELSE Holders(g)
    OBVIOUS
  <2>1. CASE g = f
    <3>1. rep'[g] = i
      BY <1>1, <2>1
    <3>2. \A d \in Clients : nodes'[d][i] > 0 <=> nodes[d][i] > 0 \/ d = c
      BY <1>1, <1>5
    <3>3. \A d \in Clients : nodes[d][i] > 0 <=> d \in Holders(f)
      <4>1. rep[f] \in Ids => rep[f] = i
        BY <1>2 DEF CacheConsistent
      <4> QED
        BY <1>4, <4>1 DEF Holders
    <3> QED
      BY <2>1, <3>1, <3>2, <3>3 DEF Holders
  <2>2. CASE g # f
    <3>1. rep'[g] = rep[g]
      BY <1>1, <2>2
    <3>2. rep[g] \in Ids => rep[g] # i
      BY <1>2, <1>3, <2>2 DEF CacheConsistent
    <3>3. \A d \in Clients, j \in Ids : j # i => nodes'[d][j] = nodes[d][j]
      BY <1>1
    <3> QED
      BY <2>2, <3>1, <3>2, <3>3 DEF Holders
  <2> QED
    BY <2>1, <2>2
<1>7. RefsExact'
  <2> SUFFICES ASSUME NEW g \in Files PROVE refs'[g] = Cardinality(Holders(g)')
    BY DEF RefsExact
  <2>1. refs[g] = Cardinality(Holders(g)) /\ IsFiniteSet(Holders(g))
    BY HoldersFinite DEF RefsExact
  <2>2. CASE g = f
    <3>1. Cardinality(Holders(f) \union {c}) = Cardinality(Holders(f)) + 1
      BY <2>1, <2>2, FS_AddElement
    <3> QED
      BY <1>1, <1>6, <2>1, <2>2, <3>1
  <2>3. CASE g # f
    BY <1>1, <1>6, <2>1, <2>3
  <2> QED
    BY <2>2, <2>3
<1>8. \A g \in Files : Cached(g)' <=> Cached(g) \/ g = f
  BY <1>1 DEF Cached
<1> QED
  BY <1>5, <1>6, <1>7, <1>8

LEMMA DropKeepsExact ==
  ASSUME ServerInv, RefsExact,
         NEW c \in Clients, NEW gone \in SUBSET Ids,
         \A i \in gone : nodes[c][i] > 0,
         nodes' \in [Clients -> [Ids -> Nat]],
         \A i \in Ids : nodes'[c][i] > 0 <=> nodes[c][i] > 0 /\ i \notin gone,
         \A d \in Clients \ {c} : nodes'[d] = nodes[d],
         CacheRemove(gone)
  PROVE  /\ RefsExact'
         /\ \A f \in Files :
              Holders(f)' = IF rep[f] \in gone THEN Holders(f) \ {c} ELSE Holders(f)
<1> USE ServerAssumption DEF ServerInv, ServerTypeOK
<1>1. \A f \in Files : rep[f] \in gone => refs[f] > 0 /\ c \in Holders(f)
  BY DEF CacheConsistent, Cached, Holders
<1>2. \A f \in Files : /\ refs'[f] = IF rep[f] \in gone THEN refs[f] - 1 ELSE refs[f]
                       /\ rep'[f] = IF refs'[f] = 0 THEN NoId ELSE rep[f]
  BY DEF CacheRemove
<1>3. ASSUME NEW f \in Files
      PROVE  /\ Holders(f)' = IF rep[f] \in gone THEN Holders(f) \ {c} ELSE Holders(f)
             /\ refs'[f] = Cardinality(Holders(f)')
  <2>1. /\ refs[f] \in Nat /\ refs[f] = Cardinality(Holders(f))
        /\ IsFiniteSet(Holders(f))
    BY HoldersFinite DEF RefsExact
  <2>2. CASE rep[f] \in gone
    <3>1. /\ IsFiniteSet(Holders(f) \ {c})
          /\ Cardinality(Holders(f) \ {c}) = Cardinality(Holders(f)) - 1
      BY <1>1, <2>1, <2>2, FS_RemoveElement
    <3>2. CASE refs'[f] = 0
      <4>1. Cardinality(Holders(f) \ {c}) = 0
        BY <1>2, <2>1, <2>2, <3>1, <3>2
      <4>2. Holders(f) \ {c} = {}
        BY <3>1, <4>1, FS_EmptySet
      <4>3. Holders(f)' = {}
        BY <1>2, <3>2 DEF Holders
      <4> QED
        BY <2>2, <3>2, <4>1, <4>2, <4>3
    <3>3. CASE refs'[f] # 0
      <4>1. rep'[f] = rep[f]
        BY <1>2, <3>3
      <4>2. Holders(f)' = Holders(f) \ {c}
        BY <2>2, <4>1 DEF Holders
      <4> QED
        BY <1>2, <2>1, <2>2, <3>1, <4>2
    <3> QED
      BY <3>2, <3>3
  <2>3. CASE rep[f] \notin gone
    <3>1. Holders(f)' = Holders(f)
      <4>1. CASE refs[f] = 0
        BY <1>2, <2>3, <4>1 DEF Holders, CacheConsistent, Cached
      <4>2. CASE refs[f] # 0
        <5>1. rep'[f] = rep[f]
          BY <1>2, <2>3, <4>2
        <5> QED
          BY <2>3, <5>1 DEF Holders
      <4> QED
        BY <4>1, <4>2
    <3> QED
      BY <1>2, <2>1, <2>3, <3>1
  <2> QED
    BY <2>2, <2>3
<1> QED
  BY <1>3 DEF RefsExact

(* The pixmaps of what stays in the cache stay.                            *)
LEMMA DropKeepsPixmaps ==
  ASSUME ServerInv, PixmapsThere, NEW gone \in SUBSET Ids, CacheRemove(gone),
         freeing' = freeing \union Destroyed, xpixmaps' = xpixmaps
  PROVE  PixmapsThere' /\ EntriesKept
<1> USE ServerAssumption DEF ServerInv, ServerTypeOK
<1>1. \A f \in Files : /\ refs'[f] = IF rep[f] \in gone THEN refs[f] - 1 ELSE refs[f]
                       /\ rep'[f] = IF refs'[f] = 0 THEN NoId ELSE rep[f]
  BY DEF CacheRemove
<1>2. ASSUME NEW f \in Files, refs'[f] > 0
      PROVE  rep'[f] = rep[f] /\ rep[f] \in xpixmaps' \ freeing'
  <2>1. refs[f] > 0 /\ rep'[f] = rep[f] /\ rep[f] \in Ids
    BY <1>1, <1>2 DEF CacheConsistent, Cached
  <2>2. rep[f] \notin Destroyed
    <3> SUFFICES ASSUME NEW g \in Files, refs'[g] = 0, rep[g] = rep[f] PROVE FALSE
      BY DEF Destroyed
    <3>1. g = f
      BY <2>1 DEF CacheConsistent
    <3> QED
      BY <3>1, <1>2
  <2> QED
    BY <2>1, <2>2 DEF PixmapsThere, Cached
<1> QED
  BY <1>1, <1>2 DEF PixmapsThere, Cached, EntriesKept

LEMMA AcceptKeepsIInv ==
  ASSUME SapwoodIInv, NEW c \in Clients, Accept(c)
  PROVE  SapwoodIInv' /\ nodes' = nodes
<1> USE ServerAssumption, SapwoodAssumption
<1>1. ClientIInv(c) /\ SapwoodTypeOK /\ ServerInv
  BY DEF SapwoodIInv
<1>2. ServerInv'
  BY <1>1, AcceptKeepsInv DEF Accept
<1>3. nodes' = nodes /\ refs' = refs /\ rep' = rep
  BY <1>1 DEF Accept, AcceptClient, ClientIInv, LinksAgree, SapwoodTypeOK, ServerTypeOK
<1>4. SapwoodTypeOK'
  BY <1>1, <1>2 DEF Accept, SapwoodTypeOK, ServerInv, clientVars, xVars
<1>5. RefsExact' /\ PixmapsThere' /\ EntriesKept
  BY <1>3 DEF SapwoodIInv, RefsExact, Holders, PixmapsThere, Cached, Accept, xVars, EntriesKept
<1>6. linked[c] /\ conn'[c]
  BY <1>1 DEF Accept, AcceptClient, SapwoodTypeOK, ServerTypeOK
<1>7. ClientIInv(c)'
  BY <1>1, <1>3, <1>6 DEF Accept, clientVars, ClientIInv, LinksAgree, OpenComesLast, ReplyMeant,
     HandlesMeant, ClosesMeant, NodesAccounted, OpensFresh, Pending, Holders
<1>8. \A d \in Clients \ {c} : Unmoved(d)
  BY <1>1, <1>3 DEF Accept, AcceptClient, clientVars, Unmoved, SapwoodTypeOK, ServerTypeOK
<1> QED
  BY <1>2, <1>3, <1>4, <1>5, <1>7, <1>8, StepOfClient

LEMMA XFreeKeepsIInv ==
  ASSUME SapwoodIInv, XFree
  PROVE  SapwoodIInv'
<1> USE ServerAssumption, SapwoodAssumption
<1>1. ServerInv'
  BY ServerStutterKeepsInv DEF SapwoodIInv, XFree
<1>2. SapwoodTypeOK' /\ RefsExact' /\ PixmapsThere' /\ EntriesKept
  BY DEF SapwoodIInv, SapwoodTypeOK, ServerTypeOK, RefsExact, PixmapsThere, Holders, Cached,
     EntriesKept, XFree, serverVars, clientVars
<1>3. \A d \in Clients : Unmoved(d)
  BY DEF Unmoved, XFree, serverVars, clientVars
<1>4. \A d \in Clients : ClientIInv(d)'
  BY <1>1, <1>2, <1>3, OthersKeep
<1> QED
  BY <1>1, <1>2, <1>4 DEF SapwoodIInv

LEMMA HangUpKeepsIInv ==
  ASSUME SapwoodIInv, NEW c \in Clients, HangUp(c)
  PROVE  /\ SapwoodIInv'
         /\ \A f \in Files : Holders(f)' = Holders(f) \ {c}
<1> USE ServerAssumption, SapwoodAssumption
<1>1. ClientIInv(c) /\ SapwoodTypeOK /\ ServerInv /\ RefsExact /\ PixmapsThere
  BY DEF SapwoodIInv
<1>2. ServerInv'
  BY <1>1, HangUpKeepsInv DEF HangUp
<1> DEFINE gone == {i \in Ids : nodes[c][i] > 0}
<1>3. /\ nodes' \in [Clients -> [Ids -> Nat]]
      /\ \A d \in Clients \ {c} : nodes'[d] = nodes[d] /\ conn'[d] = conn[d]
      /\ nodes'[c] = NoNodes /\ ~conn'[c]
      /\ \A i \in Ids : nodes'[c][i] = 0
  BY <1>1 DEF HangUp, ClientRemoved, ServerInv, ServerTypeOK, NoNodes
<1>4. CacheRemove(gone) /\ gone \in SUBSET Ids /\ \A i \in gone : nodes[c][i] > 0
  BY DEF HangUp, ClientRemoved
<1>5. \A i \in Ids : nodes'[c][i] > 0 <=> nodes[c][i] > 0 /\ i \notin gone
  BY <1>3
<1>6. \A f \in Files : rep[f] \in gone <=> c \in Holders(f)
  BY DEF Holders
<1> HIDE DEF gone
<1>7. /\ RefsExact'
      /\ \A f \in Files :
           Holders(f)' = IF rep[f] \in gone THEN Holders(f) \ {c} ELSE Holders(f)
  BY <1>1, <1>3, <1>4, <1>5, DropKeepsExact
<1>8. \A f \in Files : Holders(f)' = Holders(f) \ {c}
  BY <1>6, <1>7
<1>9. PixmapsThere' /\ EntriesKept
  BY <1>1, <1>4, DropKeepsPixmaps DEF HangUp
<1>10. SapwoodTypeOK'
  <2>1. freeing' \subseteq Ids
    BY <1>1 DEF HangUp, Destroyed, SapwoodTypeOK, ServerInv, CacheConsistent
  <2>2. sock' \in [Clients -> Seq(Requests)] /\ linked' \in [Clients -> BOOLEAN]
    BY <1>1 DEF HangUp, SapwoodTypeOK
  <2> QED
    BY <1>1, <1>2, <2>1, <2>2 DEF HangUp, SapwoodTypeOK, ServerInv
<1>11. /\ ~up'[c] /\ ~up[c] /\ sock'[c] = <<>> /\ Len(sock'[c]) = 0 /\ ~linked'[c]
       /\ reply' = reply /\ waiting' = waiting /\ handle' = handle /\ painting' = painting
  BY <1>1 DEF HangUp, SapwoodTypeOK
<1>12. ClientIInv(c)'
  BY <1>1, <1>3, <1>11 DEF ClientIInv, LinksAgree, OpenComesLast, ReplyMeant, HandlesMeant,
     ClosesMeant, NodesAccounted, OpensFresh, Pending, NoHandles
<1>13. \A d \in Clients \ {c} : Unmoved(d)
  BY <1>1, <1>3 DEF HangUp, Unmoved, SapwoodTypeOK
<1> QED
  BY <1>2, <1>7, <1>8, <1>9, <1>10, <1>12, <1>13, StepOfClient

LEMMA ProcessOpenKeepsIInv ==
  ASSUME SapwoodIInv, NEW c \in Clients, ProcessOpen(c)
  PROVE  /\ SapwoodIInv'
         /\ \/ UNCHANGED serverVars
            \/ \E f \in Files : \A g \in Files :
                 /\ Holders(g)' = IF g = f THEN Holders(f) \union {c} ELSE Holders(g)
                 /\ Cached(g)' <=> Cached(g) \/ g = f
<1> USE ServerAssumption, SapwoodAssumption
<1>1. ClientIInv(c) /\ SapwoodTypeOK /\ ServerInv /\ RefsExact /\ PixmapsThere
  BY DEF SapwoodIInv
<1> DEFINE f == Head(sock[c]).file
<1>2. /\ conn[c] /\ sock[c] \in Seq(Requests) /\ sock[c] # <<>>
      /\ sock' = [sock EXCEPT ![c] = Tail(@)]
      /\ f \in Files /\ sock[c][1] = Open(f) /\ 1 \in 1 .. Len(sock[c])
  <2>1. conn[c] /\ sock[c] # <<>> /\ Head(sock[c]).op = "open"
    BY DEF ProcessOpen, NextRequest
  <2>2. sock[c] \in Seq(Requests)
    BY <1>1 DEF SapwoodTypeOK
  <2> QED
    BY <2>1, <2>2, TakeFact, RequestFact DEF ProcessOpen, Processed
<1>3. Len(sock[c]) = 1 /\ (up[c] => waiting[c] = f) /\ linked[c] /\ reply[c] = NoId
  BY <1>1, <1>2 DEF ClientIInv, OpenComesLast, LinksAgree, ReplyMeant
<1>4. /\ sock' \in [Clients -> Seq(Requests)] /\ Len(sock'[c]) = 0 /\ sock'[c] = <<>>
      /\ \A d \in Clients \ {c} : sock'[d] = sock[d]
  <2>1. Tail(sock[c]) \in Seq(Requests) /\ Len(Tail(sock[c])) = 0
    BY <1>2, <1>3, TakeFact
  <2>2. Tail(sock[c]) = <<>>
    BY <2>1, EmptySeq
  <2> QED
    BY <1>1, <1>2, <2>1, <2>2 DEF SapwoodTypeOK
<1>5. \A i : ~Pending(c, Close(i))
  BY <1>2, <1>3, RequestFact DEF Pending
<1>6. c \notin Holders(f)
  BY <1>1, <1>2, <1>5 DEF ClientIInv, OpensFresh, Pending
<1>7. up' = up /\ linked' = linked /\ waiting' = waiting /\ handle' = handle /\ painting' = painting
  BY DEF ProcessOpen, clientVars
<1> HIDE DEF f
<1>8. ASSUME OpenFails(c, f), Reply(c, Failed), UNCHANGED xVars
      PROVE  SapwoodIInv' /\ UNCHANGED serverVars
  <2>1. UNCHANGED serverVars /\ ServerInv'
    BY <1>1, <1>8, ServerStutterKeepsInv DEF OpenFails
  <2>2. RefsExact' /\ PixmapsThere' /\ EntriesKept
    BY <2>1, <1>1, <1>8 DEF RefsExact, PixmapsThere, serverVars, xVars, Cached, Holders, EntriesKept
  <2>3. /\ reply' \in [Clients -> Ids \union {NoId, Failed}]
        /\ reply'[c] = IF up[c] THEN Failed ELSE NoId
        /\ \A d \in Clients \ {c} : reply'[d] = reply[d]
    BY <1>1, <1>3, <1>8 DEF SapwoodTypeOK, Reply
  <2>4. SapwoodTypeOK'
    BY <1>1, <1>4, <1>7, <1>8, <2>1, <2>3 DEF SapwoodTypeOK, ServerInv, xVars
  <2>5. ClientIInv(c)'
    <3>1. conn' = conn /\ nodes' = nodes /\ rep' = rep
      BY <2>1 DEF serverVars
    <3>2. LinksAgree(c)' /\ ReplyMeant(c)' /\ HandlesMeant(c)'
      BY <1>1, <1>2, <1>3, <1>4, <1>7, <2>3, <3>1 DEF ClientIInv, LinksAgree, ReplyMeant, HandlesMeant
    <3>3. OpenComesLast(c)' /\ ClosesMeant(c)' /\ OpensFresh(c)'
      BY <1>4 DEF OpenComesLast, ClosesMeant, OpensFresh, Pending
    <3>4. NodesAccounted(c)'
      BY <1>1, <1>3, <1>5, <1>7, <3>1 DEF ClientIInv, NodesAccounted
    <3> QED
      BY <3>2, <3>3, <3>4 DEF ClientIInv
  <2>6. \A d \in Clients \ {c} : Unmoved(d)
    BY <1>4, <1>7, <2>1, <2>3 DEF Unmoved, serverVars
  <2> QED
    BY <2>1, <2>2, <2>4, <2>5, <2>6, StepOfClient
<1>9. ASSUME NEW i \in Ids, OpenAs(c, f, i), Reply(c, i),
             IF Cached(f) THEN UNCHANGED xVars ELSE ExtractPixmaps(i)
      PROVE  /\ SapwoodIInv'
             /\ \A g \in Files :
                  /\ Holders(g)' = IF g = f THEN Holders(f) \union {c} ELSE Holders(g)
                  /\ Cached(g)' <=> Cached(g) \/ g = f
  <2>1. ServerInv'
    BY <1>1, <1>2, <1>9, OpenKeepsInv
  <2>2. /\ RefsExact'
        /\ nodes[c][i] = 0
        /\ \A g \in Files : Holders(g)' = IF g = f THEN Holders(f) \union {c} ELSE Holders(g)
        /\ \A g \in Files : Cached(g)' <=> Cached(g) \/ g = f
    BY <1>1, <1>2, <1>6, <1>9, OpenKeepsExact
  <2>3. /\ \A g \in Files : rep'[g] = IF g = f THEN i ELSE rep[g]
        /\ Cached(f) => rep[f] = i
        /\ ~Cached(f) => \A g \in Files : rep[g] # i
    BY <1>1, <1>2, <1>9 DEF OpenAs, CacheInsert, FreeIds, ServerInv, ServerTypeOK
  <2>4. /\ nodes'[c] = [nodes[c] EXCEPT ![i] = 1]
        /\ \A j \in Ids : nodes'[c][j] = IF j = i THEN 1 ELSE nodes[c][j]
        /\ \A d \in Clients \ {c} : nodes'[d] = nodes[d]
        /\ conn' = conn
    BY <1>1, <1>9, <2>2 DEF OpenAs, ServerInv, ServerTypeOK
  <2>5. EntriesKept
    BY <2>3 DEF EntriesKept
  <2>6. PixmapsThere'
    <3> SUFFICES ASSUME NEW g \in Files, Cached(g)' PROVE rep'[g] \in xpixmaps' \ freeing'
      BY DEF PixmapsThere
    <3>1. CASE Cached(f)
      BY <1>1, <1>9, <2>2, <2>3, <3>1 DEF PixmapsThere, xVars
    <3>2. CASE ~Cached(f)
      <4>1. xpixmaps' = (xpixmaps \ freeing) \union {i} /\ freeing' = {}
        BY <1>9, <3>2 DEF ExtractPixmaps
      <4> QED
        BY <4>1, <1>1, <2>2, <2>3 DEF PixmapsThere
    <3> QED
      BY <3>1, <3>2
  <2>7. /\ reply' \in [Clients -> Ids \union {NoId, Failed}]
        /\ reply'[c] = IF up[c] THEN i ELSE NoId
        /\ \A d \in Clients \ {c} : reply'[d] = reply[d]
    BY <1>1, <1>3, <1>9 DEF SapwoodTypeOK, Reply
  <2>8. SapwoodTypeOK'
    <3>1. xpixmaps' \subseteq Ids /\ freeing' \subseteq Ids
      BY <1>1, <1>9 DEF xVars, ExtractPixmaps, SapwoodTypeOK
    <3> QED
      BY <3>1, <1>1, <1>4, <1>7, <2>1, <2>7 DEF SapwoodTypeOK, ServerInv
  <2>9. LinksAgree(c)' /\ OpenComesLast(c)' /\ ClosesMeant(c)' /\ OpensFresh(c)'
    BY <1>1, <1>2, <1>3, <1>4, <1>7, <2>4, <2>7
    DEF ClientIInv, LinksAgree, OpenComesLast, ClosesMeant, OpensFresh, Pending
  <2>10. ReplyMeant(c)'
    BY <1>2, <1>3, <1>4, <1>7, <2>3, <2>4, <2>7 DEF ReplyMeant
  <2>11. HandlesMeant(c)'
    <3>1. handle[c][f] = NoId
      BY <1>1, <1>2, <1>3 DEF ClientIInv, LinksAgree, HandlesMeant, NoHandles
    <3>2. \A g \in Files : handle[c][g] # NoId => handle[c][g] \in Ids
      BY <1>1 DEF SapwoodTypeOK
    <3> QED
      BY <1>1, <1>7, <2>3, <2>4, <3>1, <3>2 DEF ClientIInv, HandlesMeant
  <2>12. NodesAccounted(c)'
    <3> SUFFICES ASSUME NEW j \in Ids, nodes'[c][j] > 0
                 PROVE  /\ nodes'[c][j] = 1
                        /\ up[c] => reply'[c] = j \/ \E g \in Files : handle[c][g] = j
      BY <1>7 DEF NodesAccounted
    <3>1. CASE j = i
      BY <2>4, <2>7, <3>1
    <3>2. CASE j # i
      BY <1>1, <1>3, <1>5, <2>4, <3>2 DEF ClientIInv, NodesAccounted
    <3> QED
      BY <3>1, <3>2
  <2>13. ClientIInv(c)'
    BY <2>9, <2>10, <2>11, <2>12 DEF ClientIInv
  <2>14. \A d \in Clients \ {c} : Unmoved(d)
    BY <1>4, <1>7, <2>4, <2>7 DEF Unmoved
  <2> QED
    BY <2>1, <2>2, <2>5, <2>6, <2>8, <2>13, <2>14, StepOfClient
<1> QED
  BY <1>2, <1>8, <1>9 DEF ProcessOpen, f

LEMMA ProcessCloseKeepsIInv ==
  ASSUME SapwoodIInv, NEW c \in Clients, ProcessClose(c)
  PROVE  /\ SapwoodIInv'
         /\ \E f \in Files :
              /\ c \in Holders(f)
              /\ \A g \in Files :
                   Holders(g)' = IF g = f THEN Holders(f) \ {c} ELSE Holders(g)
<1> USE ServerAssumption, SapwoodAssumption
<1>1. ClientIInv(c) /\ SapwoodTypeOK /\ ServerInv /\ RefsExact /\ PixmapsThere
  BY DEF SapwoodIInv
<1> DEFINE q == sock[c]
           i == Head(q).id
<1>2. /\ conn[c] /\ q \in Seq(Requests) /\ q # <<>>
      /\ sock' = [sock EXCEPT ![c] = Tail(@)]
      /\ i \in Ids /\ q[1] = Close(i)
  <2>1. conn[c] /\ q # <<>> /\ Head(q).op = "close"
    BY DEF ProcessClose, NextRequest
  <2>2. q \in Seq(Requests)
    BY <1>1 DEF SapwoodTypeOK
  <2> QED
    BY <2>1, <2>2, TakeFact, RequestFact DEF ProcessClose, Processed
<1>3. /\ sock'[c] = Tail(q) /\ Tail(q) \in Seq(Requests)
      /\ Len(q) \in Nat /\ Len(sock'[c]) = Len(q) - 1 /\ 1 \in 1 .. Len(q)
      /\ \A k \in 1 .. Len(sock'[c]) : k + 1 \in 1 .. Len(q) /\ sock'[c][k] = q[k + 1]
      /\ \A k \in 1 .. Len(q) : k # 1 => k - 1 \in 1 .. Len(sock'[c]) /\ q[k] = sock'[c][k - 1]
  BY <1>1, <1>2, TakeFact DEF SapwoodTypeOK
<1>4. /\ sock' \in [Clients -> Seq(Requests)]
      /\ \A d \in Clients \ {c} : sock'[d] = sock[d]
  BY <1>1, <1>2, <1>3 DEF SapwoodTypeOK
<1>5. /\ nodes[c][i] > 0
      /\ \A f \in Files : handle[c][f] # i
      /\ \A m \in 1 .. Len(q) : q[m] = Close(i) => m = 1
  BY <1>1, <1>2, <1>3 DEF ClientIInv, ClosesMeant
<1>6. nodes[c][i] = 1 /\ linked[c] /\ reply[c] = NoId
  BY <1>1, <1>2, <1>5 DEF ClientIInv, NodesAccounted, LinksAgree, ReplyMeant
<1> HIDE DEF i
<1>7. CloseId(c, i) /\ CacheRemove({i})
  BY <1>5, <1>6 DEF ProcessClose, CloseId, CloseUnknown, i
<1>8. /\ nodes' \in [Clients -> [Ids -> Nat]]
      /\ \A j \in Ids : nodes'[c][j] = IF j = i THEN 0 ELSE nodes[c][j]
      /\ \A d \in Clients \ {c} : nodes'[d] = nodes[d]
      /\ conn' = conn
  BY <1>1, <1>2, <1>6, <1>7 DEF CloseId, ServerInv, ServerTypeOK
<1>9. ServerInv'
  BY <1>1, <1>2, <1>7, CloseKeepsInv
<1>10. /\ RefsExact'
       /\ \A f \in Files : Holders(f)' = IF rep[f] \in {i} THEN Holders(f) \ {c} ELSE Holders(f)
  <2>1. {i} \in SUBSET Ids /\ \A j \in {i} : nodes[c][j] > 0
    BY <1>2, <1>5
  <2>2. \A j \in Ids : nodes'[c][j] > 0 <=> nodes[c][j] > 0 /\ j \notin {i}
    BY <1>8
  <2> QED
    BY <1>1, <1>7, <1>8, <2>1, <2>2, DropKeepsExact
<1>11. PixmapsThere' /\ EntriesKept
  <2>1. {i} \in SUBSET Ids /\ xpixmaps' = xpixmaps /\ freeing' = freeing \union Destroyed
    BY <1>2 DEF ProcessClose
  <2> QED
    BY <1>1, <1>7, <2>1, DropKeepsPixmaps
<1>12. /\ up' = up /\ linked' = linked /\ waiting' = waiting /\ handle' = handle
       /\ painting' = painting /\ reply' = reply /\ xpixmaps' = xpixmaps
       /\ freeing' = freeing \union Destroyed
  BY DEF ProcessClose, clientVars
<1>13. SapwoodTypeOK'
  <2>1. freeing' \subseteq Ids
    BY <1>1, <1>12 DEF Destroyed, SapwoodTypeOK, ServerInv, CacheConsistent
  <2> QED
    BY <1>1, <1>4, <1>9, <1>12, <2>1 DEF SapwoodTypeOK, ServerInv
<1>14. \A j \in Ids, f \in Files : nodes'[c][j] > 0 => (rep'[f] = j <=> rep[f] = j)
  BY <1>1, <1>8, <1>9, <1>11, NodesKeepFile
<1>15. LinksAgree(c)' /\ ReplyMeant(c)'
  BY <1>1, <1>2, <1>6, <1>8, <1>12 DEF ClientIInv, LinksAgree, ReplyMeant
<1>16. OpenComesLast(c)'
  BY <1>1, <1>3, <1>12 DEF ClientIInv, OpenComesLast
<1>17. HandlesMeant(c)'
  <2>1. \A g \in Files : handle[c][g] # NoId => handle[c][g] \in Ids
    BY <1>1 DEF SapwoodTypeOK
  <2>2. \A g \in Files : handle[c][g] # NoId => nodes'[c][handle[c][g]] > 0
    BY <1>1, <1>5, <1>8, <2>1 DEF ClientIInv, HandlesMeant
  <2> QED
    BY <1>1, <1>12, <1>14, <2>1, <2>2 DEF ClientIInv, HandlesMeant
<1>18. ClosesMeant(c)'
  <2> SUFFICES ASSUME NEW k \in 1 .. Len(sock'[c]), NEW j \in Ids, sock'[c][k] = Close(j)
               PROVE  /\ nodes'[c][j] > 0
                      /\ \A f \in Files : handle[c][f] # j
                      /\ \A m \in 1 .. Len(sock'[c]) : sock'[c][m] = Close(j) => m = k
    BY <1>12 DEF ClosesMeant
  <2>1. k + 1 \in 1 .. Len(q) /\ q[k + 1] = Close(j) /\ k \in Nat /\ k >= 1
    BY <1>3
  <2>2. /\ nodes[c][j] > 0
        /\ \A f \in Files : handle[c][f] # j
        /\ \A m \in 1 .. Len(q) : q[m] = Close(j) => m = k + 1
    BY <2>1, <1>1 DEF ClientIInv, ClosesMeant
  <2>3. j # i
    BY <1>2, <1>3, <2>1, <2>2
  <2>4. \A m \in 1 .. Len(sock'[c]) : sock'[c][m] = Close(j) => m = k
    <3> SUFFICES ASSUME NEW m \in 1 .. Len(sock'[c]), sock'[c][m] = Close(j) PROVE m = k
      OBVIOUS
    <3>1. m + 1 \in 1 .. Len(q) /\ q[m + 1] = Close(j)
      BY <1>3
    <3>2. m + 1 = k + 1
      BY <2>2, <3>1
    <3> QED
      BY <3>2, <2>1, <1>3
  <2> QED
    BY <2>2, <2>3, <2>4, <1>8
<1>19. \A j \in Ids : j # i /\ Pending(c, Close(j)) =>
          \E k \in 1 .. Len(sock'[c]) : sock'[c][k] = Close(j)
  <2> SUFFICES ASSUME NEW j \in Ids, j # i, NEW k \in 1 .. Len(q), q[k] = Close(j)
               PROVE  \E m \in 1 .. Len(sock'[c]) : sock'[c][m] = Close(j)
    BY DEF Pending
  <2>1. k # 1
    BY <1>2, RequestFact
  <2> QED
    BY <2>1, <1>3
<1>20. NodesAccounted(c)'
  <2> SUFFICES ASSUME NEW j \in Ids, nodes'[c][j] > 0
               PROVE  /\ nodes'[c][j] = 1
                      /\ up[c] => \/ \E k \in 1 .. Len(sock'[c]) : sock'[c][k] = Close(j)
                                  \/ \E f \in Files : handle[c][f] = j
    BY <1>12 DEF NodesAccounted, Pending
  <2>1. j # i /\ nodes[c][j] > 0 /\ nodes'[c][j] = nodes[c][j]
    BY <1>8
  <2>2. reply[c] # j
    BY <1>6
  <2> QED
    BY <1>1, <1>19, <2>1, <2>2 DEF ClientIInv, NodesAccounted
<1>21. OpensFresh(c)'
  <2> SUFFICES ASSUME NEW f \in Files, NEW k \in 1 .. Len(sock'[c]), sock'[c][k] = Open(f),
                      rep'[f] \in Ids, nodes'[c][rep'[f]] > 0
               PROVE  \E m \in 1 .. Len(sock'[c]) : sock'[c][m] = Close(rep'[f])
    BY DEF OpensFresh, Pending, Holders
  <2>1. rep[f] = rep'[f]
    BY <1>14
  <2>2. rep[f] # i /\ c \in Holders(f)
    BY <1>8, <2>1 DEF Holders
  <2>3. Pending(c, Open(f))
    BY <1>3 DEF Pending
  <2>4. Pending(c, Close(rep[f]))
    BY <1>1, <2>2, <2>3 DEF ClientIInv, OpensFresh
  <2> QED
    BY <1>19, <2>1, <2>2, <2>4
<1>22. ClientIInv(c)'
  BY <1>15, <1>16, <1>17, <1>18, <1>20, <1>21 DEF ClientIInv
<1>23. \A d \in Clients \ {c} : Unmoved(d)
  BY <1>4, <1>8, <1>12 DEF Unmoved
<1>24. PICK f \in Files : rep[f] = i
  BY <1>1, <1>2, <1>5 DEF ServerInv, OpenResponsesCached
<1>25. /\ c \in Holders(f)
       /\ \A g \in Files : Holders(g)' = IF g = f THEN Holders(f) \ {c} ELSE Holders(g)
  <2>1. \A g \in Files : rep[g] = i => g = f
    BY <1>1, <1>2, <1>24 DEF ServerInv, CacheConsistent
  <2> QED
    BY <1>2, <1>5, <1>10, <1>24, <2>1 DEF Holders
<1> QED
  BY <1>9, <1>10, <1>11, <1>13, <1>22, <1>23, <1>25, StepOfClient

(* Every step of clients, server and X server preserves the invariant. *)
LEMMA SapwoodNextIInv == SapwoodIInv /\ [SapwoodNext]_sapwoodVars => SapwoodIInv'
<1> SUFFICES ASSUME SapwoodIInv, [SapwoodNext]_sapwoodVars PROVE SapwoodIInv'
  OBVIOUS
<1>1. ASSUME NEW c \in Clients, ServerStep(c) PROVE SapwoodIInv'
  BY <1>1, AcceptKeepsIInv, ProcessOpenKeepsIInv, ProcessCloseKeepsIInv, HangUpKeepsIInv
  DEF ServerStep
<1>2. CASE UNCHANGED sapwoodVars
  <2>1. ServerInv'
    BY <1>2, ServerStutterKeepsInv DEF SapwoodIInv, sapwoodVars
  <2>2. SapwoodTypeOK' /\ RefsExact' /\ PixmapsThere' /\ EntriesKept
    BY <1>2 DEF SapwoodIInv, SapwoodTypeOK, ServerTypeOK, RefsExact, PixmapsThere, Holders,
       Cached, EntriesKept, sapwoodVars, serverVars
  <2>3. \A d \in Clients : Unmoved(d)
    BY <1>2 DEF Unmoved, sapwoodVars, serverVars
  <2>4. \A d \in Clients : ClientIInv(d)'
    BY <2>1, <2>2, <2>3, OthersKeep
  <2> QED
    BY <2>1, <2>2, <2>4 DEF SapwoodIInv
<1> QED
  BY <1>1, <1>2, StartKeepsIInv, RequestOpenKeepsIInv, PaintKeepsIInv, CloseFileKeepsIInv,
     TakeReplyKeepsIInv, ExitKeepsIInv, XPaintKeepsIInv, XFreeKeepsIInv
  DEF SapwoodNext

LEMMA SapwoodAlwaysIInv == SapwoodSpec => []SapwoodIInv
<1> QED
  BY SapwoodInitIInv, SapwoodNextIInv, PTL DEF SapwoodSpec

(* However the requests of clients, server and X server interleave, and    *)
(* whenever a client ends: nobody paints with a pixmap that is freed, a    *)
(* handle is the response the server keeps for that file, a reply names    *)
(* pixmaps that are there, and no close is unknown to the server.          *)
THEOREM SapwoodSafe == SapwoodSpec => []SapwoodInv
<1> QED
  BY SapwoodAlwaysIInv, IInvSafe, PTL

(* The clients of the theme engine keep the server's counts sound and      *)
(* exact: a reference for every holder, and no other.                      *)
THEOREM ReferencesExact == SapwoodSpec => [](ServerInv /\ RefsExact)
<1>1. SapwoodIInv => ServerInv /\ RefsExact
  BY DEF SapwoodIInv
<1> QED
  BY <1>1, SapwoodAlwaysIInv, PTL

-----------------------------------------------------------------------------
(***************************************************************************)
(* Clients and server implement the shared images: what the cache holds is *)
(* what some client uses.                                                  *)
(***************************************************************************)
usersNow == [f \in Files |-> Holders(f)]
residentNow == {f \in Files : Cached(f)}

(* With exact references an entry exists while it has a holder. *)
LEMMA CachedWhileHeld ==
  ASSUME ServerInv, RefsExact, NEW f \in Files
  PROVE  Cached(f) <=> Holders(f) # {}
<1>1. IsFiniteSet(Holders(f)) /\ refs[f] = Cardinality(Holders(f)) /\ refs[f] \in Nat
  BY HoldersFinite DEF RefsExact
<1> QED
  BY <1>1, FS_EmptySet DEF Cached

LEMMA CachedWhileHeldNext ==
  ASSUME ServerInv', RefsExact', NEW f \in Files
  PROVE  Cached(f)' <=> Holders(f)' # {}
<1>1. IsFiniteSet(Holders(f)') /\ refs'[f] = Cardinality(Holders(f)') /\ refs'[f] \in Nat
  <2>1. Holders(f)' \subseteq Clients
    BY DEF Holders
  <2> QED
    BY <2>1, ServerAssumption, FS_Subset DEF RefsExact, ServerInv, ServerTypeOK
<1> QED
  BY <1>1, FS_EmptySet DEF Cached

(* A step that changes no holder is a stutter of the shared images. *)
LEMMA SameHoldersStutters ==
  ASSUME ServerInv, RefsExact, ServerInv', RefsExact',
         \A f \in Files : Holders(f)' = Holders(f)
  PROVE  usersNow' = usersNow /\ residentNow' = residentNow
<1>1. \A f \in Files : Cached(f) <=> Holders(f) # {}
  BY CachedWhileHeld
<1>2. \A f \in Files : Cached(f)' <=> Holders(f)' # {}
  BY CachedWhileHeldNext
<1> QED
  BY <1>1, <1>2 DEF usersNow, residentNow

(* One client begins to use one file. *)
LEMMA OpenAcquires ==
  ASSUME NEW c \in Clients, NEW f \in Files,
         \A g \in Files :
           /\ Holders(g)' = IF g = f THEN Holders(f) \union {c} ELSE Holders(g)
           /\ Cached(g)' <=> Cached(g) \/ g = f
  PROVE  Promise!SharedNext
<1>1. usersNow' = [usersNow EXCEPT ![f] = @ \union {c}]
  BY DEF usersNow
<1>2. residentNow' = residentNow \union {f}
  BY DEF residentNow
<1>3. Promise!Acquire(c, f)
  BY <1>1, <1>2 DEF Promise!Acquire, usersNow, residentNow
<1> QED
  BY <1>3 DEF Promise!SharedNext

(* One client ends to use some files. *)
LEMMA CloseReleases ==
  ASSUME ServerInv', RefsExact', NEW c \in Clients, NEW F \in SUBSET Files,
         \A f \in F : c \in Holders(f),
         \A g \in Files : Holders(g)' = IF g \in F THEN Holders(g) \ {c} ELSE Holders(g)
  PROVE  Promise!Release(c, F)
<1>1. \A f \in Files : Cached(f)' <=> Holders(f)' # {}
  BY CachedWhileHeldNext
<1>2. usersNow' = [f \in Files |-> IF f \in F THEN usersNow[f] \ {c} ELSE usersNow[f]]
  BY DEF usersNow
<1>3. residentNow' = {f \in Files : usersNow'[f] # {}}
  BY <1>1 DEF usersNow, residentNow
<1>4. \A f \in F : c \in usersNow[f]
  BY DEF usersNow
<1> QED
  BY <1>2, <1>3, <1>4 DEF Promise!Release, Promise!InUse, usersNow, residentNow

LEMMA StepsShare ==
  SapwoodIInv /\ SapwoodIInv' /\ [SapwoodNext]_sapwoodVars
    => [Promise!SharedNext]_(Promise!sharedVars)
<1> SUFFICES ASSUME SapwoodIInv, SapwoodIInv', [SapwoodNext]_sapwoodVars
             PROVE  [Promise!SharedNext]_(Promise!sharedVars)
  OBVIOUS
<1>1. ServerInv /\ RefsExact /\ ServerInv' /\ RefsExact'
  BY DEF SapwoodIInv
<1>2. ASSUME \A f \in Files : Holders(f)' = Holders(f)
      PROVE  UNCHANGED Promise!sharedVars
  <2>1. usersNow' = usersNow /\ residentNow' = residentNow
    BY <1>1, <1>2, SameHoldersStutters
  <2> QED
    BY <2>1 DEF Promise!sharedVars, usersNow, residentNow
<1>3. CASE UNCHANGED serverVars
  BY <1>2, <1>3 DEF serverVars, Holders
<1>4. ASSUME NEW c \in Clients, Accept(c)
      PROVE  UNCHANGED Promise!sharedVars
  <2>1. nodes' = nodes /\ rep' = rep
    BY <1>4, AcceptKeepsIInv DEF Accept, AcceptClient
  <2> QED
    BY <1>2, <2>1 DEF Holders
<1>5. ASSUME NEW c \in Clients, ProcessOpen(c), ~UNCHANGED serverVars
      PROVE  Promise!SharedNext
  BY <1>5, ProcessOpenKeepsIInv, OpenAcquires
<1>6. ASSUME NEW c \in Clients, ProcessClose(c)
      PROVE  Promise!SharedNext
  <2>1. PICK f \in Files :
          /\ c \in Holders(f)
          /\ \A g \in Files : Holders(g)' = IF g = f THEN Holders(f) \ {c} ELSE Holders(g)
    BY <1>6, ProcessCloseKeepsIInv
  <2>2. Promise!Release(c, {f})
    BY <1>1, <2>1, CloseReleases
  <2> QED
    BY <2>2 DEF Promise!SharedNext
<1>7. ASSUME NEW c \in Clients, HangUp(c)
      PROVE  Promise!SharedNext
  <2> DEFINE F == {f \in Files : c \in Holders(f)}
  <2>1. \A g \in Files : Holders(g)' = IF g \in F THEN Holders(g) \ {c} ELSE Holders(g)
    BY <1>7, HangUpKeepsIInv
  <2>2. Promise!Release(c, F)
    BY <1>1, <2>1, CloseReleases
  <2>3. F = {f \in Files : c \in [g \in Files |-> Holders(g)][f]}
    OBVIOUS
  <2> QED
    BY <2>2, <2>3 DEF Promise!SharedNext
<1>8. \A c \in Clients, f \in Files :
        RequestOpen(c, f) \/ Paint(c, f) \/ CloseFile(c, f) => UNCHANGED serverVars
  BY DEF RequestOpen, Paint, CloseFile
<1>9. XFree => UNCHANGED serverVars
  BY DEF XFree
<1>10. \A c \in Clients :
         Start(c) \/ TakeReply(c) \/ Exit(c) \/ XPaint(c) => UNCHANGED serverVars
  BY DEF Start, TakeReply, Exit, XPaint
<1>11. UNCHANGED sapwoodVars => UNCHANGED serverVars
  BY DEF sapwoodVars
<1> QED
  BY <1>3, <1>4, <1>5, <1>6, <1>7, <1>8, <1>9, <1>10, <1>11 DEF SapwoodNext, ServerStep

LEMMA InitShares == SapwoodInit => Promise!SharedInit
<1> SUFFICES ASSUME SapwoodInit PROVE Promise!SharedInit
  OBVIOUS
<1>1. \A f \in Files : Holders(f) = {} /\ ~Cached(f)
  BY DEF SapwoodInit, ServerInit, Holders, Cached, NoNodes
<1> QED
  BY <1>1 DEF Promise!SharedInit

(* Each image is loaded when its first user opens it, kept for all of them *)
(* and released with the last, also when clients end without closing.      *)
THEOREM SapwoodSharesImages == SapwoodSpec => SharesImages
<1> QED
  BY SapwoodAlwaysIInv, InitShares, StepsShare, PTL
  DEF SapwoodSpec, SharesImages, Promise!SharedSpec
=============================================================================
