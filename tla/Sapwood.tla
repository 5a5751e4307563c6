------------------------------ MODULE Sapwood ------------------------------
(***************************************************************************)
(* The Sapwood theme engine as a whole: processes that paint with theme    *)
(* pixmaps, the pixmap server, their sockets, and the X server that both   *)
(* talk to.  The server and the clients have an X connection each, and the *)
(* X server handles the requests of a connection in order but those of     *)
(* different connections in any order: a pixmap may be freed by the server *)
(* while a client still has painting under way that names it.              *)
(*                                                                         *)
(* A client opens each file once (its ThemePixbufs are canonical, see      *)
(* SapwoodTheme) and waits for the reply of an open; a close is not        *)
(* answered.  It may exit at any time, also between request and reply.     *)
(***************************************************************************)
EXTENDS SapwoodServer, Sequences

CONSTANTS
  NoFile,   \* no file
  Failed,   \* the one-byte error reply
  MaxQueue  \* bound: requests under way on one socket (state space only)

ASSUME SapwoodAssumption ==
  /\ NoFile \notin Files
  /\ Failed \notin Ids \union {NoId}
  /\ MaxQueue \in Nat

VARIABLES
  up,       \* per client: is the process running
  linked,   \* per client: its socket exists (fd # -1, or not yet reaped)
  sock,     \* per client: requests written and not yet processed
  reply,    \* per client: the reply under way, or NoId
  waiting,  \* per client: the file whose reply it is blocked on, or NoFile
  handle,   \* per client and file: id of the SapwoodPixmap, or NoId
  painting, \* per client: pixmaps named in its X requests under way
  xpixmaps, \* responses whose pixmaps exist in the X server
  freeing   \* responses whose XFreePixmap the server has issued

clientVars == <<up, linked, waiting, handle, painting>>
xVars == <<xpixmaps, freeing>>
sapwoodVars == <<serverVars, up, linked, sock, reply, waiting, handle, painting,
                 xpixmaps, freeing>>

Open(f) == [op |-> "open", file |-> f]
Close(i) == [op |-> "close", id |-> i]
Requests == {Open(f) : f \in Files} \union {Close(i) : i \in Ids}
NoHandles == [f \in Files |-> NoId]

SapwoodTypeOK ==
  /\ ServerTypeOK
  /\ up \in [Clients -> BOOLEAN]
  /\ linked \in [Clients -> BOOLEAN]
  /\ sock \in [Clients -> Seq(Requests)]
  /\ reply \in [Clients -> Ids \union {NoId, Failed}]
  /\ waiting \in [Clients -> Files \union {NoFile}]
  /\ handle \in [Clients -> [Files -> Ids \union {NoId}]]
  /\ painting \in [Clients -> SUBSET Ids]
  /\ xpixmaps \subseteq Ids
  /\ freeing \subseteq Ids

SapwoodInit ==
  /\ ServerInit
  /\ up = [c \in Clients |-> FALSE]
  /\ linked = [c \in Clients |-> FALSE]
  /\ sock = [c \in Clients |-> <<>>]
  /\ reply = [c \in Clients |-> NoId]
  /\ waiting = [c \in Clients |-> NoFile]
  /\ handle = [c \in Clients |-> NoHandles]
  /\ painting = [c \in Clients |-> {}]
  /\ xpixmaps = {}
  /\ freeing = {}

Ready(c) == up[c] /\ waiting[c] = NoFile
Send(c, req) == sock' = [sock EXCEPT ![c] = Append(@, req)]

-----------------------------------------------------------------------------
(***************************************************************************)
(* The clients.                                                            *)
(***************************************************************************)
Start(c) ==
  /\ ~up[c] /\ ~linked[c]
  /\ up' = [up EXCEPT ![c] = TRUE]
  /\ UNCHANGED <<serverVars, xVars, linked, sock, reply, waiting, handle, painting>>

(* Mutant: a file that has a pixmap is opened again. *)
RequestOpenAgain(c, f) ==
  /\ Ready(c)
  /\ Len(sock[c]) < MaxQueue
  /\ linked' = [linked EXCEPT ![c] = TRUE]
  /\ Send(c, Open(f))
  /\ waiting' = [waiting EXCEPT ![c] = f]
  /\ UNCHANGED <<serverVars, xVars, up, reply, handle, painting>>

(* theme_pixbuf_get_pixmap finds no pixmap; the first request connects.    *)
RequestOpen(c, f) ==
  /\ Ready(c)
  /\ handle[c][f] = NoId
  /\ Len(sock[c]) < MaxQueue
  /\ linked' = [linked EXCEPT ![c] = TRUE]
  /\ Send(c, Open(f))
  /\ waiting' = [waiting EXCEPT ![c] = f]
  /\ UNCHANGED <<serverVars, xVars, up, reply, handle, painting>>

(* Mutant: the error reply is taken for a response. *)
TakeReplyUnchecked(c) ==
  /\ up[c] /\ waiting[c] # NoFile /\ reply[c] # NoId
  /\ handle' = [handle EXCEPT ![c][waiting[c]] = reply[c]]
  /\ reply' = [reply EXCEPT ![c] = NoId]
  /\ waiting' = [waiting EXCEPT ![c] = NoFile]
  /\ UNCHANGED <<serverVars, xVars, up, linked, sock, painting>>

(* The rest of sapwood_pixmap_get_for_file; after an error the pixmap      *)
(* stays NULL, and the next painting tries again.                          *)
TakeReply(c) ==
  /\ up[c] /\ waiting[c] # NoFile /\ reply[c] # NoId
  /\ handle' = [handle EXCEPT ![c][waiting[c]] =
                  IF reply[c] = Failed THEN NoId ELSE reply[c]]
  /\ reply' = [reply EXCEPT ![c] = NoId]
  /\ waiting' = [waiting EXCEPT ![c] = NoFile]
  /\ UNCHANGED <<serverVars, xVars, up, linked, sock, painting>>

(* theme_pixbuf_render: the X requests that tile with the pixmap go out.   *)
Paint(c, f) ==
  /\ Ready(c)
  /\ handle[c][f] # NoId
  /\ painting' = [painting EXCEPT ![c] = @ \union {handle[c][f]}]
  /\ UNCHANGED <<serverVars, xVars, up, linked, sock, reply, waiting, handle>>

(* Mutant: the close is written without gdk_display_sync. *)
CloseUnsynced(c, f) ==
  /\ Ready(c)
  /\ handle[c][f] # NoId
  /\ Len(sock[c]) < MaxQueue
  /\ Send(c, Close(handle[c][f]))
  /\ handle' = [handle EXCEPT ![c][f] = NoId]
  /\ UNCHANGED <<serverVars, xVars, up, linked, painting, reply, waiting>>

(* Mutant: the pixmap of the ThemePixbuf is not forgotten. *)
CloseKeepsHandle(c, f) ==
  /\ Ready(c)
  /\ handle[c][f] # NoId
  /\ Len(sock[c]) < MaxQueue
  /\ painting' = [painting EXCEPT ![c] = {}]
  /\ Send(c, Close(handle[c][f]))
  /\ UNCHANGED <<serverVars, xVars, up, linked, handle, reply, waiting>>

(* sapwood_pixmap_free: gdk_display_sync waits until the X server has done *)
(* all painting of this client, and only then the close is written.        *)
CloseFile(c, f) ==
  /\ Ready(c)
  /\ handle[c][f] # NoId
  /\ Len(sock[c]) < MaxQueue
  /\ painting' = [painting EXCEPT ![c] = {}]
  /\ Send(c, Close(handle[c][f]))
  /\ handle' = [handle EXCEPT ![c][f] = NoId]
  /\ UNCHANGED <<serverVars, xVars, up, linked, reply, waiting>>

(* The process ends; what it had written stays in the socket.              *)
Exit(c) ==
  /\ up[c]
  /\ up' = [up EXCEPT ![c] = FALSE]
  /\ reply' = [reply EXCEPT ![c] = NoId]
  /\ waiting' = [waiting EXCEPT ![c] = NoFile]
  /\ handle' = [handle EXCEPT ![c] = NoHandles]
  /\ painting' = [painting EXCEPT ![c] = {}]
  /\ UNCHANGED <<serverVars, xVars, linked, sock>>

-----------------------------------------------------------------------------
(***************************************************************************)
(* The server.  pixbuf_open_response_destroy issues XFreePixmap requests;  *)
(* extract_pixmaps ends with gdk_flush, a round trip to the X server,      *)
(* before the reply is written.                                            *)
(***************************************************************************)
Destroyed == {rep[f] : f \in {g \in Files : Cached(g) /\ refs'[g] = 0}}

Accept(c) ==
  /\ linked[c] /\ AcceptClient(c)
  /\ UNCHANGED <<clientVars, xVars, sock, reply>>

(* Mutant: a file that cannot be loaded is not answered. *)
ReplyUnlessFailed(c, r) ==
  reply' = IF up[c] /\ r # Failed THEN [reply EXCEPT ![c] = r] ELSE reply

(* A reply to a client that is gone is lost (write fails with a warning).  *)
Reply(c, r) == reply' = IF up[c] THEN [reply EXCEPT ![c] = r] ELSE reply

(* Mutant: no gdk_flush at the end. *)
ExtractUnflushed(i) == UNCHANGED xVars

(* extract_pixmaps: the X server has the new pixmaps, and all requests     *)
(* issued before are done.                                                 *)
ExtractPixmaps(i) ==
  /\ xpixmaps' = (xpixmaps \ freeing) \union {i}
  /\ freeing' = {}

NextRequest(c, op) == conn[c] /\ sock[c] # <<>> /\ Head(sock[c]).op = op
Processed(c) == sock' = [sock EXCEPT ![c] = Tail(@)]

ProcessOpen(c) ==
  /\ NextRequest(c, "open")
  /\ LET f == Head(sock[c]).file IN
       \/ \E i \in Ids :
            /\ OpenAs(c, f, i)
            /\ Reply(c, i)
            /\ IF Cached(f) THEN UNCHANGED xVars ELSE ExtractPixmaps(i)
       \/ /\ OpenFails(c, f)
          /\ Reply(c, Failed)
          /\ UNCHANGED xVars
  /\ Processed(c)
  /\ UNCHANGED clientVars

ProcessClose(c) ==
  /\ NextRequest(c, "close")
  /\ LET i == Head(sock[c]).id IN CloseId(c, i) \/ CloseUnknown(c, i)
  /\ freeing' = freeing \union Destroyed
  /\ Processed(c)
  /\ UNCHANGED <<clientVars, xpixmaps, reply>>

(* The poll reports G_IO_HUP: what is left in the socket is not read.      *)
HangUp(c) ==
  /\ ~up[c]
  /\ ClientRemoved(c)
  /\ freeing' = freeing \union Destroyed
  /\ sock' = [sock EXCEPT ![c] = <<>>]
  /\ linked' = [linked EXCEPT ![c] = FALSE]
  /\ UNCHANGED <<up, waiting, handle, painting, xpixmaps, reply>>

-----------------------------------------------------------------------------
(***************************************************************************)
(* The X server.                                                           *)
(***************************************************************************)
XPaint(c) ==
  /\ painting[c] # {}
  /\ painting' = [painting EXCEPT ![c] = {}]
  /\ UNCHANGED <<serverVars, xVars, up, linked, sock, reply, waiting, handle>>

XFree ==
  /\ freeing # {}
  /\ xpixmaps' = xpixmaps \ freeing
  /\ freeing' = {}
  /\ UNCHANGED <<serverVars, clientVars, sock, reply>>

-----------------------------------------------------------------------------
ServerStep(c) == Accept(c) \/ ProcessOpen(c) \/ ProcessClose(c) \/ HangUp(c)

SapwoodNext ==
  \/ \E c \in Clients :
       \/ Start(c)
       \/ \E f \in Files : RequestOpen(c, f) \/ Paint(c, f) \/ CloseFile(c, f)
       \/ TakeReply(c)
       \/ Exit(c)
       \/ ServerStep(c)
       \/ XPaint(c)
  \/ XFree

(* GLib dispatches every ready socket in each iteration of the main loop,  *)
(* a blocked read returns, and the X server serves its connections.        *)
SapwoodFairness ==
  /\ \A c \in Clients : WF_sapwoodVars(ServerStep(c)) /\ WF_sapwoodVars(TakeReply(c))
  /\ WF_sapwoodVars(XFree)

SapwoodSpec == SapwoodInit /\ [][SapwoodNext]_sapwoodVars
SapwoodFairSpec == SapwoodSpec /\ SapwoodFairness
-----------------------------------------------------------------------------
(* Painting under way never names a pixmap the X server has freed: "or we  *)
(* risk causing BadPixmap error" (sapwood_pixmap_free).                    *)
NoBadPixmap ==
  \A c \in Clients : painting[c] \subseteq xpixmaps

(* What a client believes to have open is the response the server keeps    *)
(* for that very file, with its pixmaps in place: no id is stale, also not *)
(* one whose address was freed and used again.                             *)
HandlesLive ==
  \A c \in Clients, f \in Files :
    handle[c][f] # NoId => /\ rep[f] = handle[c][f]
                           /\ nodes[c][rep[f]] = 1
                           /\ rep[f] \in xpixmaps \ freeing

(* "make sure the server has the pixmaps before the client": when a reply  *)
(* is under way gdk_pixmap_foreign_new will find its pixmaps.              *)
RepliesUsable ==
  \A c \in Clients :
    reply[c] \in Ids => /\ waiting[c] \in Files
                        /\ rep[waiting[c]] = reply[c]
                        /\ reply[c] \in xpixmaps \ freeing

(* "close failed, no such pixmap" is never reported for these clients.     *)
ClosesKnown ==
  \A c \in Clients, k \in 1 .. MaxQueue :
    k <= Len(sock[c]) /\ sock[c][k].op = "close" =>
      conn[c] /\ nodes[c][sock[c][k].id] > 0

(* With clients that open a file at most once the server is exact: images  *)
(* are resident while, and only while, some client has them open.          *)
Promise == INSTANCE SharedImages
             WITH users <- [f \in Files |-> Holders(f)],
                  resident <- {f \in Files : Cached(f)}
SharesImages == Promise!SharedSpec

(* A client that waits for a reply gets one, or ends.                      *)
OpensAnswered ==
  \A c \in Clients : waiting[c] # NoFile ~> waiting[c] = NoFile

(* The pixmaps of an image nobody uses any more are freed, also when its   *)
(* last client just went away.                                             *)
UnusedFreed ==
  \A i \in Ids :
    i \in xpixmaps /\ (\A c \in Clients : ~up[c])
      ~> (i \notin xpixmaps \/ \E c \in Clients : up[c])

(* What clients and server hold about pixmaps agrees: nobody uses a pixmap that *)
(* is gone, and no reply or close names one the other side does not know. *)
SapwoodInv ==
  /\ SapwoodTypeOK
  /\ NoBadPixmap
  /\ HandlesLive
  /\ RepliesUsable
  /\ ClosesKnown

=============================================================================
