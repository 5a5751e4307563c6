--------------------------- MODULE SapwoodStream ---------------------------
(***************************************************************************)
(* How the Sapwood server cuts the byte streams of its clients into        *)
(* requests (client_sock_callback).  One buffer, with its fill level, is   *)
(* static: all connections share it.  A callback reads what fits, then     *)
(* calls process_buffer until the buffer is used up; a request that has    *)
(* not arrived as a whole makes process_buffer return 0.                   *)
(*                                                                         *)
(* Bytes are tagged with the request they belong to.  Every request of     *)
(* the clients is well formed; a write puts all of it into the socket.     *)
(***************************************************************************)
EXTENDS Naturals, Sequences

CONSTANTS
  Processes,
  Lengths,    \* lengths of requests: a close, opens with short and long names
  Header,     \* sizeof (PixbufBaseRequest)
  BufSize,    \* sizeof (PixbufOpenRequest) + PATH_MAX + 1
  MaxUnread,  \* most bytes a client has unread in its socket
  MaxSent     \* bound: requests sent by one client (state space only)

ASSUME StreamAssumption ==
  /\ Header \in Nat \ {0}
  /\ BufSize \in Nat /\ MaxUnread \in Nat /\ MaxSent \in Nat
  /\ \A len \in Lengths : len \in Nat /\ Header < len /\ len <= BufSize

VARIABLES
  linked,  \* clients with a connection
  sent,    \* per client: requests sent so far
  sock,    \* per client: bytes written and not read
  buf,     \* the used part of the static buffer, buflen bytes
  ofs,     \* the local offset of the callback that runs
  serving, \* the client whose callback runs, as a set of at most one
  done     \* per client: requests processed, in order

streamVars == <<linked, sent, sock, buf, ofs, serving, done>>

Byte == [client : Processes, req : 1 .. MaxSent, pos : Nat \ {0}, len : Lengths]

StreamTypeOK ==
  /\ linked \subseteq Processes
  /\ sent \in [Processes -> 0 .. MaxSent]
  /\ sock \in [Processes -> Seq(Byte)]
  /\ buf \in Seq(Byte) /\ Len(buf) <= BufSize
  /\ ofs \in 0 .. BufSize
  /\ serving \in SUBSET Processes
  /\ done \in [Processes -> Seq(1 .. MaxSent)]

StreamInit ==
  /\ linked = Processes
  /\ sent = [c \in Processes |-> 0]
  /\ sock = [c \in Processes |-> <<>>]
  /\ buf = <<>>
  /\ ofs = 0
  /\ serving = {}
  /\ done = [c \in Processes |-> <<>>]

(* write of pixbuf_proto_request *)
Write(c, len) ==
  /\ c \in linked
  /\ sent[c] < MaxSent
  /\ Len(sock[c]) + len <= MaxUnread
  /\ sent' = [sent EXCEPT ![c] = @ + 1]
  /\ sock' = [sock EXCEPT ![c] = @ \o
       [k \in 1 .. len |-> [client |-> c, req |-> sent[c] + 1, pos |-> k, len |-> len]]]
  /\ UNCHANGED <<linked, buf, ofs, serving, done>>

(* The callback reads behind what the buffer holds already. *)
ReadRequests(c) ==
  LET room == BufSize - Len(buf)
      n == IF Len(sock[c]) < room THEN Len(sock[c]) ELSE room
  IN  /\ serving = {}
      /\ sock[c] # <<>>
      /\ buf' = buf \o SubSeq(sock[c], 1, n)
      /\ sock' = [sock EXCEPT ![c] = SubSeq(@, n + 1, Len(@))]
      /\ serving' = {c}
      /\ ofs' = 0
      /\ UNCHANGED <<linked, sent, done>>

Left == Len(buf) - ofs
(* Mutant: a request is whole only when more follows it. *)
WholeStrict == Left >= Header /\ Left > buf[ofs + 1].len

Whole == Left >= Header /\ Left >= buf[ofs + 1].len

(* Mutant: the offset goes one past the request. *)
ProcessBufferPast(c) ==
  /\ serving = {c}
  /\ ofs < Len(buf)
  /\ IF Whole
     THEN /\ done' = [done EXCEPT ![c] = Append(@, buf[ofs + 1].req)]
          /\ ofs' = ofs + buf[ofs + 1].len + 1
     ELSE UNCHANGED <<done, ofs>>
  /\ UNCHANGED <<linked, sent, sock, buf, serving>>

(* One turn of the loop: process_buffer reads a request where it points.   *)
ProcessBuffer(c) ==
  /\ serving = {c}
  /\ ofs < Len(buf)
  /\ IF Whole
     THEN /\ done' = [done EXCEPT ![c] = Append(@, buf[ofs + 1].req)]
          /\ ofs' = ofs + buf[ofs + 1].len
     ELSE UNCHANGED <<done, ofs>>
  /\ UNCHANGED <<linked, sent, sock, buf, serving>>

(* Mutant: buflen is not reduced. *)
CallbackKeeps(c) ==
  /\ serving = {c}
  /\ ~ ofs < Len(buf)
  /\ serving' = {}
  /\ ofs' = 0
  /\ UNCHANGED <<linked, sent, sock, buf, done>>

(* After the loop the rest is moved to the front. *)
CallbackReturns(c) ==
  /\ serving = {c}
  /\ ~ ofs < Len(buf)
  /\ buf' = SubSeq(buf, ofs + 1, Len(buf))
  /\ serving' = {}
  /\ ofs' = 0
  /\ UNCHANGED <<linked, sent, sock, done>>

(* The client is gone: the callback of its connection reports the hang-up  *)
(* before it reads, and what it had written is lost.                       *)
CallbackHangUp(c) ==
  /\ serving = {}
  /\ c \in linked
  /\ linked' = linked \ {c}
  /\ sock' = [sock EXCEPT ![c] = <<>>]
  /\ UNCHANGED <<sent, buf, ofs, serving, done>>

ServeStep(c) == ReadRequests(c) \/ ProcessBuffer(c) \/ CallbackReturns(c)

StreamNext ==
  \E c \in Processes :
    \/ \E len \in Lengths : Write(c, len)
    \/ ServeStep(c)
    \/ CallbackHangUp(c)

(* Each ready connection is dispatched; the loop is not interrupted. *)
StreamSpec ==
  /\ StreamInit /\ [][StreamNext]_streamVars
  /\ \A c \in Processes : WF_streamVars(ServeStep(c))
-----------------------------------------------------------------------------
(* What a client sent is processed as sent: every request once, in order,  *)
(* for the client that sent it, though all clients share one buffer.       *)
RequestsInOrder ==
  /\ \A c \in Processes : \A k \in 1 .. Len(done[c]) : done[c][k] = k
  /\ \A k \in 1 .. Len(buf) : serving = {buf[k].client}
  /\ ofs < Len(buf) => buf[ofs + 1].pos = 1

(* "be prepared for partial and multiple requests in the buffer"           *)
(* (ChangeLog:1199): a callback comes to its end and lets the main loop    *)
(* serve the other clients.                                                *)
CallbackEnds == \A c \in Processes : serving = {c} ~> serving = {}

(* Nothing a client wrote stays unread for ever. *)
SocketsEmptied == \A c \in Processes : sock[c] # <<>> ~> sock[c] = <<>>

(* However the bytes of requests are cut by the sockets, the server reads the *)
(* requests each client wrote, in order. *)
StreamInv ==
  /\ StreamTypeOK
  /\ RequestsInOrder

=============================================================================
