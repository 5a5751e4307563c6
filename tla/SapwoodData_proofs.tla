-------------------------- MODULE SapwoodData_proofs --------------------------
(***************************************************************************)
(* That the server reads the requests each client wrote, in order, for any *)
(* processes, lengths of requests and sizes of buffer and socket; and that *)
(* the engine counts the references of images and pixbufs exactly, for any *)
(* files, images, styles and size of the counters.                         *)
(***************************************************************************)
EXTENDS SapwoodStream, SapwoodTheme, FiniteSetTheorems, TLAPS


(* The bytes of client c the server has not used yet: what is left in the   *)
(* static buffer while it serves c, then what is in the socket.             *)
Held(c) == IF serving = {c} THEN Len(buf) - ofs ELSE 0
Total(c) == Held(c) + Len(sock[c])
Pending(c) ==
  [k \in 1 .. Total(c) |-> IF k <= Held(c) THEN buf[ofs + k] ELSE sock[c][k - Held(c)]]

(* n bytes of client c that begin with the first byte of request "first".   *)
(* Of any two, the later one belongs to the same request if it is so close, *)
(* and to the next one if it is the first behind that.                      *)
WellCut(s, n, c, first) ==
  /\ \A k \in 1 .. n : s[k] \in Byte /\ s[k].client = c /\ s[k].pos <= s[k].len
  /\ n > 0 => s[1].pos = 1 /\ s[1].req = first
  /\ \A k, m \in 1 .. n : k < m =>
       /\ m - k <= s[k].len - s[k].pos =>
            s[m].req = s[k].req /\ s[m].len = s[k].len /\ s[m].pos = s[k].pos + (m - k)
       /\ m - k = s[k].len - s[k].pos + 1 => s[m].pos = 1 /\ s[m].req = s[k].req + 1

(* They end with the last byte of request "last". *)
EndsWith(s, n, first, last) ==
  IF n = 0 THEN first = last + 1 ELSE s[n].pos = s[n].len /\ s[n].req = last

ClientSound(c) ==
  /\ WellCut(Pending(c), Total(c), c, Len(done[c]) + 1)
  /\ c \in linked => EndsWith(Pending(c), Total(c), Len(done[c]) + 1, sent[c])
  /\ \A k \in 1 .. Len(done[c]) : done[c][k] = k

BufferSound ==
  /\ ofs <= Len(buf)
  /\ serving = {} => buf = <<>>
  /\ \A k \in 1 .. Len(buf) : serving = {buf[k].client}

StreamIInv ==
  /\ StreamTypeOK
  /\ BufferSound
  /\ \A c \in Processes : ClientSound(c)

LEMMA ByteFact ==
  ASSUME NEW x \in Byte
  PROVE  /\ x.pos \in Nat /\ x.pos > 0 /\ x.len \in Nat /\ x.len > 0 /\ x.len <= BufSize
         /\ x.req \in Nat /\ x.req \in 1 .. MaxSent
BY StreamAssumption DEF Byte

LEMMA SizesFact ==
  ASSUME StreamIInv, NEW c \in Processes
  PROVE  /\ Len(buf) \in Nat /\ ofs \in Nat /\ Len(sock[c]) \in Nat /\ Held(c) \in Nat /\ Total(c) \in Nat
         /\ Len(done[c]) \in Nat /\ sent[c] \in 0 .. MaxSent /\ sock[c] \in Seq(Byte) /\ buf \in Seq(Byte)
         /\ Held(c) <= Len(buf)
<1>1. Len(buf) \in Nat /\ ofs \in Nat /\ Len(sock[c]) \in Nat /\ ofs <= Len(buf)
      /\ sock[c] \in Seq(Byte) /\ buf \in Seq(Byte)
  BY StreamAssumption DEF StreamIInv, StreamTypeOK, BufferSound
<1>2. Len(done[c]) \in Nat /\ sent[c] \in 0 .. MaxSent
  BY DEF StreamIInv, StreamTypeOK
<1>3. Held(c) \in Nat /\ Held(c) <= Len(buf)
  BY <1>1 DEF Held
<1>4. Total(c) \in Nat
  BY <1>1, <1>3 DEF Total
<1> QED
  BY <1>1, <1>2, <1>3, <1>4

LEMMA StreamIInvImpliesInv == StreamIInv => StreamInv
<1> SUFFICES ASSUME StreamIInv PROVE RequestsInOrder
  BY DEF StreamIInv, StreamInv
<1>1. ASSUME ofs < Len(buf) PROVE buf[ofs + 1].pos = 1
  <2>1. ofs \in Nat /\ Len(buf) \in Nat /\ buf \in Seq(Byte)
    BY StreamAssumption DEF StreamIInv, StreamTypeOK
  <2>2. serving = {buf[1].client} /\ buf[1] \in Byte
    BY <1>1, <2>1 DEF StreamIInv, BufferSound
  <2>3. PICK c \in Processes : serving = {c}
    BY <2>2 DEF Byte
  <2>4. Held(c) = Len(buf) - ofs /\ Held(c) > 0 /\ Total(c) >= Held(c) /\ Total(c) \in Nat
    BY <1>1, <2>1, <2>3, SizesFact DEF Held, Total
  <2>5. Pending(c)[1] = buf[ofs + 1]
    BY <2>1, <2>4 DEF Pending
  <2>6. Pending(c)[1].pos = 1
    <3>1. WellCut(Pending(c), Total(c), c, Len(done[c]) + 1)
      BY DEF StreamIInv, ClientSound
    <3>2. Total(c) > 0
      BY <2>1, <2>4
    <3> QED
      BY <3>1, <3>2 DEF WellCut
  <2> QED
    BY <2>5, <2>6
<1> QED
  BY <1>1 DEF StreamIInv, RequestsInOrder, BufferSound, ClientSound

(* A client whose bytes stay what they are stays sound. *)
LEMMA SamePending ==
  ASSUME NEW c \in Processes, ClientSound(c), Total(c)' = Total(c), Total(c) \in Nat,
         \A k \in 1 .. Total(c) : Pending(c)'[k] = Pending(c)[k],
         done'[c] = done[c], sent'[c] = sent[c], linked' \subseteq linked
  PROVE  ClientSound(c)'
<1> DEFINE s == Pending(c)
           t == Pending(c)'
           n == Total(c)
<1>1. \A k \in 1 .. n : t[k] = s[k]
  OBVIOUS
<1>2. n \in Nat /\ Total(c)' = n
  OBVIOUS
<1>3. WellCut(s, n, c, Len(done[c]) + 1)
  BY DEF ClientSound
<1>4. c \in linked => EndsWith(s, n, Len(done[c]) + 1, sent[c])
  BY DEF ClientSound
<1> HIDE DEF s, t, n
<1>5. WellCut(t, n, c, Len(done[c]) + 1)
  <2>1. \A k \in 1 .. n : t[k] \in Byte /\ t[k].client = c /\ t[k].pos <= t[k].len
    BY <1>1, <1>3 DEF WellCut
  <2>2. n > 0 => t[1].pos = 1 /\ t[1].req = Len(done[c]) + 1
    BY <1>1, <1>2, <1>3 DEF WellCut
  <2>3. ASSUME NEW k \in 1 .. n, NEW m \in 1 .. n, k < m
        PROVE  /\ m - k <= t[k].len - t[k].pos =>
                    t[m].req = t[k].req /\ t[m].len = t[k].len /\ t[m].pos = t[k].pos + (m - k)
               /\ m - k = t[k].len - t[k].pos + 1 => t[m].pos = 1 /\ t[m].req = t[k].req + 1
    <3>1. t[k] = s[k] /\ t[m] = s[m]
      BY <1>1
    <3> QED
      BY <1>3, <2>3, <3>1 DEF WellCut
  <2> QED
    BY <2>1, <2>2, <2>3 DEF WellCut
<1>6. c \in linked => EndsWith(t, n, Len(done[c]) + 1, sent[c])
  BY <1>1, <1>2, <1>4 DEF EndsWith
<1> QED
  BY <1>2, <1>5, <1>6 DEF ClientSound, t, n

(* A request is written behind the others. *)
LEMMA WriteFact ==
  ASSUME NEW c \in Processes, NEW n \in Nat, NEW s, NEW first \in Nat, NEW last \in Nat,
         WellCut(s, n, c, first), EndsWith(s, n, first, last),
         NEW len \in Lengths, last < MaxSent, NEW t,
         \A k \in 1 .. n : t[k] = s[k],
         \A k \in 1 .. len : t[n + k] = [client |-> c, req |-> last + 1, pos |-> k, len |-> len]
  PROVE  WellCut(t, n + len, c, first) /\ EndsWith(t, n + len, first, last + 1)
<1> USE StreamAssumption
<1>1. len \in Nat /\ len > 0
  OBVIOUS
<1>2. \A k \in n + 1 .. n + len :
        t[k] \in Byte /\ t[k].client = c /\ t[k].req = last + 1 /\ t[k].pos = k - n /\ t[k].len = len
  <2> SUFFICES ASSUME NEW k \in n + 1 .. n + len
               PROVE  t[k] \in Byte /\ t[k].client = c /\ t[k].req = last + 1
                      /\ t[k].pos = k - n /\ t[k].len = len
    OBVIOUS
  <2>1. k - n \in 1 .. len /\ n + (k - n) = k
    BY <1>1
  <2>2. t[k] = [client |-> c, req |-> last + 1, pos |-> k - n, len |-> len]
    BY <2>1
  <2>3. last + 1 \in 1 .. MaxSent /\ k - n \in Nat \ {0}
    BY <2>1
  <2> QED
    BY <2>2, <2>3 DEF Byte
<1>3. \A k \in 1 .. n : /\ s[k] \in Byte /\ s[k].client = c /\ s[k].pos <= s[k].len
                        /\ s[k].pos \in Nat /\ s[k].len \in Nat /\ s[k].req \in Nat
  BY ByteFact DEF WellCut
<1>4. EndsWith(t, n + len, first, last + 1)
  BY <1>1, <1>2 DEF EndsWith
<1>5. \A k \in 1 .. n + len : t[k] \in Byte /\ t[k].client = c /\ t[k].pos <= t[k].len
  <2> TAKE k \in 1 .. n + len
  <2>1. CASE k \in 1 .. n
    BY <1>3, <2>1
  <2>2. CASE k \in n + 1 .. n + len
    BY <1>1, <1>2, <2>2
  <2> QED
    BY <1>1, <2>1, <2>2
<1>6. t[1].pos = 1 /\ t[1].req = first
  <2>1. CASE n = 0
    BY <1>1, <1>2, <2>1 DEF EndsWith
  <2>2. CASE n > 0
    BY <2>2 DEF WellCut
  <2> QED
    BY <2>1, <2>2
<1>7. ASSUME NEW k \in 1 .. n + len, NEW m \in 1 .. n + len, k < m
      PROVE  /\ m - k <= t[k].len - t[k].pos =>
                  t[m].req = t[k].req /\ t[m].len = t[k].len /\ t[m].pos = t[k].pos + (m - k)
             /\ m - k = t[k].len - t[k].pos + 1 => t[m].pos = 1 /\ t[m].req = t[k].req + 1
  <2>1. CASE m \in 1 .. n
    <3>1. k \in 1 .. n /\ t[k] = s[k] /\ t[m] = s[m]
      BY <1>7, <2>1
    <3> QED
      BY <1>7, <2>1, <3>1 DEF WellCut
  <2>2. CASE k \in n + 1 .. n + len
    <3>1. m \in n + 1 .. n + len
      BY <1>1, <1>7, <2>2
    <3> QED
      BY <1>1, <1>2, <1>7, <2>2, <3>1
  <2>3. CASE k \in 1 .. n /\ m \in n + 1 .. n + len
    <3>1. n > 0 /\ s[n].pos = s[n].len /\ s[n].req = last /\ t[k] = s[k] /\ n \in 1 .. n
      BY <2>3 DEF EndsWith
    <3>2. k < n => /\ n - k <= s[k].len - s[k].pos =>
                        s[n].req = s[k].req /\ s[n].len = s[k].len /\ s[n].pos = s[k].pos + (n - k)
                   /\ n - k = s[k].len - s[k].pos + 1 => s[n].pos = 1 /\ s[n].req = s[k].req + 1
      BY <2>3, <3>1 DEF WellCut
    <3>3. ~(m - k <= s[k].len - s[k].pos)
      BY <1>3, <2>3, <3>1, <3>2
    <3>4. m - k = s[k].len - s[k].pos + 1 => m = n + 1 /\ s[k].req = last
      BY <1>3, <2>3, <3>1, <3>2
    <3> QED
      BY <1>1, <1>2, <2>3, <3>1, <3>3, <3>4
  <2> QED
    BY <1>1, <1>7, <2>1, <2>2, <2>3
<1> QED
  BY <1>4, <1>5, <1>6, <1>7 DEF WellCut

(* A whole request is used up. *)
LEMMA ProcessFact ==
  ASSUME NEW c \in Processes, NEW n \in Nat, NEW s, NEW first \in Nat, WellCut(s, n, c, first),
         n > 0, s[1].len <= n, NEW t,
         \A k \in 1 .. n - s[1].len : t[k] = s[k + s[1].len]
  PROVE  /\ WellCut(t, n - s[1].len, c, first + 1)
         /\ \A last \in Nat : EndsWith(s, n, first, last) => EndsWith(t, n - s[1].len, first + 1, last)
<1> DEFINE l == s[1].len
           r == n - l
<1>1. l \in Nat /\ l > 0 /\ r \in Nat /\ s[1].pos = 1 /\ s[1].req = first /\ l <= n
  BY ByteFact DEF WellCut
<1>2. \A k \in 1 .. r : t[k] = s[k + l] /\ k + l \in 1 .. n
  BY <1>1
<1> HIDE DEF r
<1> HIDE DEF l
<1>3. \A k \in 1 .. r : t[k] \in Byte /\ t[k].client = c /\ t[k].pos <= t[k].len
  BY <1>2 DEF WellCut
<1>4. r > 0 => t[1].pos = 1 /\ t[1].req = first + 1
  <2> SUFFICES ASSUME r > 0 PROVE t[1].pos = 1 /\ t[1].req = first + 1
    OBVIOUS
  <2>1. 1 \in 1 .. r /\ t[1] = s[1 + l] /\ 1 + l \in 1 .. n /\ 1 \in 1 .. n /\ 1 < 1 + l
    BY <1>1, <1>2
  <2>2. (1 + l) - 1 = s[1].len - s[1].pos + 1
    BY <1>1 DEF l
  <2>3. s[1 + l].pos = 1 /\ s[1 + l].req = s[1].req + 1
    BY <2>1, <2>2 DEF WellCut
  <2> QED
    BY <1>1, <2>1, <2>3
<1>5. ASSUME NEW k \in 1 .. r, NEW m \in 1 .. r, k < m
      PROVE  /\ m - k <= t[k].len - t[k].pos =>
                  t[m].req = t[k].req /\ t[m].len = t[k].len /\ t[m].pos = t[k].pos + (m - k)
             /\ m - k = t[k].len - t[k].pos + 1 => t[m].pos = 1 /\ t[m].req = t[k].req + 1
  <2>1. /\ t[k] = s[k + l] /\ t[m] = s[m + l] /\ k + l \in 1 .. n /\ m + l \in 1 .. n
        /\ k + l < m + l /\ (m + l) - (k + l) = m - k
    BY <1>1, <1>2, <1>5
  <2> QED
    BY <2>1 DEF WellCut
<1>6. WellCut(t, r, c, first + 1)
  BY <1>3, <1>4, <1>5 DEF WellCut
<1>7. ASSUME NEW last \in Nat, EndsWith(s, n, first, last)
      PROVE  EndsWith(t, r, first + 1, last)
  <2>1. s[n].pos = s[n].len /\ s[n].req = last
    BY <1>7 DEF EndsWith
  <2>2. CASE r > 0
    BY <1>1, <1>2, <2>1, <2>2 DEF EndsWith, r
  <2>3. CASE r = 0
    <3>1. n = l
      BY <1>1, <2>3 DEF r
    <3>2. n > 1 => s[n].req = s[1].req
      <4> SUFFICES ASSUME n > 1 PROVE s[n].req = s[1].req
        OBVIOUS
      <4>1. n \in 1 .. n /\ 1 \in 1 .. n /\ 1 < n /\ n - 1 <= s[1].len - s[1].pos
        BY <1>1, <3>1 DEF l
      <4> QED
        BY <4>1 DEF WellCut
    <3>3. first = last
      BY <1>1, <2>1, <3>1, <3>2
    <3> QED
      BY <2>3, <3>3 DEF EndsWith
  <2> QED
    BY <1>1, <2>2, <2>3
<1> QED
  BY <1>6, <1>7 DEF r, l

LEMMA WriteStep ==
  ASSUME StreamIInv, NEW c \in Processes, NEW len \in Lengths, Write(c, len)
  PROVE  StreamIInv'
<1> USE StreamAssumption
<1> DEFINE new == [k \in 1 .. len |-> [client |-> c, req |-> sent[c] + 1, pos |-> k, len |-> len]]
<1>1. /\ c \in linked /\ sent[c] < MaxSent /\ len \in Nat /\ len > 0
      /\ linked' = linked /\ buf' = buf /\ ofs' = ofs /\ serving' = serving /\ done' = done
      /\ sent' = [sent EXCEPT ![c] = sent[c] + 1]
      /\ sock' = [sock EXCEPT ![c] = sock[c] \o new]
  BY DEF Write
<1>2. sent[c] \in Nat /\ sent[c] + 1 \in 1 .. MaxSent /\ sock[c] \in Seq(Byte)
      /\ sent \in [Processes -> 0 .. MaxSent] /\ sock \in [Processes -> Seq(Byte)]
  BY <1>1 DEF StreamIInv, StreamTypeOK
<1>3. new \in Seq(Byte) /\ Len(new) = len
  <2>1. \A k \in 1 .. len : [client |-> c, req |-> sent[c] + 1, pos |-> k, len |-> len] \in Byte
    BY <1>1, <1>2 DEF Byte
  <2> QED
    BY <1>1, <2>1
<1>4. \A k \in 1 .. len : new[k] = [client |-> c, req |-> sent[c] + 1, pos |-> k, len |-> len]
  OBVIOUS
<1> HIDE DEF new
<1> DEFINE long == sock[c] \o new
<1>5. /\ long \in Seq(Byte) /\ Len(long) = Len(sock[c]) + len /\ Len(sock[c]) \in Nat
      /\ \A k \in 1 .. Len(sock[c]) : long[k] = sock[c][k]
      /\ \A k \in 1 .. len : long[Len(sock[c]) + k] = new[k]
  <2> DEFINE old == sock[c]
  <2>1. old \in Seq(Byte) /\ new \in Seq(Byte) /\ Len(new) = len /\ len \in Nat
    BY <1>1, <1>2, <1>3
  <2> HIDE DEF old
  <2>2. /\ old \o new \in Seq(Byte) /\ Len(old \o new) = Len(old) + len /\ Len(old) \in Nat
    BY <2>1
  <2>3. \A k \in 1 .. Len(old) : (old \o new)[k] = old[k]
    BY <2>1
  <2>4. \A k \in 1 .. len : (old \o new)[Len(old) + k] = new[k]
    BY <2>1
  <2> QED
    BY <2>2, <2>3, <2>4 DEF old
<1>6. sock'[c] = long /\ \A d \in Processes \ {c} : sock'[d] = sock[d]
  BY <1>1, <1>2
<1> HIDE DEF long
<1>7. StreamTypeOK'
  BY <1>1, <1>2, <1>5, <1>6 DEF StreamIInv, StreamTypeOK, long
<1>8. BufferSound'
  BY <1>1 DEF StreamIInv, BufferSound
<1>9. \A d \in Processes : Held(d)' = Held(d)
  BY <1>1 DEF Held
<1>10. ASSUME NEW d \in Processes, d # c PROVE ClientSound(d)'
  <2>1. Total(d)' = Total(d) /\ Total(d) \in Nat
    BY <1>6, <1>9, <1>10, SizesFact DEF Total
  <2>2. \A k \in 1 .. Total(d) : Pending(d)'[k] = Pending(d)[k]
    BY <1>1, <1>6, <1>9, <1>10, <2>1 DEF Pending
  <2>3. sent'[d] = sent[d] /\ done'[d] = done[d]
    BY <1>1, <1>2, <1>10
  <2> QED
    BY <1>1, <2>1, <2>2, <2>3, SamePending DEF StreamIInv
<1>11. ClientSound(c)'
  <2> DEFINE s == Pending(c)
             n == Total(c)
             t == Pending(c)'
             first == Len(done[c]) + 1
  <2>1. /\ n \in Nat /\ Held(c) \in Nat /\ n = Held(c) + Len(sock[c]) /\ first \in Nat
        /\ Total(c)' = n + len
    <3>1. n \in Nat /\ Held(c) \in Nat /\ Len(done[c]) \in Nat
      BY SizesFact
    <3>2. n = Held(c) + Len(sock[c]) /\ Total(c)' = Held(c) + Len(long)
      BY <1>6, <1>9 DEF Total
    <3>3. len \in Nat
      BY <1>1
    <3>4. Len(long) = Len(sock[c]) + len /\ Len(sock[c]) \in Nat
      BY <1>5, SizesFact
    <3> HIDE DEF n
    <3> QED
      BY <3>1, <3>2, <3>3, <3>4
  <2>2. \A k \in 1 .. n : t[k] = s[k]
    <3> TAKE k \in 1 .. n
    <3>1. k \in 1 .. n + len
      <4>1. len \in Nat
        BY <1>1
      <4> HIDE DEF n
      <4> QED
        BY <2>1, <4>1
    <3>2. t[k] = IF k <= Held(c) THEN buf[ofs + k] ELSE long[k - Held(c)]
      <4>1. Held(c)' = Held(c) /\ Total(c)' = n + len /\ sock'[c] = long /\ buf' = buf /\ ofs' = ofs
        BY <1>1, <1>6, <1>9, <2>1
      <4> HIDE DEF n
      <4> QED
        BY <3>1, <4>1 DEF Pending
    <3>3. s[k] = IF k <= Held(c) THEN buf[ofs + k] ELSE sock[c][k - Held(c)]
      BY DEF Pending
    <3>4. k > Held(c) => k - Held(c) \in 1 .. Len(sock[c])
      <4>1. n = Held(c) + Len(sock[c]) /\ Held(c) \in Nat /\ n \in Nat
        BY <2>1
      <4>2. Len(sock[c]) \in Nat
        BY <1>5
      <4> DEFINE held == Held(c)
                 waiting == Len(sock[c])
      <4> HIDE DEF n, held, waiting
      <4>3. k <= held + waiting /\ held \in Nat /\ waiting \in Nat /\ k \in Nat
        BY <4>1, <4>2 DEF held, waiting
      <4>4. k > held => k - held \in 1 .. waiting
        BY <4>3
      <4> QED
        BY <4>4 DEF held, waiting
    <3> HIDE DEF s, n, t
    <3>5. CASE k <= Held(c)
      BY <3>2, <3>3, <3>5
    <3>6. CASE ~ (k <= Held(c))
      <4>1. k - Held(c) \in 1 .. Len(sock[c])
        BY <2>1, <3>4, <3>6
      <4>2. t[k] = long[k - Held(c)] /\ s[k] = sock[c][k - Held(c)]
        BY <3>2, <3>3, <3>6
      <4>3. long[k - Held(c)] = sock[c][k - Held(c)]
        BY <1>5, <4>1
      <4> QED
        BY <4>2, <4>3
    <3> QED
      BY <3>5, <3>6
  <2>3. \A k \in 1 .. len : t[n + k] = new[k]
    <3>1. \A j \in 1 .. n + len :
            t[j] = IF j <= Held(c) THEN buf[ofs + j] ELSE long[j - Held(c)]
      <4>1. /\ Total(c)' = n + len /\ Held(c)' = Held(c)
            /\ buf' = buf /\ ofs' = ofs /\ sock'[c] = long
        BY <1>1, <1>6, <1>9, <2>1
      <4>2. t = [k \in 1 .. Total(c)' |->
                  IF k <= Held(c)' THEN buf'[ofs' + k] ELSE sock'[c][k - Held(c)']]
        BY DEF Pending
      <4> HIDE DEF n, t
      <4> TAKE j \in 1 .. n + len
      <4> QED
        BY <4>1, <4>2
    <3>2. len \in Nat /\ Len(sock[c]) \in Nat
      BY <1>1, <1>5
    <3>3. \A k \in 1 .. len : long[Len(sock[c]) + k] = new[k]
      BY <1>5
    <3> DEFINE h == Held(c)
               m == Len(sock[c])
    <3>4. h \in Nat /\ m \in Nat /\ n = h + m
      BY <2>1, <3>2
    <3>5. \A j \in 1 .. n + len : j > h => t[j] = long[j - h]
      <4> HIDE DEF n, t
      <4> TAKE j \in 1 .. n + len
      <4> HAVE j > h
      <4>1. ~ (j <= h)
        BY <2>1, <3>2
      <4> QED
        BY <3>1, <4>1
    <3>6. \A k \in 1 .. len : long[m + k] = new[k]
      BY <3>3
    <3> HIDE DEF n, t, h, m
    <3> TAKE k \in 1 .. len
    <3>7. n + k \in 1 .. n + len /\ n + k > h /\ (n + k) - h = m + k
      BY <3>2, <3>4
    <3> QED
      BY <3>5, <3>6, <3>7
  <2>4. WellCut(s, n, c, first) /\ EndsWith(s, n, first, sent[c])
    BY <1>1 DEF StreamIInv, ClientSound
  <2>5. \A k \in 1 .. Len(done[c]) : done[c][k] = k
    BY DEF StreamIInv, ClientSound
  <2>6. sent'[c] = sent[c] + 1 /\ done'[c] = done[c]
    BY <1>1, <1>2
  <2> HIDE DEF s, n, t, first
  <2>7. WellCut(t, n + len, c, first) /\ EndsWith(t, n + len, first, sent[c] + 1)
    <3>1. \A k \in 1 .. len : t[n + k] = [client |-> c, req |-> sent[c] + 1, pos |-> k, len |-> len]
      BY <1>4, <2>3
    <3> QED
      BY <1>1, <1>2, <2>1, <2>2, <2>4, <3>1, WriteFact
  <2> QED
    BY <2>1, <2>5, <2>6, <2>7 DEF ClientSound, t, first
<1> QED
  BY <1>7, <1>8, <1>10, <1>11 DEF StreamIInv

LEMMA ReadStep ==
  ASSUME StreamIInv, NEW c \in Processes, ReadRequests(c)
  PROVE  StreamIInv'
<1> DEFINE n == IF Len(sock[c]) < BufSize - Len(buf) THEN Len(sock[c]) ELSE BufSize - Len(buf)
<1>1. /\ serving = {} /\ serving' = {c} /\ ofs' = 0
      /\ buf' = buf \o SubSeq(sock[c], 1, n)
      /\ sock' = [sock EXCEPT ![c] = SubSeq(sock[c], n + 1, Len(sock[c]))]
      /\ linked' = linked /\ sent' = sent /\ done' = done
  BY DEF ReadRequests
<1>2. /\ buf = <<>> /\ sock[c] \in Seq(Byte) /\ Len(sock[c]) \in Nat /\ BufSize \in Nat
      /\ sock \in [Processes -> Seq(Byte)]
  BY <1>1, StreamAssumption DEF StreamIInv, StreamTypeOK, BufferSound
<1>3. n \in 0 .. Len(sock[c]) /\ n <= BufSize
  BY <1>2
<1> HIDE DEF n
<1>4. /\ SubSeq(sock[c], 1, n) \in Seq(Byte) /\ Len(SubSeq(sock[c], 1, n)) = n
      /\ \A k \in 1 .. n : SubSeq(sock[c], 1, n)[k] = sock[c][k]
  BY <1>2, <1>3
<1>5. /\ buf' \in Seq(Byte) /\ Len(buf') = n
      /\ \A k \in 1 .. n : buf'[k] = sock[c][k]
  BY <1>1, <1>2, <1>4
<1>6. /\ sock'[c] \in Seq(Byte) /\ Len(sock'[c]) = Len(sock[c]) - n
      /\ \A k \in 1 .. Len(sock[c]) - n : sock'[c][k] = sock[c][k + n]
      /\ \A d \in Processes \ {c} : sock'[d] = sock[d]
      /\ sock' \in [Processes -> Seq(Byte)]
  BY <1>1, <1>2, <1>3
<1>7. /\ \A d \in Processes : Held(d) = 0 /\ Total(d) = Len(sock[d]) /\ Total(d) \in Nat
      /\ \A d \in Processes : \A k \in 1 .. Total(d) : Pending(d)[k] = sock[d][k]
  <2> SUFFICES ASSUME NEW d \in Processes
               PROVE  /\ Held(d) = 0 /\ Total(d) = Len(sock[d]) /\ Total(d) \in Nat
                      /\ \A k \in 1 .. Total(d) : Pending(d)[k] = sock[d][k]
    OBVIOUS
  <2>1. Held(d) = 0
    BY <1>1 DEF Held
  <2>2. Total(d) = Len(sock[d]) /\ Total(d) \in Nat
    BY <2>1, SizesFact DEF Total
  <2> QED
    BY <2>1, <2>2 DEF Pending
<1>8. Held(c)' = n /\ \A d \in Processes \ {c} : Held(d)' = 0
  <2>1. serving' = {c} /\ ofs' = 0
    BY <1>1
  <2>2. Len(buf') = n /\ n \in Nat
    BY <1>3, <1>5
  <2> QED
    BY <2>1, <2>2 DEF Held
<1>9. StreamTypeOK'
  <2>1. buf' \in Seq(Byte) /\ Len(buf') <= BufSize /\ ofs' \in 0 .. BufSize
    BY <1>1, <1>2, <1>3, <1>5
  <2>2. serving' \in SUBSET Processes
    BY <1>1
  <2> QED
    BY <1>1, <1>6, <2>1, <2>2 DEF StreamIInv, StreamTypeOK
<1>10. BufferSound'
  <2>1. \A k \in 1 .. n : sock[c][k].client = c
    <3>1. WellCut(Pending(c), Total(c), c, Len(done[c]) + 1)
      BY DEF StreamIInv, ClientSound
    <3> QED
      BY <1>2, <1>3, <1>7, <3>1 DEF WellCut
  <2> QED
    BY <1>1, <1>3, <1>5, <2>1 DEF BufferSound
<1>11. ASSUME NEW d \in Processes, d # c PROVE ClientSound(d)'
  <2>1. Total(d)' = Total(d)
    BY <1>6, <1>7, <1>8, <1>11 DEF Total
  <2>2. \A k \in 1 .. Total(d) : Pending(d)'[k] = Pending(d)[k]
    BY <1>6, <1>7, <1>8, <1>11, <2>1 DEF Pending
  <2> QED
    BY <1>1, <1>7, <2>1, <2>2, SamePending DEF StreamIInv
<1>12. ClientSound(c)'
  <2>1. Total(c)' = Total(c)
    BY <1>2, <1>3, <1>6, <1>7, <1>8 DEF Total
  <2>2. ASSUME NEW k \in 1 .. Total(c) PROVE Pending(c)'[k] = Pending(c)[k]
    <3>1. Pending(c)'[k] = IF k <= n THEN buf'[k] ELSE sock'[c][k - n]
      <4>1. Held(c)' = n /\ Total(c)' = Total(c) /\ ofs' = 0
        BY <1>1, <1>8, <2>1
      <4>2. Pending(c)' = [j \in 1 .. Total(c)' |->
                             IF j <= Held(c)' THEN buf'[ofs' + j] ELSE sock'[c][j - Held(c)']]
        BY DEF Pending
      <4>3. k \in Nat /\ 0 + k = k
        BY <1>7
      <4> QED
        BY <4>1, <4>2, <4>3
    <3>2. k > n => k - n \in 1 .. Len(sock[c]) - n /\ (k - n) + n = k
      BY <1>2, <1>3, <1>7
    <3>3. k <= n => k \in 1 .. n
      BY <1>3
    <3>4. Pending(c)[k] = sock[c][k]
      BY <1>7
    <3>5. CASE k <= n
      BY <1>5, <3>1, <3>3, <3>4, <3>5
    <3>6. CASE k > n
      <4>1. k - n \in 1 .. Len(sock[c]) - n /\ (k - n) + n = k
        BY <3>2, <3>6
      <4>2. sock'[c][k - n] = sock[c][(k - n) + n]
        BY <1>6, <4>1
      <4>3. ~(k <= n)
        BY <1>3, <3>6
      <4> QED
        BY <3>1, <3>4, <4>1, <4>2, <4>3
    <3> QED
      BY <1>3, <3>5, <3>6
  <2> QED
    BY <1>1, <1>7, <2>1, <2>2, SamePending DEF StreamIInv
<1> QED
  BY <1>9, <1>10, <1>11, <1>12 DEF StreamIInv

LEMMA ProcessStep ==
  ASSUME StreamIInv, NEW c \in Processes, ProcessBuffer(c)
  PROVE  StreamIInv'
<1>1. /\ serving = {c} /\ ofs < Len(buf) /\ serving' = serving
      /\ linked' = linked /\ sent' = sent /\ sock' = sock /\ buf' = buf
  BY DEF ProcessBuffer
<1>2. CASE ~Whole
  <2>1. UNCHANGED <<done, ofs>>
    BY <1>2 DEF ProcessBuffer
  <2>2. \A d \in Processes : Total(d)' = Total(d) /\ Pending(d)' = Pending(d)
    BY <1>1, <2>1 DEF Total, Held, Pending
  <2> QED
    BY <1>1, <2>1, <2>2 DEF StreamIInv, StreamTypeOK, BufferSound, ClientSound
<1>3. CASE Whole
  <2> DEFINE l == buf[ofs + 1].len
             s == Pending(c)
             n == Total(c)
             t == Pending(c)'
             first == Len(done[c]) + 1
  <2>1. /\ done' = [done EXCEPT ![c] = Append(done[c], buf[ofs + 1].req)]
        /\ ofs' = ofs + l
    BY <1>3 DEF ProcessBuffer
  <2>2. /\ Len(buf) \in Nat /\ ofs \in Nat /\ Len(buf) <= BufSize /\ BufSize \in Nat
        /\ Len(sock[c]) \in Nat /\ n \in Nat /\ first \in Nat /\ done[c] \in Seq(1 .. MaxSent)
        /\ done \in [Processes -> Seq(1 .. MaxSent)]
    BY SizesFact, StreamAssumption DEF StreamIInv, StreamTypeOK
  <2>3. Held(c) = Len(buf) - ofs /\ n = Len(buf) - ofs + Len(sock[c])
    BY <1>1 DEF Held, Total
  <2>4. buf[ofs + 1] \in Byte /\ l \in Nat /\ l > 0 /\ l <= Len(buf) - ofs
    <3>1. ofs + 1 \in 1 .. Len(buf) /\ buf \in Seq(Byte)
      BY <1>1, <2>2 DEF StreamIInv, StreamTypeOK
    <3>2. buf[ofs + 1] \in Byte
      BY <3>1
    <3> QED
      BY <1>3, <3>2, ByteFact DEF Whole, Left
  <2>5. s[1] = buf[ofs + 1] /\ n > 0 /\ s[1].len = l
    BY <1>1, <2>2, <2>3 DEF Pending
  <2>6. WellCut(s, n, c, first) /\ (c \in linked => EndsWith(s, n, first, sent[c]))
    BY DEF StreamIInv, ClientSound
  <2>7. s[1].req = first
    BY <2>5, <2>6 DEF WellCut
  <2>8. /\ done'[c] = Append(done[c], first)
        /\ \A d \in Processes \ {c} : done'[d] = done[d]
        /\ first \in 1 .. MaxSent
    BY <2>1, <2>2, <2>4, <2>5, <2>7, ByteFact
  <2>9. Held(c)' = Held(c) - l /\ Total(c)' = n - l
    <3>1. Held(c)' = Len(buf) - (ofs + l)
      BY <1>1, <2>1 DEF Held
    <3>2. Total(c)' = Held(c)' + Len(sock[c])
      BY <1>1 DEF Total
    <3> HIDE DEF l
    <3> QED
      BY <2>2, <2>3, <2>4, <3>1, <3>2
  <2>10. \A k \in 1 .. n - l : t[k] = s[k + l]
    <3> TAKE k \in 1 .. n - l
    <3>1. t[k] = IF k <= Held(c) - l THEN buf[(ofs + l) + k] ELSE sock[c][k - (Held(c) - l)]
      BY <1>1, <2>1, <2>9 DEF Pending
    <3>2. k + l \in 1 .. n
      <4> HIDE DEF l, n
      <4> QED
        BY <2>2, <2>4
    <3>3. s[k + l] = IF k + l <= Held(c) THEN buf[ofs + (k + l)] ELSE sock[c][(k + l) - Held(c)]
      BY <3>2 DEF Pending
    <3>4. (k <= Held(c) - l <=> k + l <= Held(c)) /\ (ofs + l) + k = ofs + (k + l)
          /\ k - (Held(c) - l) = (k + l) - Held(c)
      <4>1. Held(c) \in Nat
        BY SizesFact
      <4> HIDE DEF l, n
      <4> QED
        BY <2>2, <2>4, <4>1
    <3> QED
      BY <3>1, <3>3, <3>4
  <2>11. /\ Len(done'[c]) = first /\ done'[c] \in Seq(1 .. MaxSent)
         /\ \A k \in 1 .. Len(done[c]) : done'[c][k] = done[c][k]
         /\ done'[c][first] = first
    BY <2>2, <2>8
  <2>12. \A k \in 1 .. first : done'[c][k] = k
    <3>1. \A k \in 1 .. Len(done[c]) : done[c][k] = k
      BY DEF StreamIInv, ClientSound
    <3>2. \A k \in 1 .. Len(done[c]) : done'[c][k] = k
      BY <2>11, <3>1
    <3>3. \A k \in 1 .. first : k = first \/ k \in 1 .. Len(done[c])
      BY <2>2
    <3> HIDE DEF first
    <3> QED
      BY <2>11, <3>2, <3>3
  <2>13. StreamTypeOK'
    <3>1. done' \in [Processes -> Seq(1 .. MaxSent)]
      BY <2>1, <2>2, <2>5, <2>7, <2>8, <2>11
    <3>2. ofs' \in 0 .. BufSize
      <4> HIDE DEF l
      <4> QED
        BY <2>1, <2>2, <2>4
    <3> QED
      BY <1>1, <3>1, <3>2 DEF StreamIInv, StreamTypeOK
  <2>14. BufferSound'
    <3>1. ofs' <= Len(buf')
      <4>1. Len(buf') = Len(buf)
        BY <1>1
      <4> HIDE DEF l
      <4> QED
        BY <2>1, <2>2, <2>4, <4>1
    <3>2. serving' # {} /\ \A k \in 1 .. Len(buf') : serving' = {buf'[k].client}
      BY <1>1 DEF StreamIInv, BufferSound
    <3> QED
      BY <3>1, <3>2 DEF BufferSound
  <2>15. ASSUME NEW d \in Processes, d # c PROVE ClientSound(d)'
    <3>1. Held(d) = 0 /\ Held(d)' = 0
      BY <1>1, <2>15 DEF Held
    <3>2. Total(d)' = Total(d) /\ Pending(d)' = Pending(d)
      BY <1>1, <3>1 DEF Total, Pending
    <3> QED
      BY <1>1, <2>8, <2>15, <3>2, SizesFact, SamePending DEF StreamIInv
  <2>16. ClientSound(c)'
    <3> HIDE DEF l, s, n, t, first
    <3>1. sent[c] \in Nat
      BY SizesFact
    <3>2. WellCut(t, n - l, c, first + 1) /\ (c \in linked => EndsWith(t, n - l, first + 1, sent[c]))
      <4>1. s[1].len = l /\ n > 0 /\ n \in Nat /\ first \in Nat /\ l <= n
        BY <2>2, <2>3, <2>4, <2>5
      <4>2. \A k \in 1 .. n - s[1].len : t[k] = s[k + s[1].len]
        BY <2>10, <4>1
      <4>3. /\ WellCut(t, n - s[1].len, c, first + 1)
            /\ \A last \in Nat : EndsWith(s, n, first, last) => EndsWith(t, n - s[1].len, first + 1, last)
        BY <2>6, <4>1, <4>2, ProcessFact
      <4> QED
        BY <2>6, <3>1, <4>1, <4>3
    <3> QED
      BY <1>1, <2>9, <2>11, <2>12, <3>2 DEF ClientSound, t
  <2> QED
    BY <2>13, <2>14, <2>15, <2>16 DEF StreamIInv
<1> QED
  BY <1>2, <1>3

LEMMA ReturnStep ==
  ASSUME StreamIInv, NEW c \in Processes, CallbackReturns(c)
  PROVE  StreamIInv'
<1>1. /\ serving = {c} /\ ~(ofs < Len(buf)) /\ serving' = {} /\ ofs' = 0
      /\ buf' = SubSeq(buf, ofs + 1, Len(buf))
      /\ linked' = linked /\ sent' = sent /\ sock' = sock /\ done' = done
  BY DEF CallbackReturns
<1>2. ofs = Len(buf) /\ Len(buf) \in Nat /\ buf \in Seq(Byte)
  <2>1. Len(buf) \in Nat /\ ofs \in Nat /\ buf \in Seq(Byte)
    BY SizesFact
  <2>2. ofs <= Len(buf)
    BY DEF StreamIInv, BufferSound
  <2> QED
    BY <1>1, <2>1, <2>2
<1>3. buf' = <<>>
  BY <1>1, <1>2
<1>4. \A d \in Processes : Held(d) = 0 /\ Held(d)' = 0
  BY <1>1, <1>2 DEF Held
<1>5. \A d \in Processes : Total(d)' = Total(d) /\ Total(d) \in Nat
  BY <1>1, <1>4, SizesFact DEF Total
<1>6. \A d \in Processes : \A k \in 1 .. Total(d) : Pending(d)'[k] = Pending(d)[k]
  BY <1>1, <1>4, <1>5 DEF Pending
<1>7. \A d \in Processes : ClientSound(d)'
  BY <1>1, <1>5, <1>6, SamePending DEF StreamIInv
<1>8. StreamTypeOK' /\ BufferSound'
  BY <1>1, <1>3, StreamAssumption DEF StreamIInv, StreamTypeOK, BufferSound
<1> QED
  BY <1>7, <1>8 DEF StreamIInv

LEMMA HangUpStep ==
  ASSUME StreamIInv, NEW c \in Processes, CallbackHangUp(c)
  PROVE  StreamIInv'
<1>1. /\ serving = {} /\ serving' = {} /\ linked' = linked \ {c}
      /\ sock' = [sock EXCEPT ![c] = <<>>]
      /\ sent' = sent /\ buf' = buf /\ ofs' = ofs /\ done' = done
  BY DEF CallbackHangUp
<1>2. sock \in [Processes -> Seq(Byte)]
  BY DEF StreamIInv, StreamTypeOK
<1>3. sock'[c] = <<>> /\ \A d \in Processes \ {c} : sock'[d] = sock[d]
  BY <1>1, <1>2
<1>4. \A d \in Processes : Held(d) = 0 /\ Held(d)' = 0
  BY <1>1 DEF Held
<1>5. StreamTypeOK' /\ BufferSound'
  BY <1>1, <1>2 DEF StreamIInv, StreamTypeOK, BufferSound
<1>6. ASSUME NEW d \in Processes, d # c PROVE ClientSound(d)'
  <2>1. Total(d)' = Total(d) /\ Total(d) \in Nat
    BY <1>3, <1>4, <1>6, SizesFact DEF Total
  <2>2. \A k \in 1 .. Total(d) : Pending(d)'[k] = Pending(d)[k]
    BY <1>3, <1>4, <1>6, <2>1 DEF Pending
  <2> QED
    BY <1>1, <2>1, <2>2, SamePending DEF StreamIInv
<1>7. ClientSound(c)'
  <2>1. Total(c)' = 0
    BY <1>3, <1>4 DEF Total
  <2>2. c \notin linked'
    BY <1>1
  <2>3. \A k \in 1 .. Len(done[c]) : done[c][k] = k
    BY DEF StreamIInv, ClientSound
  <2> QED
    BY <1>1, <2>1, <2>2, <2>3 DEF ClientSound, WellCut
<1> QED
  BY <1>5, <1>6, <1>7 DEF StreamIInv

(* process_buffer of sapwood-server.c takes from the shared static buffer the *)
(* requests each client wrote: each once, in order, and for that client,       *)
(* however sockets and buffer cut them; and each begins at a header.           *)
THEOREM StreamSafe == StreamSpec => []StreamInv
<1>1. StreamInit => StreamIInv
  <2> SUFFICES ASSUME StreamInit PROVE StreamIInv
    OBVIOUS
  <2>1. /\ Len(buf) = 0 /\ buf = <<>> /\ ofs = 0 /\ serving = {}
        /\ \A c \in Processes : sock[c] = <<>> /\ done[c] = <<>> /\ sent[c] = 0
    BY DEF StreamInit
  <2>2. StreamTypeOK
    BY StreamAssumption DEF StreamInit, StreamTypeOK
  <2>3. BufferSound
    BY <2>1 DEF BufferSound
  <2>4. ASSUME NEW c \in Processes PROVE ClientSound(c)
    <3>1. Held(c) = 0 /\ Total(c) = 0 /\ Len(done[c]) = 0 /\ sent[c] = 0
      BY <2>1 DEF Held, Total
    <3> QED
      BY <3>1 DEF ClientSound, WellCut, EndsWith
  <2> QED
    BY <2>2, <2>3, <2>4 DEF StreamIInv
<1>2. StreamIInv /\ [StreamNext]_streamVars => StreamIInv'
  <2> SUFFICES ASSUME StreamIInv, [StreamNext]_streamVars PROVE StreamIInv'
    OBVIOUS
  <2>1. ASSUME UNCHANGED streamVars PROVE StreamIInv'
    <3>1. /\ linked' = linked /\ sent' = sent /\ sock' = sock /\ buf' = buf /\ ofs' = ofs
          /\ serving' = serving /\ done' = done
      BY <2>1 DEF streamVars
    <3>2. \A d \in Processes : Total(d)' = Total(d) /\ Pending(d)' = Pending(d)
      BY <3>1 DEF Total, Held, Pending
    <3>3. \A d \in Processes : ClientSound(d)'
      BY <3>1, <3>2 DEF StreamIInv, ClientSound
    <3>4. StreamTypeOK' /\ BufferSound'
      BY <3>1 DEF StreamIInv, StreamTypeOK, BufferSound
    <3> QED
      BY <3>3, <3>4 DEF StreamIInv
  <2> QED
    BY <2>1, WriteStep, ReadStep, ProcessStep, ReturnStep, HangUpStep DEF StreamNext, ServeStep
<1>3. StreamIInv => StreamInv
  BY StreamIInvImpliesInv
<1> QED
  BY <1>1, <1>2, <1>3, PTL DEF StreamSpec

-----------------------------------------------------------------------------
(* The places of image i in the lists l of the styles of lv, and the slots of *)
(* the images of "some" that name file f when "img" are the images.           *)
PlacesIn(l, lv, i) == UNION {{s} \X {k \in DOMAIN l[s] : l[s][k] = i} : s \in lv}
SlotsIn(img, f, some) == {p \in some \X Slots : img[p[1]].files[p[2]] = f}

(* The counts and the pixmaps are those of the images in the lists; an image  *)
(* without references names nothing, or its address could not be used again.  *)
CountsExact ==
  /\ \A i \in Images : image[i].refcount = Cardinality(Places(i))
  /\ \A f \in Files : pbref[f] = Cardinality(SlotsOf(f, Images))
  /\ \A i \in Images : image[i].refcount = 0 => image[i].files = NoFiles
  /\ \A f \in opened : pbref[f] > 0

ThemeIInv ==
  /\ ThemeTypeOK
  /\ NoUseAfterFree
  /\ status = "running" => CountsExact

LEMMA OccursFact ==
  ASSUME NEW seq \in Seq(Images), NEW i
  PROVE  /\ IsFiniteSet({k \in DOMAIN seq : seq[k] = i})
         /\ Occurs(i, seq) \in Nat
         /\ Occurs(i, seq) = 0 <=> \A k \in 1 .. Len(seq) : seq[k] # i
<1>1. IsFiniteSet(1 .. Len(seq)) /\ DOMAIN seq = 1 .. Len(seq)
  BY FS_Interval
<1>2. IsFiniteSet({k \in DOMAIN seq : seq[k] = i})
  BY <1>1, FS_Subset
<1> DEFINE K == {k \in DOMAIN seq : seq[k] = i}
<1>3. K = {} <=> \A k \in 1 .. Len(seq) : seq[k] # i
  BY <1>1
<1>4. IsFiniteSet(K) /\ Occurs(i, seq) = Cardinality(K)
  BY <1>2 DEF Occurs
<1>5. Cardinality(K) \in Nat /\ (Cardinality(K) = 0 <=> K = {})
  <2> HIDE DEF K
  <2> QED
    BY <1>4, FS_CardinalityType, FS_EmptySet
<1> QED
  BY <1>2, <1>3, <1>4, <1>5

(* Two lists one behind the other hold what both hold. *)
LEMMA OccursAppended ==
  ASSUME NEW p \in Seq(Images), NEW q \in Seq(Images), NEW i
  PROVE  Occurs(i, p \o q) = Occurs(i, p) + Occurs(i, q)
<1> DEFINE P == {k \in DOMAIN p : p[k] = i}
           Q == {k \in DOMAIN q : q[k] = i}
           moved == [k \in Q |-> Len(p) + k]
           M == {k \in Len(p) + 1 .. Len(p) + Len(q) : q[k - Len(p)] = i}
<1>1. /\ DOMAIN p = 1 .. Len(p) /\ DOMAIN q = 1 .. Len(q) /\ Len(p) \in Nat /\ Len(q) \in Nat
      /\ DOMAIN (p \o q) = 1 .. Len(p) + Len(q)
      /\ \A k \in 1 .. Len(p) + Len(q) :
           (p \o q)[k] = IF k <= Len(p) THEN p[k] ELSE q[k - Len(p)]
  OBVIOUS
<1>2. IsFiniteSet(P) /\ IsFiniteSet(Q) /\ Cardinality(P) = Occurs(i, p) /\ Cardinality(Q) = Occurs(i, q)
  BY OccursFact DEF Occurs
<1>3. moved \in Bijection(Q, M)
  <2>1. \A k \in Q : moved[k] \in M
    BY <1>1
  <2>2. \A j, k \in Q : moved[j] = moved[k] => j = k
    BY <1>1
  <2>3. \A m \in M : m - Len(p) \in Q /\ moved[m - Len(p)] = m
    BY <1>1
  <2> HIDE DEF Q, M
  <2>4. moved \in [Q -> M] /\ \A m \in M : \E k \in Q : moved[k] = m
    BY <2>1, <2>3
  <2> QED
    BY <2>2, <2>4 DEF Bijection, Injection, IsInjective, Surjection
<1>4. IsFiniteSet(M) /\ Cardinality(M) = Cardinality(Q)
  <2>1. ExistsBijection(Q, M)
    BY <1>3 DEF ExistsBijection
  <2> HIDE DEF P, Q, M, moved
  <2> QED
    BY <1>2, <2>1, FS_Bijection
<1>5. P \cap M = {}
  BY <1>1
<1>6. {k \in DOMAIN (p \o q) : (p \o q)[k] = i} = P \cup M
  BY <1>1
<1>7. Cardinality(P \cup M) = Cardinality(P) + Cardinality(M)
  <2> HIDE DEF P, Q, M, moved
  <2>1. Cardinality(P \cap M) = 0 /\ Cardinality(P) \in Nat /\ Cardinality(M) \in Nat
    BY <1>2, <1>4, <1>5, FS_EmptySet, FS_CardinalityType
  <2>2. Cardinality(P \cup M) = Cardinality(P) + Cardinality(M) - Cardinality(P \cap M)
    BY <1>2, <1>4, FS_Union, Zenon
  <2> QED
    BY <2>1, <2>2
<1>8. Occurs(i, p \o q) = Cardinality(P \cup M)
  BY <1>6 DEF Occurs
<1> HIDE DEF P, Q, M, moved
<1> QED
  BY <1>2, <1>4, <1>7, <1>8

LEMMA OccursOnce ==
  ASSUME NEW x \in Images, NEW i
  PROVE  Occurs(i, <<x>>) = IF x = i THEN 1 ELSE 0
<1>1. DOMAIN <<x>> = {1} /\ <<x>>[1] = x
  OBVIOUS
<1>2. {k \in DOMAIN <<x>> : <<x>>[k] = i} = IF x = i THEN {1} ELSE {}
  BY <1>1
<1> QED
  BY <1>2, FS_Singleton, FS_EmptySet DEF Occurs

(* A list turned round holds what it held. *)
LEMMA OccursReversed ==
  ASSUME NEW seq \in Seq(Images), NEW i
  PROVE  /\ Reversed(seq) \in Seq(Images)
         /\ Occurs(i, Reversed(seq)) = Occurs(i, seq)
<1> DEFINE S == {k \in DOMAIN seq : seq[k] = i}
           R == {k \in DOMAIN Reversed(seq) : Reversed(seq)[k] = i}
           turned == [k \in S |-> Len(seq) - k + 1]
<1>1. /\ DOMAIN seq = 1 .. Len(seq) /\ Len(seq) \in Nat
      /\ Reversed(seq) = [k \in 1 .. Len(seq) |-> seq[Len(seq) + 1 - k]]
      /\ \A k \in 1 .. Len(seq) : seq[k] \in Images
  BY DEF Reversed
<1>2. /\ DOMAIN Reversed(seq) = 1 .. Len(seq)
      /\ \A k \in 1 .. Len(seq) : Reversed(seq)[k] = seq[Len(seq) + 1 - k]
  BY <1>1
<1>3. Reversed(seq) \in Seq(Images)
  BY <1>1
<1>4. turned \in Bijection(S, R)
  <2>1. \A k \in S : turned[k] \in R
    BY <1>1, <1>2
  <2>2. \A j, k \in S : turned[j] = turned[k] => j = k
    BY <1>1
  <2>3. \A m \in R : Len(seq) - m + 1 \in S /\ turned[Len(seq) - m + 1] = m
    BY <1>1, <1>2
  <2> HIDE DEF S, R
  <2>4. turned \in [S -> R] /\ \A m \in R : \E k \in S : turned[k] = m
    BY <2>1, <2>3
  <2> QED
    BY <2>2, <2>4 DEF Bijection, Injection, IsInjective, Surjection
<1>5. IsFiniteSet(S) /\ Cardinality(S) = Occurs(i, seq) /\ Cardinality(R) = Occurs(i, Reversed(seq))
  BY OccursFact DEF Occurs
<1>6. ExistsBijection(S, R)
  BY <1>4 DEF ExistsBijection
<1> HIDE DEF S, R, turned
<1> QED
  BY <1>3, <1>5, <1>6, FS_Bijection

LEMMA PlacesFact ==
  ASSUME NEW l \in [Styles -> Seq(Images)], NEW lv \in SUBSET Styles, NEW i
  PROVE  /\ IsFiniteSet(PlacesIn(l, lv, i))
         /\ Cardinality(PlacesIn(l, lv, i)) \in Nat
         /\ \A p : p \in PlacesIn(l, lv, i) <=>
                     \E s \in lv : \E k \in DOMAIN l[s] : p = <<s, k>> /\ l[s][k] = i
<1> DEFINE In(s) == {s} \X {k \in DOMAIN l[s] : l[s][k] = i}
           in == [s \in lv |-> In(s)]
           All == {In(s) : s \in lv}
<1>1. \A s \in lv : IsFiniteSet(In(s))
  <2> TAKE s \in lv
  <2>1. IsFiniteSet({k \in DOMAIN l[s] : l[s][k] = i})
    BY OccursFact
  <2> QED
    BY <2>1, FS_Singleton, FS_Product
<1>2. IsFiniteSet(All)
  <2>1. IsFiniteSet(lv)
    BY ThemeAssumption, FS_Subset
  <2>2. in \in Surjection(lv, All)
    <3> HIDE DEF In
    <3> QED
      BY DEF Surjection
  <2> HIDE DEF in, All
  <2> QED
    BY <2>1, <2>2, FS_Surjection
<1>3. IsFiniteSet(UNION All)
  <2>1. \A T \in All : IsFiniteSet(T)
    BY <1>1
  <2> HIDE DEF All
  <2> QED
    BY <1>2, <2>1, FS_UNION
<1>4. PlacesIn(l, lv, i) = UNION All
  BY DEF PlacesIn
<1>5. \A p : p \in PlacesIn(l, lv, i) <=>
                     \E s \in lv : \E k \in DOMAIN l[s] : p = <<s, k>> /\ l[s][k] = i
  BY DEF PlacesIn
<1> HIDE DEF All
<1> QED
  BY <1>3, <1>4, <1>5, FS_CardinalityType

(* Without one style there are fewer places by those in its list. *)
LEMMA PlacesWithout ==
  ASSUME NEW l \in [Styles -> Seq(Images)], NEW lv \in SUBSET Styles, NEW i, NEW s \in lv
  PROVE  /\ Cardinality(PlacesIn(l, lv \ {s}, i)) + Occurs(i, l[s]) = Cardinality(PlacesIn(l, lv, i))
         /\ Occurs(i, l[s]) \in Nat
         /\ Cardinality(PlacesIn(l, lv \ {s}, i)) \in Nat
<1> DEFINE K == {k \in DOMAIN l[s] : l[s][k] = i}
           A == PlacesIn(l, lv \ {s}, i)
           B == {s} \X K
<1>1. IsFiniteSet(K) /\ Cardinality(K) = Occurs(i, l[s]) /\ Cardinality(K) \in Nat
  BY OccursFact DEF Occurs
<1>2. IsFiniteSet(B) /\ Cardinality(B) = Cardinality(K)
  <2> HIDE DEF K
  <2>1. IsFiniteSet({s}) /\ Cardinality({s}) = 1
    BY FS_Singleton
  <2>2. IsFiniteSet(B) /\ Cardinality(B) = Cardinality({s}) * Cardinality(K)
    BY <1>1, <2>1, FS_Product
  <2> QED
    BY <1>1, <2>1, <2>2
<1>3. IsFiniteSet(A) /\ Cardinality(A) \in Nat
  BY PlacesFact
<1>4. A \cap B = {}
  BY PlacesFact
<1>5. PlacesIn(l, lv, i) = A \cup B
  BY DEF PlacesIn
<1> HIDE DEF A, B, K
<1>6. Cardinality(A \cap B) = 0
  BY <1>4, FS_EmptySet
<1>7. Cardinality(A \cup B) = Cardinality(A) + Cardinality(B)
  <2>1. Cardinality(A \cup B) = Cardinality(A) + Cardinality(B) - Cardinality(A \cap B)
    BY <1>2, <1>3, FS_Union, Zenon
  <2> QED
    BY <1>1, <1>2, <1>3, <1>6, <2>1
<1>8. /\ Cardinality(A) + Occurs(i, l[s]) = Cardinality(PlacesIn(l, lv, i))
      /\ Occurs(i, l[s]) \in Nat /\ Cardinality(A) \in Nat
  BY <1>1, <1>2, <1>3, <1>5, <1>7
<1> QED
  BY <1>8 DEF A

LEMMA UsesFact ==
  ASSUME NEW files, NEW f
  PROVE  /\ IsFiniteSet({s \in Slots : files[s] = f})
         /\ Uses(files, f) \in Nat
         /\ (\A s \in Slots : files[s] # f) => Uses(files, f) = 0
<1> DEFINE S == {s \in Slots : files[s] = f}
<1>1. IsFiniteSet(S)
  BY ThemeAssumption, FS_Subset
<1>2. Uses(files, f) = Cardinality(S)
  BY DEF Uses
<1>3. (\A s \in Slots : files[s] # f) => S = {}
  OBVIOUS
<1>4. Cardinality(S) \in Nat /\ (S = {} => Cardinality(S) = 0)
  <2> HIDE DEF S
  <2> QED
    BY <1>1, FS_CardinalityType, FS_EmptySet
<1> QED
  BY <1>1, <1>2, <1>3, <1>4

LEMMA SlotsFact ==
  ASSUME NEW img, NEW f, NEW some \in SUBSET Images
  PROVE  /\ IsFiniteSet(SlotsIn(img, f, some))
         /\ Cardinality(SlotsIn(img, f, some)) \in Nat
<1>1. IsFiniteSet(some \X Slots)
  <2>1. IsFiniteSet(some)
    BY ThemeAssumption, FS_Subset
  <2> QED
    BY <2>1, ThemeAssumption, FS_Product
<1>2. SlotsIn(img, f, some) \in SUBSET (some \X Slots)
  BY DEF SlotsIn
<1> QED
  BY <1>1, <1>2, FS_Subset, FS_CardinalityType

(* One image names a file as often as its slots do. *)
LEMMA SlotsWithout ==
  ASSUME NEW img, NEW f, NEW i \in Images
  PROVE  Cardinality(SlotsIn(img, f, Images))
           = Cardinality(SlotsIn(img, f, Images \ {i})) + Uses(img[i].files, f)
<1> DEFINE S == {s \in Slots : img[i].files[s] = f}
           A == SlotsIn(img, f, Images \ {i})
           B == {i} \X S
<1>1. IsFiniteSet(S) /\ Cardinality(S) = Uses(img[i].files, f) /\ Cardinality(S) \in Nat
  BY UsesFact DEF Uses
<1>2. IsFiniteSet(B) /\ Cardinality(B) = Cardinality(S)
  <2> HIDE DEF S
  <2>1. IsFiniteSet({i}) /\ Cardinality({i}) = 1
    BY FS_Singleton
  <2>2. IsFiniteSet(B) /\ Cardinality(B) = Cardinality({i}) * Cardinality(S)
    BY <1>1, <2>1, FS_Product
  <2> QED
    BY <1>1, <2>1, <2>2
<1>3. IsFiniteSet(A) /\ Cardinality(A) \in Nat
  BY SlotsFact
<1>4. A \cap B = {}
  BY DEF SlotsIn
<1>5. SlotsIn(img, f, Images) = A \cup B
  BY DEF SlotsIn
<1> HIDE DEF A, B, S
<1>6. Cardinality(A \cap B) = 0
  BY <1>4, FS_EmptySet
<1>7. Cardinality(A \cup B) = Cardinality(A) + Cardinality(B)
  <2>1. Cardinality(A \cup B) = Cardinality(A) + Cardinality(B) - Cardinality(A \cap B)
    BY <1>2, <1>3, FS_Union, Zenon
  <2> QED
    BY <1>1, <1>2, <1>3, <1>6, <2>1
<1>8. Cardinality(SlotsIn(img, f, Images)) = Cardinality(A) + Uses(img[i].files, f)
  BY <1>1, <1>2, <1>5, <1>7
<1> QED
  BY <1>8 DEF A

(* Images of "gone" that no longer name anything leave the slots of the rest. *)
LEMMA SlotsGivenUp ==
  ASSUME NEW img, NEW new, NEW gone \in SUBSET Images, NEW f \in Files,
         \A i \in gone : new[i].files = NoFiles,
         \A i \in Images \ gone : new[i].files = img[i].files
  PROVE  /\ Cardinality(SlotsIn(new, f, Images))
              = Cardinality(SlotsIn(img, f, Images)) - Cardinality(SlotsIn(img, f, gone))
         /\ Cardinality(SlotsIn(new, f, Images)) \in Nat
         /\ Cardinality(SlotsIn(img, f, gone)) \in Nat
<1> DEFINE A == SlotsIn(img, f, Images)
           B == SlotsIn(img, f, gone)
           C == SlotsIn(new, f, Images)
<1>1. IsFiniteSet(A) /\ Cardinality(B) \in Nat /\ Cardinality(C) \in Nat
  BY SlotsFact
<1>2. \A s \in Slots : NoFiles[s] # f
  BY ThemeAssumption DEF NoFiles
<1>3. C = A \ B
  BY <1>2 DEF SlotsIn
<1>4. A \cap B = B
  BY DEF SlotsIn
<1> HIDE DEF A, B, C
<1>5. Cardinality(A \ B) = Cardinality(A) - Cardinality(A \cap B)
  BY <1>1, FS_Difference, Zenon
<1>6. Cardinality(C) = Cardinality(A) - Cardinality(B) /\ Cardinality(C) \in Nat /\ Cardinality(B) \in Nat
  BY <1>1, <1>3, <1>4, <1>5
<1> QED
  BY <1>6 DEF A, B, C

LEMMA NamedOnce ==
  ASSUME ThemeTypeOK, CountsExact
  PROVE  /\ \A i \in Images : /\ Cardinality(PlacesIn(list, live, i)) = image[i].refcount
                              /\ image[i].refcount \in Nat
                              /\ image[i].files \in FilesOf
                              /\ image[i].refcount = 0 => image[i].files = NoFiles
         /\ \A f \in Files : /\ Cardinality(SlotsIn(image, f, Images)) = pbref[f]
                             /\ pbref[f] \in Nat /\ pbref[f] < RefModulus
         /\ list \in [Styles -> Seq(Images)] /\ live \in SUBSET Styles
         /\ \A s \in Styles : list[s] \in Seq(Images)
         /\ RefModulus \in Nat
<1>1. /\ image \in [Images -> [refcount : Nat, files : FilesOf]]
      /\ pbref \in [Files -> 0 .. RefModulus - 1] /\ RefModulus \in Nat
      /\ list \in [Styles -> Seq(Images)] /\ live \in SUBSET Styles
  BY ThemeAssumption DEF ThemeTypeOK
<1>2. \A i \in Images : Places(i) = PlacesIn(list, live, i)
  BY DEF Places, PlacesIn
<1>3. \A f \in Files : SlotsOf(f, Images) = SlotsIn(image, f, Images)
  BY DEF SlotsOf, SlotsIn
<1> QED
  BY <1>1, <1>2, <1>3 DEF CountsExact

(* The change of one list changes the number of places. *)
LEMMA ListChanged ==
  ASSUME ThemeTypeOK, NEW s \in live, list' \in [Styles -> Seq(Images)],
         \A t \in live \ {s} : list'[t] = list[t], NEW i
  PROVE  /\ Cardinality(PlacesIn(list', live, i)) + Occurs(i, list[s])
              = Cardinality(PlacesIn(list, live, i)) + Occurs(i, list'[s])
         /\ Cardinality(PlacesIn(list', live, i)) \in Nat
         /\ Cardinality(PlacesIn(list, live, i)) \in Nat
<1>1. list \in [Styles -> Seq(Images)] /\ live \in SUBSET Styles
  BY DEF ThemeTypeOK
<1>2. PlacesIn(list', live \ {s}, i) = PlacesIn(list, live \ {s}, i)
  BY DEF PlacesIn
<1>3. /\ Cardinality(PlacesIn(list, live \ {s}, i)) + Occurs(i, list[s]) = Cardinality(PlacesIn(list, live, i))
      /\ Occurs(i, list[s]) \in Nat
      /\ Cardinality(PlacesIn(list, live \ {s}, i)) \in Nat
  BY <1>1, PlacesWithout
<1>4. /\ Cardinality(PlacesIn(list', live \ {s}, i)) + Occurs(i, list'[s]) = Cardinality(PlacesIn(list', live, i))
      /\ Occurs(i, list'[s]) \in Nat
  BY <1>1, PlacesWithout
<1> QED
  BY <1>2, <1>3, <1>4

(* What has to be shown of a step. *)
LEMMA StillExact ==
  ASSUME \A i \in Images : /\ image'[i].refcount = Cardinality(PlacesIn(list', live', i))
                           /\ image'[i].refcount = 0 => image'[i].files = NoFiles,
         \A f \in Files : pbref'[f] = Cardinality(SlotsIn(image', f, Images)),
         \A f \in opened' : pbref'[f] > 0
  PROVE  CountsExact'
<1>1. \A i \in Images : Places(i)' = PlacesIn(list', live', i)
  BY DEF Places, PlacesIn
<1>2. \A f \in Files : SlotsOf(f, Images)' = SlotsIn(image', f, Images)
  BY DEF SlotsOf, SlotsIn
<1> QED
  BY <1>1, <1>2 DEF CountsExact

LEMMA CreateStep ==
  ASSUME ThemeIInv, NEW s \in Styles, CreateStyle(s)
  PROVE  ThemeIInv'
<1>1. /\ status = "running" /\ parsing = None /\ s \notin live
      /\ live' = live \cup {s} /\ list' = [list EXCEPT ![s] = <<>>]
      /\ image' = image /\ pbref' = pbref /\ opened' = opened /\ parsing' = parsing /\ status' = status
  BY DEF CreateStyle, Idle
<1>2. ThemeTypeOK /\ CountsExact
  BY <1>1 DEF ThemeIInv
<1>3. <<>> \in Seq(Images)
  OBVIOUS
<1>4. ThemeTypeOK'
  BY <1>1, <1>2, <1>3 DEF ThemeTypeOK
<1>5. \A i \in Images : PlacesIn(list', live', i) = PlacesIn(list, live, i)
  <2>1. list'[s] = <<>> /\ \A t \in live : list'[t] = list[t]
    BY <1>1, <1>2 DEF ThemeTypeOK
  <2> QED
    BY <1>1, <2>1 DEF PlacesIn
<1>6. CountsExact'
  BY <1>1, <1>2, <1>5, NamedOnce, StillExact DEF CountsExact
<1> QED
  BY <1>1, <1>4, <1>6 DEF ThemeIInv, NoUseAfterFree

LEMMA QuietStep ==
  ASSUME ThemeIInv, live' = live, list' = list, image' = image, pbref' = pbref, opened' = opened,
         status' = status, parsing' \in [style : live, img : Images \union {None}] \union {None}
  PROVE  ThemeIInv'
BY DEF ThemeIInv, ThemeTypeOK, NoUseAfterFree, CountsExact, Places, SlotsOf

LEMMA ImageStep ==
  ASSUME ThemeIInv, NEW i \in Images, NEW files \in FilesOf, ParseImage(i, files)
  PROVE  ThemeIInv'
<1> DEFINE st == parsing.style
           more == [f \in Files |-> pbref[f] + Uses(files, f)]
<1>1. /\ status = "running" /\ parsing # None /\ i \in Free /\ CanonicalizeAll(files)
      /\ image' = [image EXCEPT ![i] = [refcount |-> 1, files |-> files]]
      /\ list' = [list EXCEPT ![st] = <<i>> \o @]
      /\ parsing' = [parsing EXCEPT !.img = i] /\ live' = live /\ opened' = opened
  BY DEF ParseImage
<1>2. ThemeTypeOK /\ CountsExact
  BY <1>1 DEF ThemeIInv
<1>3. st \in live /\ st \in Styles /\ parsing \in [style : live, img : Images \union {None}]
  BY <1>1, <1>2 DEF ThemeTypeOK
<1>4. /\ list[st] \in Seq(Images) /\ <<i>> \in Seq(Images) /\ <<i>> \o list[st] \in Seq(Images)
      /\ list' \in [Styles -> Seq(Images)]
      /\ \A t \in live \ {st} : list'[t] = list[t]
  BY <1>1, <1>2, <1>3 DEF ThemeTypeOK
<1>5. /\ image' \in [Images -> [refcount : Nat, files : FilesOf]]
      /\ image'[i].refcount = 1 /\ image'[i].files = files
      /\ \A j \in Images \ {i} : image'[j] = image[j]
  BY <1>1, <1>2 DEF ThemeTypeOK
<1>6. parsing' \in [style : live, img : Images \union {None}]
  BY <1>1, <1>3
<1>7. image[i].refcount = 0 /\ image[i].files = NoFiles
  BY <1>1, <1>2 DEF Free, CountsExact
<1>8. \A f \in Files : Uses(files, f) \in Nat /\ Uses(NoFiles, f) = 0
  <2>1. \A f \in Files : \A s \in Slots : NoFiles[s] # f
    BY ThemeAssumption DEF NoFiles
  <2> QED
    BY <2>1, UsesFact
<1>9. \/ status' = "asserted" /\ pbref' = pbref
      \/ /\ status' = status /\ pbref' = more
         /\ \A f \in Files : more[f] < RefModulus
  BY <1>1 DEF CanonicalizeAll
<1>10. pbref' \in [Files -> 0 .. RefModulus - 1] /\ status' \in {"running", "asserted"}
  <2>1. CASE status' = "asserted" /\ pbref' = pbref
    BY <1>2, <2>1 DEF ThemeTypeOK
  <2>2. CASE /\ status' = status /\ pbref' = more
             /\ \A f \in Files : more[f] < RefModulus
    <3>1. \A f \in Files : more[f] \in 0 .. RefModulus - 1
      BY <1>2, <1>8, <2>2, NamedOnce
    <3> QED
      BY <1>1, <2>2, <3>1
  <2> QED
    BY <1>9, <2>1, <2>2
<1>11. ThemeTypeOK'
  BY <1>1, <1>2, <1>4, <1>5, <1>6, <1>10 DEF ThemeTypeOK
<1>12. ASSUME status' = "running" PROVE CountsExact'
  <2>1. pbref' = more
    BY <1>9, <1>12
  <2>2. ASSUME NEW j \in Images
        PROVE  /\ image'[j].refcount = Cardinality(PlacesIn(list', live', j))
               /\ image'[j].refcount = 0 => image'[j].files = NoFiles
    <3>1. Cardinality(PlacesIn(list', live, j)) + Occurs(j, list[st])
             = Cardinality(PlacesIn(list, live, j)) + Occurs(j, list'[st])
      BY <1>2, <1>3, <1>4, ListChanged
    <3>a. list'[st] = <<i>> \o list[st]
      BY <1>1, <1>2, <1>3 DEF ThemeTypeOK
    <3>2. Occurs(j, <<i>> \o list[st]) = Occurs(j, <<i>>) + Occurs(j, list[st])
      BY <1>4, OccursAppended, Zenon
    <3>b. Occurs(j, list[st]) \in Nat
      BY <1>4, OccursFact
    <3>3. Occurs(j, <<i>>) = IF i = j THEN 1 ELSE 0
      BY OccursOnce
    <3>4. Cardinality(PlacesIn(list', live, j)) \in Nat /\ Cardinality(PlacesIn(list, live, j)) \in Nat
      BY <1>2, <1>4, NamedOnce, PlacesFact
    <3>5. Cardinality(PlacesIn(list', live, j))
             = Cardinality(PlacesIn(list, live, j)) + (IF i = j THEN 1 ELSE 0)
      BY <3>a, <3>b, <3>1, <3>2, <3>3, <3>4
    <3>6. Cardinality(PlacesIn(list, live, j)) = image[j].refcount
      BY <1>2, NamedOnce
    <3> QED
      BY <1>1, <1>2, <1>5, <1>7, <3>4, <3>5, <3>6 DEF CountsExact
  <2>3. ASSUME NEW f \in Files PROVE pbref'[f] = Cardinality(SlotsIn(image', f, Images))
    <3>1. SlotsIn(image', f, Images \ {i}) = SlotsIn(image, f, Images \ {i})
      BY <1>5 DEF SlotsIn
    <3>2. Cardinality(SlotsIn(image', f, Images))
             = Cardinality(SlotsIn(image, f, Images \ {i})) + Uses(files, f)
      BY <1>5, <3>1, SlotsWithout
    <3>3. pbref[f] = Cardinality(SlotsIn(image, f, Images \ {i})) + Uses(NoFiles, f)
      BY <1>2, <1>7, NamedOnce, SlotsWithout
    <3>4. Cardinality(SlotsIn(image, f, Images \ {i})) \in Nat
      BY SlotsFact
    <3> QED
      BY <1>8, <2>1, <3>2, <3>3, <3>4
  <2>4. \A f \in opened' : pbref'[f] > 0
    BY <1>1, <1>2, <1>8, <2>1, NamedOnce DEF CountsExact, ThemeTypeOK
  <2> QED
    BY <2>2, <2>3, <2>4, StillExact
<1> QED
  BY <1>10, <1>11, <1>12 DEF ThemeIInv, NoUseAfterFree

(* Only the order of one list changes. *)
LEMMA EndStep ==
  ASSUME ThemeIInv, ParseEnd
  PROVE  ThemeIInv'
<1> DEFINE st == parsing.style
<1>1. /\ status = "running" /\ parsing # None
      /\ list' = [list EXCEPT ![st] = Reversed(@)] /\ parsing' = None
      /\ live' = live /\ image' = image /\ pbref' = pbref /\ opened' = opened /\ status' = status
  BY DEF ParseEnd
<1>2. ThemeTypeOK /\ CountsExact
  BY <1>1 DEF ThemeIInv
<1>3. st \in live /\ st \in Styles
  BY <1>1, <1>2 DEF ThemeTypeOK
<1>4. list[st] \in Seq(Images) /\ Reversed(list[st]) \in Seq(Images)
  BY <1>2, <1>3, OccursReversed DEF ThemeTypeOK
<1>5. /\ list' \in [Styles -> Seq(Images)]
      /\ \A t \in live \ {st} : list'[t] = list[t]
  BY <1>1, <1>2, <1>3, <1>4 DEF ThemeTypeOK
<1>6. ThemeTypeOK'
  BY <1>1, <1>2, <1>5 DEF ThemeTypeOK
<1>7. ASSUME NEW j \in Images
      PROVE  Cardinality(PlacesIn(list', live, j)) = Cardinality(PlacesIn(list, live, j))
  <2>1. Cardinality(PlacesIn(list', live, j)) + Occurs(j, list[st])
           = Cardinality(PlacesIn(list, live, j)) + Occurs(j, list'[st])
    BY <1>2, <1>3, <1>5, ListChanged
  <2>2. Occurs(j, Reversed(list[st])) = Occurs(j, list[st]) /\ Occurs(j, list[st]) \in Nat
    BY <1>4, OccursReversed, OccursFact
  <2>3. Cardinality(PlacesIn(list', live, j)) \in Nat /\ Cardinality(PlacesIn(list, live, j)) \in Nat
    BY <1>2, <1>5, NamedOnce, PlacesFact
  <2> QED
    <3>1. list'[st] = Reversed(list[st])
      BY <1>1, <1>2, <1>3 DEF ThemeTypeOK
    <3> QED
      BY <3>1, <2>1, <2>2, <2>3
<1>8. CountsExact'
  BY <1>1, <1>2, <1>7, NamedOnce, StillExact DEF CountsExact
<1> QED
  BY <1>1, <1>6, <1>8 DEF ThemeIInv, NoUseAfterFree

LEMMA MergeStep ==
  ASSUME ThemeIInv, NEW dest \in Styles, NEW src \in Styles, MergeStyle(dest, src)
  PROVE  ThemeIInv'
<1>1. /\ status = "running" /\ parsing = None /\ dest \in live /\ src \in live
      /\ list' = [list EXCEPT ![dest] = @ \o list[src]]
      /\ image' = [i \in Images |-> [image[i] EXCEPT !.refcount = @ + Occurs(i, list[src])]]
      /\ live' = live /\ pbref' = pbref /\ opened' = opened /\ parsing' = parsing /\ status' = status
  BY DEF MergeStyle, Idle
<1>2. ThemeTypeOK /\ CountsExact
  BY <1>1 DEF ThemeIInv
<1>3. list[dest] \in Seq(Images) /\ list[src] \in Seq(Images) /\ list[dest] \o list[src] \in Seq(Images)
  BY <1>2 DEF ThemeTypeOK
<1>4. /\ list' \in [Styles -> Seq(Images)]
      /\ \A t \in live \ {dest} : list'[t] = list[t]
  BY <1>1, <1>2, <1>3 DEF ThemeTypeOK
<1>5. \A i \in Images : Occurs(i, list[src]) \in Nat
  BY <1>3, OccursFact
<1>6. \A i \in Images : /\ image'[i] \in [refcount : Nat, files : FilesOf]
                        /\ image'[i].refcount = image[i].refcount + Occurs(i, list[src])
                        /\ image'[i].files = image[i].files
  BY <1>1, <1>2, <1>5 DEF ThemeTypeOK
<1>7. image' \in [Images -> [refcount : Nat, files : FilesOf]]
  BY <1>1, <1>6
<1>8. ThemeTypeOK'
  BY <1>1, <1>2, <1>4, <1>7 DEF ThemeTypeOK
<1>9. ASSUME NEW j \in Images
      PROVE  /\ image'[j].refcount = Cardinality(PlacesIn(list', live', j))
             /\ image'[j].refcount = 0 => image'[j].files = NoFiles
  <2>1. Cardinality(PlacesIn(list', live, j)) + Occurs(j, list[dest])
           = Cardinality(PlacesIn(list, live, j)) + Occurs(j, list'[dest])
    <3>1. dest \in live
      BY <1>1
    <3> QED
      BY <1>2, <1>4, <3>1, ListChanged
  <2>2. Occurs(j, list[dest] \o list[src]) = Occurs(j, list[dest]) + Occurs(j, list[src])
        /\ Occurs(j, list[dest]) \in Nat
    <3>1. Occurs(j, list[dest] \o list[src]) = Occurs(j, list[dest]) + Occurs(j, list[src])
      BY <1>3, OccursAppended, Zenon
    <3> QED
      BY <1>3, <3>1, OccursFact
  <2>3. Cardinality(PlacesIn(list', live, j)) \in Nat /\ Cardinality(PlacesIn(list, live, j)) \in Nat
    BY <1>2, <1>4, NamedOnce, PlacesFact
  <2>4. /\ Cardinality(PlacesIn(list, live, j)) = image[j].refcount
        /\ image[j].refcount = 0 => image[j].files = NoFiles
    BY <1>2, NamedOnce
  <2>5. Cardinality(PlacesIn(list', live, j)) = Cardinality(PlacesIn(list, live, j)) + Occurs(j, list[src])
    <3>1. list'[dest] = list[dest] \o list[src]
      BY <1>1, <1>2 DEF ThemeTypeOK
    <3> QED
      BY <1>5, <3>1, <2>1, <2>2, <2>3
  <2> QED
    BY <1>1, <1>5, <1>6, <2>3, <2>4, <2>5
<1>10. ASSUME NEW f \in Files PROVE pbref'[f] = Cardinality(SlotsIn(image', f, Images))
  <2>1. SlotsIn(image', f, Images) = SlotsIn(image, f, Images)
    BY <1>6 DEF SlotsIn
  <2> QED
    BY <1>1, <1>2, <2>1, NamedOnce
<1>11. \A f \in opened' : pbref'[f] > 0
  BY <1>1, <1>2 DEF CountsExact
<1>12. CountsExact'
  BY <1>9, <1>10, <1>11, StillExact
<1> QED
  BY <1>1, <1>8, <1>12 DEF ThemeIInv, NoUseAfterFree

(* A style that goes takes its places with it; an image that had no others    *)
(* gives up its slots.                                                        *)
LEMMA UnrefStep ==
  ASSUME ThemeIInv, status = "running", NEW s \in live, UnrefImages(list[s]),
         live' = live \ {s}, list' = [list EXCEPT ![s] = <<>>], parsing' = None
  PROVE  /\ ThemeIInv'
         /\ \A f \in opened : f \notin opened' => pbref'[f] = 0
<1> DEFINE seq == list[s]
           gone == {i \in Images : Occurs(i, seq) > 0 /\ image[i].refcount <= Occurs(i, seq)}
           left == [f \in Files |-> pbref[f] - Cardinality(SlotsOf(f, gone))]
<1>1. ThemeTypeOK /\ CountsExact
  BY DEF ThemeIInv
<1>2. s \in Styles /\ seq \in Seq(Images)
  BY <1>1 DEF ThemeTypeOK
<1>3. ASSUME NEW i \in Images
      PROVE  /\ Occurs(i, seq) \in Nat
             /\ Cardinality(PlacesIn(list, live \ {s}, i)) \in Nat
             /\ image[i].refcount = Cardinality(PlacesIn(list, live \ {s}, i)) + Occurs(i, seq)
  <2>1. /\ Cardinality(PlacesIn(list, live \ {s}, i)) + Occurs(i, seq) = Cardinality(PlacesIn(list, live, i))
        /\ Occurs(i, seq) \in Nat
        /\ Cardinality(PlacesIn(list, live \ {s}, i)) \in Nat
    BY <1>1, NamedOnce, PlacesWithout
  <2> QED
    BY <1>1, <2>1, NamedOnce
<1>4. ~ \E i \in Images : image[i].refcount < Occurs(i, seq)
  BY <1>3
<1>5. /\ image' = [i \in Images |-> IF i \in gone THEN [refcount |-> 0, files |-> NoFiles]
                                    ELSE [image[i] EXCEPT !.refcount = @ - Occurs(i, seq)]]
      /\ pbref' = left
      /\ opened' = {f \in opened : left[f] > 0}
      /\ status' = status
  BY <1>4 DEF UnrefImages
<1>6. NoFiles \in FilesOf
  BY DEF NoFiles, FilesOf
<1>7. ASSUME NEW i \in Images
      PROVE  /\ image'[i] \in [refcount : Nat, files : FilesOf]
             /\ image'[i].refcount = Cardinality(PlacesIn(list, live \ {s}, i))
             /\ image'[i].refcount = 0 => image'[i].files = NoFiles
             /\ i \in gone => image'[i].files = NoFiles
             /\ i \notin gone => image'[i].files = image[i].files
  <2>1. /\ image[i] \in [refcount : Nat, files : FilesOf]
        /\ image[i].refcount = 0 => image[i].files = NoFiles
    BY <1>1 DEF ThemeTypeOK, CountsExact
  <2>2. CASE i \in gone
    <3>1. image'[i] = [refcount |-> 0, files |-> NoFiles]
      BY <1>5, <2>2
    <3>2. Occurs(i, seq) >= image[i].refcount
      BY <1>3, <2>2
    <3> DEFINE card == Cardinality(PlacesIn(list, live \ {s}, i))
               occ == Occurs(i, seq)
    <3>3. card \in Nat /\ occ \in Nat /\ image[i].refcount = card + occ
      BY <1>3
    <3>4. card = 0
      <4> HIDE DEF card, occ
      <4>1. occ >= card + occ
        BY <3>2, <3>3 DEF occ
      <4> QED
        BY <3>3, <4>1
    <3>5. image'[i] \in [refcount : Nat, files : FilesOf] /\ image'[i].refcount = 0 /\ image'[i].files = NoFiles
      BY <1>6, <3>1
    <3> HIDE DEF gone
    <3> QED
      BY <2>2, <3>4, <3>5
  <2>3. CASE i \notin gone
    <3>1. image'[i] = [image[i] EXCEPT !.refcount = @ - Occurs(i, seq)]
      BY <1>5, <2>3
    <3>2. image'[i].refcount = image[i].refcount - Occurs(i, seq) /\ image'[i].files = image[i].files
      BY <2>1, <3>1
    <3>3. ~ (Occurs(i, seq) > 0 /\ image[i].refcount <= Occurs(i, seq))
      BY <2>3
    <3>4. image'[i].refcount = Cardinality(PlacesIn(list, live \ {s}, i)) /\ image'[i].refcount \in Nat
      <4> DEFINE card == Cardinality(PlacesIn(list, live \ {s}, i))
                 occ == Occurs(i, seq)
      <4>1. card \in Nat /\ occ \in Nat /\ image[i].refcount = card + occ
        BY <1>3
      <4>2. image'[i].refcount = image[i].refcount - occ
        BY <3>2
      <4>3. (card + occ) - occ = card
        <5> HIDE DEF card, occ
        <5> QED
          BY <4>1
      <4> QED
        BY <4>1, <4>2, <4>3
    <3>5. image'[i] \in [refcount : Nat, files : FilesOf]
      BY <1>3, <2>1, <3>1, <3>2, <3>4
    <3>6. image'[i].refcount = 0 => image[i].refcount = 0
      BY <1>3, <3>2, <3>3
    <3> QED
      BY <2>1, <2>3, <3>2, <3>4, <3>5, <3>6
  <2> QED
    BY <2>2, <2>3
<1>8. image' \in [Images -> [refcount : Nat, files : FilesOf]]
  BY <1>5, <1>7
<1>9. ASSUME NEW f \in Files
      PROVE  /\ pbref'[f] = Cardinality(SlotsIn(image', f, Images))
             /\ pbref'[f] \in Nat /\ pbref'[f] < RefModulus
             /\ pbref'[f] = left[f]
  <2>1. SlotsOf(f, gone) = SlotsIn(image, f, gone)
    BY DEF SlotsOf, SlotsIn
  <2>2. pbref'[f] = left[f] /\ left[f] = pbref[f] - Cardinality(SlotsIn(image, f, gone))
    BY <1>5, <2>1
  <2>3. gone \in SUBSET Images
    OBVIOUS
  <2>4. /\ \A i \in gone : image'[i].files = NoFiles
        /\ \A i \in Images \ gone : image'[i].files = image[i].files
    BY <1>7, <2>3
  <2> HIDE DEF gone, left
  <2>5. /\ Cardinality(SlotsIn(image', f, Images))
              = Cardinality(SlotsIn(image, f, Images)) - Cardinality(SlotsIn(image, f, gone))
        /\ Cardinality(SlotsIn(image', f, Images)) \in Nat
        /\ Cardinality(SlotsIn(image, f, gone)) \in Nat
    BY <2>3, <2>4, SlotsGivenUp
  <2>6. /\ Cardinality(SlotsIn(image, f, Images)) = pbref[f]
        /\ pbref[f] \in Nat /\ pbref[f] < RefModulus /\ RefModulus \in Nat
    BY <1>1, NamedOnce
  <2> QED
    BY <2>2, <2>5, <2>6
<1>10. pbref' \in [Files -> 0 .. RefModulus - 1]
  <2>1. RefModulus \in Nat
    BY ThemeAssumption
  <2>2. ASSUME NEW f \in Files PROVE pbref'[f] \in 0 .. RefModulus - 1
    <3>1. pbref'[f] \in Nat /\ pbref'[f] < RefModulus
      BY <1>9
    <3> QED
      BY <2>1, <3>1
  <2>3. pbref' = left
    BY <1>5
  <2> QED
    BY <2>2, <2>3
<1>11. ThemeTypeOK'
  <2>1. list' \in [Styles -> Seq(Images)]
    <3>1. <<>> \in Seq(Images)
      OBVIOUS
    <3> QED
      BY <1>1, <1>2, <3>1 DEF ThemeTypeOK
  <2>2. opened' \subseteq Files /\ live' \subseteq Styles /\ status' \in {"running", "asserted", "corrupted"}
    BY <1>1, <1>5 DEF ThemeTypeOK
  <2> QED
    BY <1>8, <1>10, <2>1, <2>2 DEF ThemeTypeOK
<1>12. \A f \in opened' : pbref'[f] > 0
  BY <1>1, <1>5, <1>9 DEF ThemeTypeOK
<1>13. ASSUME NEW i \in Images PROVE PlacesIn(list', live', i) = PlacesIn(list, live \ {s}, i)
  <2>1. \A t \in live \ {s} : list'[t] = list[t]
    BY <1>1 DEF ThemeTypeOK
  <2> QED
    BY <2>1 DEF PlacesIn
<1>14. CountsExact'
  <2>1. \A i \in Images : /\ image'[i].refcount = Cardinality(PlacesIn(list', live', i))
                          /\ image'[i].refcount = 0 => image'[i].files = NoFiles
    BY <1>7, <1>13
  <2>2. \A f \in Files : pbref'[f] = Cardinality(SlotsIn(image', f, Images))
    BY <1>9
  <2> QED
    BY <1>12, <2>1, <2>2, StillExact
<1>15. ASSUME NEW f \in opened, f \notin opened' PROVE pbref'[f] = 0
  <2>1. f \in Files
    BY <1>1 DEF ThemeTypeOK
  <2>2. ~ (left[f] > 0)
    BY <1>5, <1>15
  <2>3. pbref'[f] \in Nat /\ pbref'[f] = left[f]
    BY <1>9, <2>1
  <2> HIDE DEF left
  <2> QED
    BY <2>2, <2>3
<1> QED
  BY <1>5, <1>11, <1>14, <1>15 DEF ThemeIInv, NoUseAfterFree

LEMMA PaintStep ==
  ASSUME ThemeIInv, NEW f \in Files, Paint(f)
  PROVE  ThemeIInv'
<1>1. /\ status = "running" /\ opened' \in {opened, opened \union {f}}
      /\ live' = live /\ list' = list /\ image' = image /\ pbref' = pbref
      /\ parsing' = parsing /\ status' = status
  BY DEF Paint, Idle
<1>2. PICK s \in live, k \in 1 .. MaxList, slot \in Slots :
        k <= Len(list[s]) /\ image[list[s][k]].files[slot] = f
  BY DEF Paint
<1>3. ThemeTypeOK /\ CountsExact
  BY <1>1 DEF ThemeIInv
<1>4. list[s][k] \in Images
  BY <1>2, <1>3 DEF ThemeTypeOK
<1>5. <<list[s][k], slot>> \in SlotsIn(image, f, Images)
  BY <1>2, <1>4 DEF SlotsIn
<1>6. pbref[f] > 0
  <2> DEFINE S == SlotsIn(image, f, Images)
  <2>1. IsFiniteSet(S) /\ Cardinality(S) \in Nat /\ S # {} /\ pbref[f] = Cardinality(S)
    BY <1>3, <1>5, SlotsFact, NamedOnce
  <2> HIDE DEF S
  <2> QED
    BY <2>1, FS_EmptySet
<1>7. ThemeTypeOK'
  BY <1>1, <1>3 DEF ThemeTypeOK
<1>8. CountsExact'
  BY <1>1, <1>3, <1>6 DEF CountsExact, Places, SlotsOf
<1> QED
  BY <1>1, <1>7, <1>8 DEF ThemeIInv, NoUseAfterFree

(* A file with a pixmap is named by an image, and the image is in a list. *)
LEMMA UsersFollow ==
  ASSUME ThemeIInv
  PROVE  ThemeInv
<1>1. ThemeTypeOK
  BY DEF ThemeIInv
<1>2. ASSUME status = "running", NEW f \in opened
      PROVE  \E s \in live, i \in Images, slot \in Slots :
               Occurs(i, list[s]) > 0 /\ image[i].files[slot] = f
  <2>1. CountsExact /\ f \in Files /\ pbref[f] > 0
    BY <1>1, <1>2 DEF ThemeIInv, CountsExact, ThemeTypeOK
  <2>2. SlotsIn(image, f, Images) # {}
    <3>1. Cardinality(SlotsIn(image, f, Images)) = pbref[f]
      BY <1>1, <2>1, NamedOnce
    <3> QED
      BY <2>1, <3>1, FS_EmptySet
  <2>3. PICK i \in Images, slot \in Slots : image[i].files[slot] = f
    BY <2>2 DEF SlotsIn
  <2>4. image[i].files # NoFiles
    BY <2>1, <2>3, ThemeAssumption DEF NoFiles
  <2>5. image[i].refcount # 0
    BY <1>1, <2>1, <2>4, NamedOnce
  <2>6. PlacesIn(list, live, i) # {}
    <3>1. Cardinality(PlacesIn(list, live, i)) = image[i].refcount
      BY <1>1, <2>1, NamedOnce
    <3> QED
      BY <2>5, <3>1, FS_EmptySet
  <2>7. PICK s \in live : \E k \in DOMAIN list[s] : list[s][k] = i
    BY <2>6 DEF PlacesIn
  <2>8. list[s] \in Seq(Images)
    BY <1>1 DEF ThemeTypeOK
  <2>9. Occurs(i, list[s]) \in Nat /\ Occurs(i, list[s]) # 0
    <3>1. DOMAIN list[s] = 1 .. Len(list[s])
      BY <2>8
    <3> QED
      BY <2>7, <2>8, <3>1, OccursFact
  <2> QED
    BY <2>3, <2>9
<1> QED
  BY <1>1, <1>2 DEF ThemeIInv, ThemeInv, CountsExact, ImageRefsMatch, PixbufRefsMatch, PixmapsHaveUsers

LEMMA ThemeInitially ==
  ASSUME ThemeInit
  PROVE  ThemeIInv
<1>1. /\ live = {} /\ opened = {} /\ parsing = None /\ status = "running"
      /\ list = [s \in Styles |-> <<>>]
      /\ image = [i \in Images |-> [refcount |-> 0, files |-> NoFiles]]
      /\ pbref = [f \in Files |-> 0]
  BY DEF ThemeInit
<1>2. NoFiles \in FilesOf /\ <<>> \in Seq(Images) /\ 0 \in 0 .. RefModulus - 1
  BY ThemeAssumption DEF NoFiles, FilesOf
<1>3. ThemeTypeOK
  BY <1>1, <1>2 DEF ThemeTypeOK
<1>4. \A i \in Images : Places(i) = {}
  BY <1>1 DEF Places
<1>5. \A f \in Files : SlotsOf(f, Images) = {}
  BY <1>1, ThemeAssumption DEF SlotsOf, NoFiles
<1>6. CountsExact
  BY <1>1, <1>4, <1>5, FS_EmptySet DEF CountsExact
<1> QED
  BY <1>1, <1>3, <1>6 DEF ThemeIInv, NoUseAfterFree

LEMMA ThemeStep ==
  ASSUME ~ShadowAfterImage, ThemeIInv, [ThemeNext]_themeVars
  PROVE  ThemeIInv' /\ (\A f \in opened : f \notin opened' => pbref'[f] = 0 /\ live' # live)
<1>1. ASSUME NEW s \in Styles, CreateStyle(s) PROVE ThemeIInv' /\ opened' = opened
  BY <1>1, CreateStep DEF CreateStyle
<1>2. ASSUME NEW s \in Styles, ParseBegin(s) PROVE ThemeIInv' /\ opened' = opened
  <2>1. parsing' \in [style : live, img : Images \union {None}]
    BY <1>2 DEF ParseBegin
  <2> QED
    BY <1>2, <2>1, QuietStep DEF ParseBegin
<1>3. ASSUME NEW i \in Images, NEW files \in FilesOf, ParseImage(i, files)
      PROVE  ThemeIInv' /\ opened' = opened
  BY <1>3, ImageStep DEF ParseImage
<1>4. ASSUME ParseShadowColor PROVE ThemeIInv' /\ opened' = opened
  <2>1. parsing \in [style : live, img : Images \union {None}] \union {None}
    BY DEF ThemeIInv, ThemeTypeOK
  <2> QED
    BY <1>4, <2>1, QuietStep DEF ParseShadowColor
<1>5. ASSUME ParseEnd PROVE ThemeIInv' /\ opened' = opened
  BY <1>5, EndStep DEF ParseEnd
<1>6. ASSUME NEW s \in live, status = "running", UnrefImages(list[s]), parsing' = None,
             live' = live \ {s}, list' = [list EXCEPT ![s] = <<>>]
      PROVE  ThemeIInv' /\ (\A f \in opened : f \notin opened' => pbref'[f] = 0 /\ live' # live)
  BY <1>6, UnrefStep
<1>7. ASSUME ParseError
      PROVE  ThemeIInv' /\ (\A f \in opened : f \notin opened' => pbref'[f] = 0 /\ live' # live)
  <2>1. parsing.style \in live
    BY <1>7 DEF ParseError, ThemeIInv, ThemeTypeOK
  <2> QED
    BY <1>6, <1>7, <2>1 DEF ParseError
<1>8. ASSUME NEW s \in Styles, FinalizeStyle(s)
      PROVE  ThemeIInv' /\ (\A f \in opened : f \notin opened' => pbref'[f] = 0 /\ live' # live)
  BY <1>6, <1>8 DEF FinalizeStyle, Idle
<1>9. ASSUME NEW dest \in Styles, NEW src \in Styles, MergeStyle(dest, src)
      PROVE  ThemeIInv' /\ opened' = opened
  BY <1>9, MergeStep DEF MergeStyle
<1>10. ASSUME NEW f \in Files, Paint(f) PROVE ThemeIInv' /\ opened \subseteq opened'
  BY <1>10, PaintStep DEF Paint
<1>11. ASSUME UNCHANGED themeVars PROVE ThemeIInv' /\ opened' = opened
  <2>1. parsing \in [style : live, img : Images \union {None}] \union {None}
    BY DEF ThemeIInv, ThemeTypeOK
  <2> QED
    BY <1>11, <2>1, QuietStep DEF themeVars
<1> QED
  BY <1>1, <1>2, <1>3, <1>4, <1>5, <1>7, <1>8, <1>9, <1>10, <1>11 DEF ThemeNext

(* sapwood-rc-style.c and theme-pixbuf.c count the references of images and   *)
(* pixbufs exactly, however styles are parsed, merged and given up, as long   *)
(* as no shadowcolor line stands behind an image block.                       *)
THEOREM ThemeSafe == ASSUME ~ShadowAfterImage PROVE ThemeSpec => []ThemeInv
<1>1. ThemeInit => ThemeIInv
  BY ThemeInitially
<1>2. ThemeIInv /\ [ThemeNext]_themeVars => ThemeIInv'
  BY ThemeStep
<1>3. ThemeIInv => ThemeInv
  BY UsersFollow
<1> QED
  BY <1>1, <1>2, <1>3, PTL DEF ThemeSpec

(* theme_image_unref: under the same condition no image is freed twice, which *)
(* is what "avoids crashing on theme change" (ChangeLog) promises.            *)
THEOREM ImagesFreedOnce == ASSUME ~ShadowAfterImage PROVE ThemeSpec => []NoUseAfterFree
<1>1. ThemeInit => ThemeIInv
  BY ThemeInitially
<1>2. ThemeIInv /\ [ThemeNext]_themeVars => ThemeIInv'
  BY ThemeStep
<1>3. ThemeIInv => NoUseAfterFree
  BY DEF ThemeIInv
<1> QED
  BY <1>1, <1>2, <1>3, PTL DEF ThemeSpec

(* theme_pixbuf_unref: a pixmap is closed only with the last reference, in a   *)
(* step that gives up a style.                                                 *)
THEOREM ThemeClosesOnlyUnused == ASSUME ~ShadowAfterImage PROVE ThemeSpec => ClosedOnlyUnused
<1>1. ThemeInit => ThemeIInv
  BY ThemeInitially
<1>2. ThemeIInv /\ [ThemeNext]_themeVars => ThemeIInv'
  BY ThemeStep
<1>3. ThemeIInv /\ [ThemeNext]_themeVars
         => [\A f \in opened : f \notin opened' => pbref'[f] = 0 /\ live' # live]_themeVars
  BY ThemeStep
<1> QED
  BY <1>1, <1>2, <1>3, PTL DEF ThemeSpec, ClosedOnlyUnused
=============================================================================
