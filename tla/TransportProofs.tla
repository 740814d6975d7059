-------------------------- MODULE TransportProofs --------------------------
(***************************************************************************)
(* The transport is a Channel of statuses, for any statuses, any checksum, *)
(* any limit and any way of cutting the frames.  The inductive invariant   *)
(* says where in the units between the two ends each frame begins.         *)
(***************************************************************************)
EXTENDS Transport, SequenceTheorems, TLAPS

-----------------------------------------------------------------------------
(***************************************************************************)
(* Sequences.                                                              *)
(***************************************************************************)

\* One sequence behind another.
Joins(s, a, b) ==
  /\ Len(s) = Len(a) + Len(b) /\ Len(a) \in Nat /\ Len(b) \in Nat
  /\ \A i \in 1..Len(a) : s[i] = a[i]
  /\ \A i \in 1..Len(b) : s[Len(a) + i] = b[i]
\* Concatenation joins.
LEMMA Joined ==
  ASSUME NEW S, NEW a \in Seq(S), NEW b \in Seq(S)
  PROVE  a \o b \in Seq(S) /\ Joins(a \o b, a, b)
BY DEF Joins

\* The part of a sequence from m to n.
PartOf(p, s, m, n) == Len(p) = n - m + 1 /\ \A i \in 1..(n - m + 1) : p[i] = s[m + i - 1]
\* SubSeq is that part.
LEMMA Parted ==
  ASSUME NEW S, NEW s \in Seq(S), NEW m \in Nat \ {0}, NEW n \in Nat, n <= Len(s), m <= n + 1
  PROVE  SubSeq(s, m, n) \in Seq(S) /\ PartOf(SubSeq(s, m, n), s, m, n)
<1>1. \A i \in m..n : s[i] \in S
  OBVIOUS
<1> QED BY <1>1, SubSeqProperties DEF PartOf

-----------------------------------------------------------------------------
(***************************************************************************)
(* Frames.                                                                 *)
(***************************************************************************)

\* What the stream is made of: numbers and checksums.
Unit == Nat \cup {crc32c(p) : p \in Seq(Nat)}

\* A status in a frame is found again.
LEMMA StatusFound ==
  ASSUME NEW st \in Status, Encodable(encode_status_payload(st))
  PROVE  LET body == encode_status_payload(st)
         IN  body \in Seq(Nat) /\ StatusOf(body) = st
<1> DEFINE msg == st.msg
           load == st.payload
           head == <<st.code, Len(msg)>>
           text == head \o msg
           body == text \o load
<1>1. st.code \in Nat /\ msg \in Seq(Nat) /\ load \in Seq(Nat)
  BY DEF Status
<1>2. /\ Len(msg) \in Nat /\ head \in Seq(Nat) /\ Len(head) = 2
      /\ head[1] = st.code /\ head[2] = Len(msg)
  BY <1>1
<1>3. encode_status_payload(st) = body
  BY Zenon DEF encode_status_payload
<1> HIDE DEF msg, load, head
<1>4. text \in Seq(Nat) /\ Joins(text, head, msg)
  BY <1>1, <1>2, Joined
<1> HIDE DEF text
<1>5. body \in Seq(Nat) /\ Joins(body, text, load)
  BY <1>1, <1>4, Joined
<1> HIDE DEF body
<1> DEFINE m == Len(msg)
           n == Len(load)
<1>6. m \in Nat /\ n \in Nat /\ Len(text) = 2 + m /\ Len(body) = 2 + m + n
  BY <1>2, <1>4, <1>5 DEF Joins
<1>7. /\ \A i \in 1..2 : text[i] = head[i]
      /\ \A i \in 1..m : text[2 + i] = msg[i]
  BY <1>2, <1>4 DEF Joins
<1>8. /\ \A i \in 1..(2 + m) : body[i] = text[i]
      /\ \A i \in 1..n : body[2 + m + i] = load[i]
  BY <1>5, <1>6 DEF Joins
<1> HIDE DEF m, n
<1>9. body[1] = st.code /\ body[2] = m
  <2>1. body[1] = text[1] /\ body[2] = text[2]
    BY <1>6, <1>8
  <2> QED BY <1>2, <1>7, <2>1 DEF m
<1>10. 2 + m < Word
  <2> DEFINE prefix == <<Version, 0, 0>>
  <2>1. Len(Payload(body)) <= MaxPayload
    BY <1>3 DEF Encodable
  <2>2. prefix \in Seq(Nat) /\ Len(prefix) = 3
    BY TransportAssumption
  <2> HIDE DEF prefix
  <2>3. Joins(prefix \o body, prefix, body)
    BY <1>5, <2>2, Joined
  <2>4. Len(Payload(body)) = 3 + Len(body)
    BY <2>2, <2>3 DEF Joins, Payload, prefix
  <2> QED BY <1>6, <2>1, <2>4, TransportAssumption
<1>11. MsgEnd(body) = 2 + m
  BY <1>6, <1>9, <1>10, TransportAssumption DEF MsgEnd
<1> DEFINE last == IF 2 + body[2] < Len(body) THEN 2 + body[2] ELSE Len(body)
<1>12. last = 2 + m
  BY <1>6, <1>9
<1>13. StatusOf(body) = [code |-> body[1], msg |-> SubSeq(body, 3, last),
                         payload |-> SubSeq(body, MsgEnd(body) + 1, Len(body))]
  BY Zenon DEF StatusOf
<1> HIDE DEF last
<1>14. SubSeq(body, 3, 2 + m) = msg
  <2> DEFINE part == SubSeq(body, 3, 2 + m)
  <2>1. part \in Seq(Nat) /\ PartOf(part, body, 3, 2 + m)
    BY <1>5, <1>6, Parted
  <2> HIDE DEF part
  <2>2. Len(part) = m /\ \A i \in 1..m : part[i] = body[2 + i]
    BY <1>6, <2>1 DEF PartOf
  <2>3. \A i \in 1..m : body[2 + i] = text[2 + i]
    BY <1>6, <1>8
  <2>4. \A i \in 1..m : part[i] = msg[i]
    BY <1>7, <2>2, <2>3
  <2> QED BY <1>1, <2>1, <2>2, <2>4, SeqEqual DEF m, part
<1>15. SubSeq(body, 2 + m + 1, Len(body)) = load
  <2> DEFINE part == SubSeq(body, 2 + m + 1, Len(body))
  <2>1. part \in Seq(Nat) /\ PartOf(part, body, 2 + m + 1, Len(body))
    BY <1>5, <1>6, Parted
  <2> HIDE DEF part
  <2>2. Len(part) = n /\ \A i \in 1..n : part[i] = body[2 + m + i]
    <3> DEFINE k == 2 + m
    <3>1. k \in Nat /\ Len(body) = k + n /\ PartOf(part, body, k + 1, Len(body))
      BY <1>6, <2>1
    <3> HIDE DEF k
    <3>2. Len(body) - (k + 1) + 1 = n /\ \A i \in 1..n : k + 1 + i - 1 = k + i
      BY <1>6, <3>1
    <3>3. Len(part) = n /\ \A i \in 1..n : part[i] = body[k + i]
      BY <3>1, <3>2 DEF PartOf
    <3> QED BY <3>3 DEF k
  <2>3. \A i \in 1..n : part[i] = load[i]
    BY <1>8, <2>2
  <2> QED BY <1>1, <2>1, <2>2, <2>3, SeqEqual DEF n, part
<1>16. StatusOf(body) = [code |-> st.code, msg |-> msg, payload |-> load]
  BY <1>9, <1>11, <1>12, <1>13, <1>14, <1>15
<1>17. st = [code |-> st.code, msg |-> msg, payload |-> load]
  BY DEF Status, msg, load
<1> QED BY <1>3, <1>5, <1>16, <1>17

\* The frame of a body: its length is in its first unit, and the body is found
\* behind the header and the prefix.
LEMMA FrameFound ==
  ASSUME NEW body \in Seq(Nat), Encodable(body)
  PROVE  LET f == encode_frame(body)
         IN  /\ f \in Seq(Unit) /\ f[1] \in Nat /\ f[1] <= MaxPayload
             /\ Len(f) = HeaderLen + f[1] /\ BodyOf(f) = body
<1> DEFINE prefix == <<Version, 0, 0>>
           payload == prefix \o body
           head == <<Len(payload), crc32c(payload)>>
           f == head \o payload
           n == Len(body)
<1>1. n \in Nat /\ prefix \in Seq(Nat) /\ Len(prefix) = 3
  BY TransportAssumption
<1>2. Payload(body) = payload /\ Len(payload) <= MaxPayload /\ encode_frame(body) = f
  BY Zenon DEF Encodable, Payload, encode_frame
<1> HIDE DEF prefix
<1>3. payload \in Seq(Nat) /\ Joins(payload, prefix, body)
  BY <1>1, Joined
<1> HIDE DEF payload
<1>4. Len(payload) = 3 + n /\ \A i \in 1..n : payload[3 + i] = body[i]
  BY <1>1, <1>3 DEF Joins
<1>5. payload \in Seq(Unit) /\ body \in Seq(Unit)
  BY <1>3, SeqMonotonic DEF Unit
<1>6. head \in Seq(Unit) /\ Len(head) = 2 /\ head[1] = Len(payload)
  <2>1. Len(payload) \in Unit /\ crc32c(payload) \in Unit
    BY <1>3 DEF Unit
  <2> QED BY <2>1
<1> HIDE DEF head
<1>7. f \in Seq(Unit) /\ Joins(f, head, payload)
  BY <1>5, <1>6, Joined
<1> HIDE DEF f, n
<1>8. Len(f) = 5 + n /\ f[1] = 3 + n /\ \A i \in 1..(3 + n) : f[2 + i] = payload[i]
  <2>1. f[1] = head[1]
    BY <1>6, <1>7 DEF Joins
  <2> QED BY <1>1, <1>4, <1>6, <1>7, <2>1 DEF Joins
<1>9. \A i \in 1..n : f[5 + i] = body[i]
  <2> SUFFICES ASSUME NEW i \in 1..n PROVE f[5 + i] = body[i]
    OBVIOUS
  <2>1. f[2 + (3 + i)] = payload[3 + i]
    BY <1>1, <1>8
  <2> QED BY <1>1, <1>4, <2>1
<1>10. BodyOf(f) = body
  <2> DEFINE part == SubSeq(f, 6, Len(f))
  <2>1. part \in Seq(Unit) /\ PartOf(part, f, 6, Len(f))
    BY <1>1, <1>7, <1>8, Parted
  <2>2. BodyOf(f) = part
    BY DEF BodyOf, HeaderLen, PrefixLen
  <2> HIDE DEF part
  <2>3. Len(part) = n /\ \A i \in 1..n : part[i] = f[5 + i]
    BY <1>1, <1>8, <2>1 DEF PartOf
  <2>4. \A i \in 1..n : part[i] = body[i]
    BY <1>9, <2>3
  <2> QED BY <1>5, <2>1, <2>2, <2>3, <2>4, SeqEqual DEF n
<1> QED BY <1>1, <1>2, <1>4, <1>7, <1>8, <1>10 DEF HeaderLen

-----------------------------------------------------------------------------
(***************************************************************************)
(* Where the frames begin.                                                 *)
(***************************************************************************)
Writing == [frame: Seq(Unit), status: Status]

\* The units s are what is left of the frames of ws behind the first k of them:
\* frame i begins behind unit b[i].  Units may be missing at the end.
Aligned(ws, k, s, b) ==
  /\ b[k + 1] = 0
  /\ \A i \in (k + 1)..Len(ws) : b[i + 1] = b[i] + Len(ws[i].frame)
  /\ \A i, j \in (k + 1)..(Len(ws) + 1) : i <= j => b[i] <= b[j]
  /\ Len(s) <= b[Len(ws) + 1]
  /\ \A i \in (k + 1)..Len(ws) : \A j \in 1..Len(ws[i].frame) :
       b[i] + j <= Len(s) => s[b[i] + j] = ws[i].frame[j]

\* What is written is a frame of some length.
LEMMA FrameLength ==
  ASSUME NEW ws \in Seq(Writing), NEW i \in 1..Len(ws)
  PROVE  ws[i].frame \in Seq(Unit) /\ Len(ws[i].frame) \in Nat
<1>1. ws[i] \in Writing
  OBVIOUS
<1>2. ws[i].frame \in Seq(Unit)
  BY <1>1 DEF Writing
<1> QED BY <1>2, LenProperties

\* Units that get lost at the end leave the others where they are.
LEMMA AlignedPrefix ==
  ASSUME NEW ws \in Seq(Writing), NEW k \in Nat, k <= Len(ws), NEW b \in [Nat -> Int],
         NEW s \in Seq(Unit), Aligned(ws, k, s, b),
         NEW t \in Seq(Unit), Len(t) <= Len(s), \A i \in 1..Len(t) : t[i] = s[i]
  PROVE  Aligned(ws, k, t, b)
<1> DEFINE n == Len(ws)
           p == Len(s)
           r == Len(t)
<1>0. n \in Nat /\ p \in Nat /\ r \in Nat /\ k <= n /\ r <= p /\ \A i \in 1..r : t[i] = s[i]
  OBVIOUS
<1>1. /\ b[k + 1] = 0
      /\ \A i \in (k + 1)..n : b[i + 1] = b[i] + Len(ws[i].frame)
      /\ \A i, j \in (k + 1)..(n + 1) : i <= j => b[i] <= b[j]
      /\ p <= b[n + 1]
      /\ \A i \in (k + 1)..n : \A j \in 1..Len(ws[i].frame) :
           b[i] + j <= p => s[b[i] + j] = ws[i].frame[j]
  BY DEF Aligned
<1> HIDE DEF n, p, r
<1>2. r <= b[n + 1]
  <2>1. b[n + 1] \in Int
    BY <1>0
  <2> QED BY <1>0, <1>1, <2>1
<1>3. ASSUME NEW i \in (k + 1)..n, NEW j \in 1..Len(ws[i].frame), b[i] + j <= r
      PROVE  t[b[i] + j] = ws[i].frame[j]
  <2>1. i \in Nat /\ k + 1 <= i /\ i \in (k + 1)..(n + 1) /\ k + 1 \in (k + 1)..(n + 1)
    BY <1>0
  <2>2. b[k + 1] <= b[i] /\ b[i] \in Int
    BY <1>1, <2>1
  <2> DEFINE x == b[i] + j
  <2>3. x \in Int /\ x >= 1
    <3>1. i \in 1..n
      BY <1>0, <2>1
    <3>2. Len(ws[i].frame) \in Nat
      BY <3>1, FrameLength DEF n
    <3>3. j \in Nat /\ j >= 1
      BY <3>2
    <3>4. 0 <= b[i]
      BY <1>1, <2>2
    <3> DEFINE y == b[i]
    <3>5. y \in Int /\ 0 <= y
      BY <2>2, <3>4
    <3> HIDE DEF y
    <3>6. y + j \in Int /\ y + j >= 1
      BY ONLY <3>3, <3>5
    <3> QED BY <3>6 DEF y
  <2>4. x \in 1..r /\ x <= p
    BY <1>0, <1>3, <2>3
  <2>5. s[x] = ws[i].frame[j]
    BY <1>1, <1>3, <2>4
  <2> HIDE DEF x
  <2> QED BY <1>0, <2>4, <2>5 DEF x
<1> QED BY <1>1, <1>2, <1>3 DEF Aligned, n, p, r

\* The frame the reader is in: it has been written, and the units are its own.
LEMMA FirstFrame ==
  ASSUME NEW ws \in Seq(Writing), NEW k \in Nat, k <= Len(ws), NEW b \in [Nat -> Int],
         NEW s \in Seq(Unit), Aligned(ws, k, s, b), s # <<>>
  PROVE  /\ k + 1 \in 1..Len(ws)
         /\ \A j \in 1..Len(ws[k + 1].frame) : j <= Len(s) => s[j] = ws[k + 1].frame[j]
<1>0. Len(ws) \in Nat /\ Len(s) \in Nat /\ Len(s) >= 1
  OBVIOUS
<1>1. k # Len(ws)
  BY <1>0 DEF Aligned
<1>2. k + 1 \in 1..Len(ws) /\ k + 1 \in (k + 1)..Len(ws)
  BY <1>0, <1>1
<1>3. b[k + 1] = 0
  BY DEF Aligned
<1>4. ASSUME NEW j \in 1..Len(ws[k + 1].frame), j <= Len(s) PROVE s[j] = ws[k + 1].frame[j]
  <2>1. b[k + 1] + j = j
    BY <1>3
  <2> QED BY <1>2, <1>4, <2>1 DEF Aligned
<1> QED BY <1>2, <1>4

\* The frames behind the one that begins at k + 1, in what is left of the units.
MovesUp(ws, k, s, b, t) ==
  \E c \in [Nat -> Int] :
    /\ Aligned(ws, k + 1, t, c)
    /\ Len(s) = b[Len(ws) + 1] => Len(t) = c[Len(ws) + 1]
\* The reader has read a frame: the others move up.
LEMMA AlignedNext ==
  ASSUME NEW ws \in Seq(Writing), NEW k \in Nat, k + 1 \in 1..Len(ws), NEW b \in [Nat -> Int],
         NEW s \in Seq(Unit), Aligned(ws, k, s, b),
         NEW q \in Nat, q = Len(ws[k + 1].frame), q <= Len(s),
         NEW t \in Seq(Unit), PartOf(t, s, q + 1, Len(s))
  PROVE  MovesUp(ws, k, s, b, t)
<1> DEFINE n == Len(ws)
           p == Len(s)
           r == Len(t)
           k1 == k + 1
           c == [i \in Nat |-> b[i] - q]
<1>0. /\ n \in Nat /\ p \in Nat /\ r \in Nat /\ k1 \in Nat /\ 1 <= k1 /\ k1 <= n
      /\ k1 \in k1..n /\ q <= p /\ q = Len(ws[k1].frame)
  OBVIOUS
<1>1. /\ b[k1] = 0
      /\ \A i \in k1..n : b[i + 1] = b[i] + Len(ws[i].frame)
      /\ \A i, j \in k1..(n + 1) : i <= j => b[i] <= b[j]
      /\ p <= b[n + 1]
      /\ \A i \in k1..n : \A j \in 1..Len(ws[i].frame) :
           b[i] + j <= p => s[b[i] + j] = ws[i].frame[j]
  BY DEF Aligned
<1>2. r = p - q /\ \A i \in 1..r : t[i] = s[q + i]
  <2>1. p - (q + 1) + 1 = p - q /\ \A i \in 1..(p - q) : q + 1 + i - 1 = q + i
    BY <1>0
  <2> QED BY <2>1 DEF PartOf
<1>3. \A i \in 1..n : Len(ws[i].frame) \in Nat
  BY FrameLength
<1> HIDE DEF n, p, r, k1
<1>4. b \in [Nat -> Int] /\ q \in Nat
  OBVIOUS
<1>5. c \in [Nat -> Int] /\ \A i \in Nat : c[i] = b[i] - q /\ b[i] \in Int /\ c[i] \in Int
  BY ONLY <1>4
<1> HIDE DEF c
<1>6. c[k1 + 1] = 0
  <2>1. b[k1 + 1] = b[k1] + q
    BY <1>0, <1>1
  <2>2. b[k1] = 0 /\ k1 \in Nat /\ k1 + 1 \in Nat
    BY <1>0, <1>1
  <2> QED BY ONLY <1>4, <1>5, <2>1, <2>2
<1>7. ASSUME NEW i \in (k1 + 1)..n PROVE c[i + 1] = c[i] + Len(ws[i].frame)
  <2>1. i \in k1..n /\ i \in 1..n /\ i \in Nat /\ i + 1 \in Nat
    BY ONLY <1>0, i \in (k1 + 1)..n
  <2>2. b[i + 1] = b[i] + Len(ws[i].frame) /\ Len(ws[i].frame) \in Nat
    BY <1>1, <1>3, <2>1
  <2> DEFINE u == Len(ws[i].frame)
  <2>3. u \in Nat /\ b[i + 1] = b[i] + u
    BY <2>2
  <2> HIDE DEF u
  <2>4. c[i + 1] = c[i] + u
    BY ONLY <1>4, <1>5, <2>1, <2>3
  <2> QED BY <2>4 DEF u
<1>8. ASSUME NEW i \in (k1 + 1)..(n + 1), NEW j \in (k1 + 1)..(n + 1), i <= j
      PROVE  c[i] <= c[j]
  <2>1. i \in k1..(n + 1) /\ j \in k1..(n + 1) /\ i \in Nat /\ j \in Nat
    BY ONLY <1>0, i \in (k1 + 1)..(n + 1), j \in (k1 + 1)..(n + 1)
  <2>2. b[i] <= b[j]
    BY <1>1, <1>8, <2>1
  <2> QED BY ONLY <1>4, <1>5, <2>1, <2>2
<1>9. r <= c[n + 1] /\ (p = b[n + 1] => r = c[n + 1])
  <2>1. n \in Nat /\ p \in Nat /\ q <= p /\ r = p - q /\ p <= b[n + 1]
    BY <1>0, <1>1, <1>2
  <2> DEFINE u == c[n + 1]
             v == b[n + 1]
  <2>2. u \in Int /\ v \in Int /\ u = v - q /\ q \in Nat /\ p <= v
    <3>1. n + 1 \in Nat
      BY ONLY <2>1
    <3>2. c[n + 1] = b[n + 1] - q /\ b[n + 1] \in Int /\ c[n + 1] \in Int
      BY ONLY <1>5, <3>1
    <3> QED BY <1>4, <2>1, <3>2
  <2> HIDE DEF u, v
  <2>3. r <= u /\ (p = v => r = u)
    BY ONLY <2>1, <2>2
  <2> QED BY <2>3 DEF u, v
<1>10. ASSUME NEW i \in (k1 + 1)..n, NEW j \in 1..Len(ws[i].frame), c[i] + j <= r
       PROVE  t[c[i] + j] = ws[i].frame[j]
  <2>1. /\ i \in k1..n /\ i \in 1..n /\ i \in Nat /\ i \in (k1 + 1)..(n + 1)
        /\ k1 + 1 \in (k1 + 1)..(n + 1) /\ k1 + 1 <= i
    BY ONLY <1>0, i \in (k1 + 1)..n
  <2>2. Len(ws[i].frame) \in Nat
    BY <1>3, <2>1
  <2>3. j \in Nat /\ j >= 1
    BY <2>2
  <2>4. 0 <= c[i]
    BY <1>6, <1>8, <2>1
  <2> DEFINE x == c[i] + j
             y == b[i] + j
  <2>5. x \in 1..r /\ q + x = y /\ y <= p
    <3>1. p \in Nat /\ r = p - q /\ c[i] + j <= r
      BY <1>0, <1>2, <1>10
    <3>2. c[i] = b[i] - q /\ b[i] \in Int /\ c[i] \in Int
      BY <1>5, <2>1
    <3> DEFINE u == c[i]
               v == b[i]
    <3>3. u \in Int /\ v \in Int /\ u = v - q /\ 0 <= u /\ u + j <= r /\ q \in Nat
      BY <2>4, <3>1, <3>2
    <3> HIDE DEF u, v
    <3>4. u + j \in 1..r /\ q + (u + j) = v + j /\ v + j <= p
      BY ONLY <2>3, <3>1, <3>3
    <3> QED BY <3>4 DEF u, v
  <2>6. s[y] = ws[i].frame[j]
    BY <1>1, <2>1, <2>5
  <2> HIDE DEF x, y
  <2>7. t[x] = s[q + x]
    BY <1>2, <2>5
  <2> QED BY <2>5, <2>6, <2>7 DEF x
<1>11. Aligned(ws, k1, t, c)
  BY <1>6, <1>7, <1>8, <1>9, <1>10 DEF Aligned, n, r
<1> QED BY <1>5, <1>9, <1>11 DEF MovesUp, n, p, r, k1

\* Another frame is written.  Its units come behind the others, unless the
\* connection is broken: then they never come.
LEMMA AlignedWrite ==
  ASSUME NEW ws \in Seq(Writing), NEW k \in Nat, k <= Len(ws), NEW b \in [Nat -> Int],
         NEW s \in Seq(Unit), Aligned(ws, k, s, b), NEW w \in Writing, NEW t \in Seq(Unit),
         t = s \/ (Joins(t, s, w.frame) /\ Len(s) = b[Len(ws) + 1])
  PROVE  \E c \in [Nat -> Int] :
           /\ Aligned(Append(ws, w), k, t, c)
           /\ Joins(t, s, w.frame) /\ Len(s) = b[Len(ws) + 1] =>
                Len(t) = c[Len(Append(ws, w)) + 1]
<1> DEFINE n == Len(ws)
           us == Append(ws, w)
           l == Len(w.frame)
           p == Len(s)
           r == Len(t)
           k1 == k + 1
           n1 == n + 1
           n2 == n + 2
           c == [b EXCEPT ![n2] = b[n1] + l]
<1>0. /\ n \in Nat /\ p \in Nat /\ r \in Nat /\ k1 \in Nat /\ n1 \in Nat /\ n2 \in Nat
      /\ 1 <= k1 /\ k1 <= n1 /\ n1 = n + 1 /\ n2 = n + 2 /\ n2 = n1 + 1
  OBVIOUS
<1>1. /\ b[k1] = 0
      /\ \A i \in k1..n : b[i + 1] = b[i] + Len(ws[i].frame)
      /\ \A i, j \in k1..n1 : i <= j => b[i] <= b[j]
      /\ p <= b[n1]
      /\ \A i \in k1..n : \A j \in 1..Len(ws[i].frame) :
           b[i] + j <= p => s[b[i] + j] = ws[i].frame[j]
  BY DEF Aligned
<1>2. us \in Seq(Writing) /\ Len(us) = n1 /\ us[n1] = w /\ \A i \in 1..n : us[i] = ws[i]
  OBVIOUS
<1>3. l \in Nat /\ \A i \in 1..n : Len(ws[i].frame) \in Nat
  <2>1. w.frame \in Seq(Unit)
    BY DEF Writing
  <2> QED BY <2>1, FrameLength, LenProperties
<1>4. \/ t = s /\ r = p
      \/ /\ p = b[n1] /\ r = p + l
         /\ \A i \in 1..p : t[i] = s[i]
         /\ \A i \in 1..l : t[p + i] = w.frame[i]
  BY DEF Joins
<1>5. Joins(t, s, w.frame) => r = p + l
  BY DEF Joins
<1>6. b \in [Nat -> Int] /\ \A i \in Nat : b[i] \in Int
  OBVIOUS
<1> HIDE DEF n, us, l, p, r, k1, n1, n2
<1>7. b[n1] + l \in Int
  BY ONLY <1>0, <1>3, <1>6
<1>8. /\ c \in [Nat -> Int] /\ c[n2] = b[n1] + l
      /\ \A i \in Nat : i # n2 => c[i] = b[i]
  BY ONLY <1>0, <1>6, <1>7
<1> HIDE DEF c
<1>9. c[k1] = 0
  <2>1. k1 # n2
    BY ONLY <1>0
  <2> QED BY <1>0, <1>1, <1>8, <2>1
<1>10. \A i \in k1..n1 : c[i] = b[i] /\ b[i] \in Int /\ 0 <= b[i] /\ b[i] <= b[n1]
  <2> SUFFICES ASSUME NEW i \in k1..n1
               PROVE  c[i] = b[i] /\ b[i] \in Int /\ 0 <= b[i] /\ b[i] <= b[n1]
    OBVIOUS
  <2>1. i \in Nat /\ i # n2 /\ k1 \in k1..n1 /\ n1 \in k1..n1 /\ k1 <= i /\ i <= n1
    BY ONLY <1>0, i \in k1..n1
  <2>2. b[k1] <= b[i] /\ b[i] <= b[n1]
    BY <1>1, <2>1
  <2>3. c[i] = b[i] /\ b[i] \in Int
    BY <1>6, <1>8, <2>1
  <2> QED BY <1>1, <2>2, <2>3
<1>11. ASSUME NEW i \in k1..n1 PROVE c[i + 1] = c[i] + Len(us[i].frame)
  <2>1. CASE i = n1
    <3>1. i + 1 = n2 /\ us[i] = w /\ c[i] = b[n1]
      BY <1>0, <1>2, <1>10, <2>1
    <3> QED BY <1>8, <3>1 DEF l
  <2>2. CASE i # n1
    <3>1. i \in k1..n /\ i \in 1..n /\ i + 1 \in k1..n1
      BY ONLY <1>0, i \in k1..n1, <2>2
    <3>2. b[i + 1] = b[i] + Len(ws[i].frame) /\ us[i] = ws[i]
      BY <1>1, <1>2, <3>1
    <3>3. c[i + 1] = b[i + 1] /\ c[i] = b[i]
      BY <1>10, <3>1
    <3> QED BY <3>2, <3>3
  <2> QED BY <2>1, <2>2
<1>12. ASSUME NEW i \in k1..n2, NEW j \in k1..n2, i <= j PROVE c[i] <= c[j]
  <2>1. CASE j # n2
    <3>1. i \in k1..n1 /\ j \in k1..n1
      BY ONLY <1>0, i \in k1..n2, j \in k1..n2, <1>12, <2>1
    <3>2. b[i] <= b[j]
      BY <1>1, <1>12, <3>1
    <3> QED BY <1>10, <3>1, <3>2
  <2>2. CASE j = n2 /\ i # n2
    <3>1. i \in k1..n1
      BY ONLY <1>0, i \in k1..n2, <2>2
    <3> DEFINE u == b[i]
               v == b[n1]
    <3>2. u \in Int /\ v \in Int /\ u <= v /\ c[i] = u /\ c[j] = v + l
      BY <1>0, <1>6, <1>8, <1>10, <2>2, <3>1
    <3> HIDE DEF u, v
    <3>3. u <= v + l
      BY ONLY <1>3, <3>2
    <3> QED BY <3>2, <3>3
  <2>3. CASE i = j
    <3>1. c[j] \in Int
      <4>1. j \in Nat
        BY ONLY <1>0, j \in k1..n2
      <4> QED BY ONLY <1>8, <4>1
    <3> QED BY <2>3, <3>1
  <2> QED BY <2>1, <2>2, <2>3
<1>13. r <= c[n2] /\ (Joins(t, s, w.frame) /\ p = b[n1] => r = c[n2])
  <2> DEFINE v == b[n1]
  <2>1. v \in Int /\ p <= v /\ c[n2] = v + l
    BY <1>0, <1>1, <1>6, <1>8
  <2>2. (r = p \/ r = p + l) /\ (Joins(t, s, w.frame) => r = p + l)
    BY <1>4, <1>5
  <2> HIDE DEF v
  <2>3. (Joins(t, s, w.frame) /\ p = v => r = v + l)
    BY <2>2
  <2>4. p + l <= v + l /\ p <= v + l /\ p \in Nat /\ l \in Nat
    BY ONLY <1>0, <1>3, <2>1
  <2>5. r <= v + l
    BY <2>2, <2>4
  <2> QED BY <2>1, <2>3, <2>5 DEF v
<1>14. ASSUME NEW i \in k1..n1, NEW j \in 1..Len(us[i].frame), c[i] + j <= r
       PROVE  t[c[i] + j] = us[i].frame[j]
  <2>1. c[i] = b[i] /\ b[i] \in Int /\ 0 <= b[i] /\ b[i] <= b[n1]
    BY <1>10
  <2>2. CASE i # n1
    <3>1. i \in k1..n /\ i \in 1..n /\ i + 1 \in k1..n1
      BY ONLY <1>0, i \in k1..n1, <2>2
    <3>2. us[i] = ws[i] /\ Len(ws[i].frame) \in Nat /\ b[i + 1] = b[i] + Len(ws[i].frame)
      BY <1>1, <1>2, <1>3, <3>1
    <3>3. b[i + 1] <= b[n1] /\ b[i + 1] \in Int
      BY <1>10, <3>1
    <3> DEFINE u == b[i]
               v == b[n1]
               g == Len(ws[i].frame)
    <3>4. /\ u \in Int /\ 0 <= u /\ v \in Int /\ g \in Nat /\ u + g <= v /\ j \in 1..g
          /\ u + j <= r
      BY <1>0, <1>6, <1>14, <2>1, <3>2, <3>3
    <3> HIDE DEF u, v, g
    <3>5. u + j <= v /\ 1 <= u + j /\ u + j \in Int
      BY ONLY <3>4
    <3>6. (r = p \/ p = v)
      BY <1>4 DEF v
    <3>7. u + j <= p
      BY <3>4, <3>5, <3>6
    <3>8. u + j \in 1..p
      BY ONLY <1>0, <3>5, <3>7
    <3>9. s[u + j] = ws[i].frame[j]
      BY <1>1, <3>1, <3>4, <3>7 DEF u, g
    <3>10. t[u + j] = s[u + j]
      BY <1>4, <3>8
    <3> QED BY <2>1, <3>2, <3>9, <3>10 DEF u
  <2>3. CASE i = n1
    <3> DEFINE v == b[n1]
    <3>1. us[i] = w /\ j \in 1..l /\ c[i] = v /\ v \in Int /\ p <= v /\ v + j <= r
      BY <1>1, <1>2, <1>14, <2>1, <2>3 DEF l
    <3> HIDE DEF v
    <3>2. r # p
      BY ONLY <1>0, <1>3, <3>1
    <3>3. p = v /\ \A x \in 1..l : t[p + x] = w.frame[x]
      BY <1>4, <3>2 DEF v
    <3> QED BY <3>1, <3>3
  <2> QED BY <2>2, <2>3
<1>15. Aligned(us, k, t, c)
  BY <1>0, <1>2, <1>9, <1>11, <1>12, <1>13, <1>14 DEF Aligned, r, k1
<1>16. Joins(t, s, w.frame) /\ p = b[n1] => r = c[Len(us) + 1]
  BY <1>0, <1>2, <1>13
<1> QED BY <1>8, <1>15, <1>16 DEF n, n1, p, r, us

-----------------------------------------------------------------------------
(***************************************************************************)
(* The inductive invariant.                                                *)
(***************************************************************************)

\* What is written: a status in its frame, or a frame that is rejected.
WellWritten(w) ==
  /\ w \in Writing
  /\ \/ w.frame \in Foreign
     \/ /\ w.status \in Statuses /\ Encodable(encode_status_payload(w.status))
        /\ w.frame = encode_frame(encode_status_payload(w.status))

EndsOK ==
  /\ written \in Seq(Writing) /\ \A i \in 1..Len(written) : WellWritten(written[i])
  /\ out \in Seq(Unit) /\ wire \in Seq(Unit) /\ delivered \in Seq(Status)
  /\ writer \in {"open", "closed"} /\ up \in BOOLEAN
  /\ Len(delivered) <= Len(written)

ReaderOK ==
  /\ reader \in [at: {"header", "payload", "closed"}, got: Seq(Unit), need: Nat]
  /\ reader.at = "header" => reader.need = HeaderLen
  /\ reader.at = "payload" =>
       /\ Len(reader.got) >= 1 /\ reader.got[1] \in Nat
       /\ reader.got[1] <= MaxPayload /\ reader.need = HeaderLen + reader.got[1]
  /\ reader.at = "closed" => reader.need = 0

\* The units the reader has of its frame, and those that may still reach it.
Behind == IF up THEN out ELSE <<>>
Incoming == reader.got \o (wire \o Behind)

\* They are what is left of the frames that are not delivered, all of it while
\* the connection holds.
FramesInOrder ==
  Reading => \E b \in [Nat -> Int] :
               /\ Aligned(written, Len(delivered), Incoming, b)
               /\ up /\ writer = "open" => Len(Incoming) = b[Len(written) + 1]

TransportInv == EndsOK /\ ReaderOK /\ FramesInOrder

\* A sequence cut in two.
LEMMA Cut ==
  ASSUME NEW S, NEW s \in Seq(S), NEW n \in Nat, n <= Len(s)
  PROVE  /\ SubSeq(s, 1, n) \in Seq(S) /\ SubSeq(s, n + 1, Len(s)) \in Seq(S)
         /\ SubSeq(s, 1, n) \o SubSeq(s, n + 1, Len(s)) = s
<1>1. SubSeq(s, 1, n) \in Seq(S)
  BY Parted
<1>2. SubSeq(s, n + 1, Len(s)) \in Seq(S)
  <2>1. n + 1 \in Nat \ {0} /\ Len(s) \in Nat /\ n + 1 <= Len(s) + 1
    OBVIOUS
  <2> QED BY <2>1, Parted
<1>3. 1 \in 1..(Len(s) + 1) /\ n \in (1 - 1)..Len(s) /\ Len(s) \in n..Len(s)
  OBVIOUS
<1>4. SubSeq(s, 1, n) \o SubSeq(s, n + 1, Len(s)) = SubSeq(s, 1, Len(s))
  BY <1>3, ConcatAdjacentSubSeq
<1> QED BY <1>1, <1>2, <1>4, SubSeqFull

\* The frames that are written announce their length, and the one that is
\* accepted holds the status that was written.
LEMMA FrameWritten ==
  ASSUME NEW w, WellWritten(w)
  PROVE  LET f == w.frame
         IN  /\ f \in Seq(Unit) /\ Len(f) >= 2 /\ f[1] \in Nat
             /\ f[1] <= MaxPayload => Len(f) = HeaderLen + f[1]
             /\ decode_frame(f) /\ decode_status(BodyOf(f)) =>
                  f \notin Foreign /\ w.status \in Statuses /\ StatusOf(BodyOf(f)) = w.status
<1> DEFINE f == w.frame
<1>0. f \in Seq(Unit)
  BY DEF WellWritten, Writing
<1>1. CASE f \in Foreign
  <2>1. f \in Seq(Nat) /\ Rejected(f)
    BY <1>1, TransportAssumption, ForeignAssumption
  <2> HIDE DEF f
  <2>2. Len(f) >= 2
    BY <2>1 DEF Rejected, HeaderLen
  <2>3. f[1] \in Nat
    BY <2>1, <2>2
  <2>4. f[1] > MaxPayload \/ (Len(f) = HeaderLen + f[1] /\ ~(decode_frame(f) /\ decode_status(BodyOf(f))))
    BY <2>1 DEF Rejected
  <2>5. decode_frame(f) => f[1] <= MaxPayload
    BY Zenon DEF decode_frame
  <2>6. ~(decode_frame(f) /\ decode_status(BodyOf(f)))
    BY <2>3, <2>4, <2>5, TransportAssumption
  <2>7. f[1] <= MaxPayload => Len(f) = HeaderLen + f[1]
    BY <2>3, <2>4, TransportAssumption
  <2> QED BY <1>0, <2>2, <2>3, <2>6, <2>7 DEF f
<1>2. CASE f \notin Foreign
  <2> DEFINE st == w.status
             body == encode_status_payload(st)
  <2>1. st \in Statuses /\ Encodable(body) /\ f = encode_frame(body)
    BY <1>2 DEF WellWritten
  <2>2. st \in Status
    BY <2>1, TransportAssumption
  <2> HIDE DEF st, f
  <2>3. body \in Seq(Nat) /\ StatusOf(body) = st
    BY <2>1, <2>2, StatusFound
  <2> HIDE DEF body
  <2>4. f[1] \in Nat /\ Len(f) = HeaderLen + f[1] /\ BodyOf(f) = body
    BY <2>1, <2>3, FrameFound
  <2>5. Len(f) >= 2
    BY <2>4 DEF HeaderLen
  <2> QED BY <1>0, <1>2, <2>1, <2>3, <2>4, <2>5 DEF f, st
<1> QED BY <1>1, <1>2

\* The grouping of three sequences of units.
LEMMA Regrouped ==
  ASSUME NEW s \in Seq(Unit), NEW t \in Seq(Unit), NEW u \in Seq(Unit)
  PROVE  (s \o t) \o u = s \o (t \o u)
<1>1. ASSUME NEW S, s \in Seq(S), t \in Seq(S), u \in Seq(S)
      PROVE  (s \o t) \o u = s \o (t \o u)
  BY ONLY <1>1, ConcatAssociative
<1> QED BY ONLY <1>1, s \in Seq(Unit), t \in Seq(Unit), u \in Seq(Unit), Zenon

IncomingOK == Behind \in Seq(Unit) /\ wire \o Behind \in Seq(Unit) /\ Incoming \in Seq(Unit)
\* What may still reach the reader is a sequence of units.
LEMMA Incomes == EndsOK /\ ReaderOK => IncomingOK
<1> SUFFICES ASSUME EndsOK, ReaderOK PROVE IncomingOK
  OBVIOUS
<1>1. Behind \in Seq(Unit)
  BY DEF EndsOK, Behind
<1>2. wire \in Seq(Unit) /\ reader.got \in Seq(Unit)
  BY DEF EndsOK, ReaderOK
<1>3. wire \o Behind \in Seq(Unit)
  BY <1>1, <1>2, ConcatProperties
<1>4. Incoming \in Seq(Unit)
  BY <1>2, <1>3, ConcatProperties DEF Incoming
<1> QED BY <1>1, <1>3, <1>4 DEF IncomingOK

\* A frame is written.
LEMMA WriteStep ==
  ASSUME TransportInv, NEW w, WellWritten(w), writer = "open", out = <<>>,
         written' = Append(written, w), out' = w.frame,
         UNCHANGED <<writer, wire, up, reader, delivered>>
  PROVE  TransportInv'
<1>0. /\ w \in Writing /\ w.frame \in Seq(Unit)
      /\ written \in Seq(Writing) /\ Len(delivered) \in Nat /\ Len(delivered) <= Len(written)
  BY DEF WellWritten, Writing, TransportInv, EndsOK
<1>1. EndsOK'
  <2>1. /\ written' \in Seq(Writing) /\ Len(written') = Len(written) + 1
        /\ \A i \in 1..Len(written) : written'[i] = written[i]
        /\ written'[Len(written) + 1] = w
    BY <1>0
  <2>2. ASSUME NEW i \in 1..Len(written') PROVE WellWritten(written'[i])
    <3>1. Len(written) \in Nat
      BY <1>0
    <3>2. i \in 1..Len(written) \/ i = Len(written) + 1
      BY <2>1, <3>1
    <3> QED BY <2>1, <3>2 DEF TransportInv, EndsOK
  <2>3. \A i \in 1..Len(written') : WellWritten(written'[i])
    BY <2>2
  <2>4. Len(delivered') <= Len(written')
    BY <1>0, <2>1
  <2> QED BY <1>0, <2>1, <2>3, <2>4 DEF TransportInv, EndsOK, WellWritten
<1>2. ReaderOK'
  BY DEF TransportInv, ReaderOK
<1>3. FramesInOrder'
  <2> SUFFICES ASSUME Reading'
               PROVE  \E c \in [Nat -> Int] :
                        /\ Aligned(written', Len(delivered'), Incoming', c)
                        /\ up' /\ writer' = "open" => Len(Incoming') = c[Len(written') + 1]
    BY DEF FramesInOrder
  <2>1. Reading
    BY DEF Reading
  <2>2. PICK b \in [Nat -> Int] :
          /\ Aligned(written, Len(delivered), Incoming, b)
          /\ up /\ writer = "open" => Len(Incoming) = b[Len(written) + 1]
    BY <2>1 DEF TransportInv, FramesInOrder
  <2>3. Incoming \in Seq(Unit) /\ Incoming' \in Seq(Unit)
    <3>1. EndsOK' /\ ReaderOK' => IncomingOK'
      BY Incomes, PTL
    <3> QED BY <1>1, <1>2, <3>1, Incomes DEF TransportInv, IncomingOK
  <2>4. IF up THEN Joins(Incoming', Incoming, w.frame) ELSE Incoming' = Incoming
    <3>1. CASE up
      <4>1. Behind = <<>> /\ Behind' = w.frame /\ wire' = wire /\ reader' = reader
        BY <3>1 DEF Behind
      <4>2. wire \in Seq(Unit) /\ reader.got \in Seq(Unit)
        BY DEF TransportInv, EndsOK, ReaderOK
      <4>3. wire \o <<>> = wire
        BY <4>2, ConcatEmptySeq
      <4>4. Incoming = reader.got \o wire /\ Incoming' = reader.got \o (wire \o w.frame)
        BY <4>1, <4>3 DEF Incoming
      <4>5. reader.got \o (wire \o w.frame) = (reader.got \o wire) \o w.frame
        <5> DEFINE f == w.frame
                   a == reader.got
        <5>1. f \in Seq(Unit) /\ a \in Seq(Unit)
          BY <1>0, <4>2
        <5> HIDE DEF f, a
        <5>2. (a \o wire) \o f = a \o (wire \o f)
          BY Regrouped, <4>2, <5>1
        <5> QED BY <5>2 DEF f, a
      <4> QED BY <1>0, <2>3, <3>1, <4>4, <4>5, Joined
    <3>2. CASE ~up
      <4>1. Behind = <<>> /\ Behind' = <<>> /\ wire' = wire /\ reader' = reader
        BY <3>2 DEF Behind
      <4> QED BY <3>2, <4>1 DEF Incoming
    <3> QED BY <3>1, <3>2
  <2> DEFINE s == Incoming
             ws == written
             k == Len(delivered)
  <2>5. PICK t : t = Incoming'
    OBVIOUS
  <2>6. /\ ws \in Seq(Writing) /\ k \in Nat /\ k <= Len(ws) /\ s \in Seq(Unit) /\ t \in Seq(Unit)
        /\ Aligned(ws, k, s, b) /\ (up => Len(s) = b[Len(ws) + 1])
        /\ IF up THEN Joins(t, s, w.frame) ELSE t = s
    BY <1>0, <2>2, <2>3, <2>4, <2>5
  <2> HIDE DEF s, ws, k
  <2>7. t = s \/ (Joins(t, s, w.frame) /\ Len(s) = b[Len(ws) + 1])
    BY <2>6
  <2>8. PICK c \in [Nat -> Int] :
          /\ Aligned(Append(ws, w), k, t, c)
          /\ Joins(t, s, w.frame) /\ Len(s) = b[Len(ws) + 1] => Len(t) = c[Len(Append(ws, w)) + 1]
    <3>1. w \in Writing
      BY <1>0
    <3> QED BY ONLY b \in [Nat -> Int], <2>6, <2>7, <3>1, AlignedWrite
  <2>9. up => Len(t) = c[Len(Append(ws, w)) + 1]
    BY <2>6, <2>8
  <2>10. Append(ws, w) = written' /\ k = Len(delivered') /\ up' = up
    BY DEF ws, k
  <2> QED BY <2>5, <2>8, <2>9, <2>10
<1> QED BY <1>1, <1>2, <1>3 DEF TransportInv

\* The front of a sequence.
Shortened(t, s) == Len(t) <= Len(s) /\ \A i \in 1..Len(t) : t[i] = s[i]
\* A step that writes and delivers nothing leaves the frames where they are.
LEMMA KeepStep ==
  ASSUME TransportInv, EndsOK', ReaderOK', Reading' => Reading,
         written' = written, delivered' = delivered,
         Incoming' = Incoming \/ Shortened(Incoming', Incoming),
         up' /\ writer' = "open" => Incoming' = Incoming /\ up /\ writer = "open"
  PROVE  TransportInv'
<1>1. SUFFICES ASSUME Reading'
               PROVE  \E b \in [Nat -> Int] :
                        /\ Aligned(written', Len(delivered'), Incoming', b)
                        /\ up' /\ writer' = "open" => Len(Incoming') = b[Len(written') + 1]
  BY DEF FramesInOrder, TransportInv
<1>2. PICK b \in [Nat -> Int] :
        /\ Aligned(written, Len(delivered), Incoming, b)
        /\ up /\ writer = "open" => Len(Incoming) = b[Len(written) + 1]
  BY <1>1 DEF TransportInv, FramesInOrder
<1>3. Incoming \in Seq(Unit) /\ Incoming' \in Seq(Unit)
  <2>1. EndsOK' /\ ReaderOK' => IncomingOK'
    BY Incomes, PTL
  <2> QED BY <2>1, Incomes DEF TransportInv, IncomingOK
<1>4. Aligned(written', Len(delivered'), Incoming', b)
  <2>1. CASE Incoming' = Incoming
    BY <1>2, <2>1
  <2>2. CASE Shortened(Incoming', Incoming)
    <3> DEFINE s == Incoming
    <3>1. PICK t : t = Incoming'
      OBVIOUS
    <3>2. written \in Seq(Writing) /\ Len(delivered) \in Nat /\ Len(delivered) <= Len(written)
      BY DEF TransportInv, EndsOK
    <3>3. /\ s \in Seq(Unit) /\ t \in Seq(Unit) /\ Len(t) <= Len(s)
          /\ \A i \in 1..Len(t) : t[i] = s[i]
      BY <1>3, <2>2, <3>1 DEF Shortened
    <3>4. Aligned(written, Len(delivered), s, b)
      BY <1>2
    <3> HIDE DEF s
    <3>5. Aligned(written, Len(delivered), t, b)
      BY ONLY b \in [Nat -> Int], <3>2, <3>3, <3>4, AlignedPrefix
    <3> QED BY <3>1, <3>5
  <2> QED BY <2>1, <2>2
<1> QED BY <1>2, <1>4

\* The front of what is joined is a shortening of it.
LEMMA Shortens ==
  ASSUME NEW s \in Seq(Unit), NEW t \in Seq(Unit)
  PROVE  Shortened(s, s \o t)
<1>1. Joins(s \o t, s, t)
  BY Joined
<1> QED BY <1>1 DEF Joins, Shortened

\* A send moves units from the writer to the connection.
LEMMA SendStep ==
  ASSUME TransportInv, NEW n \in Nat, Send(n)
  PROVE  TransportInv'
<1> DEFINE front == SubSeq(out, 1, n)
           rest == SubSeq(out, n + 1, Len(out))
<1>1. /\ out \in Seq(Unit) /\ wire \in Seq(Unit) /\ reader.got \in Seq(Unit)
      /\ n <= Len(out) /\ up /\ writer = "open"
  BY DEF TransportInv, EndsOK, ReaderOK, Send
<1>2. front \in Seq(Unit) /\ rest \in Seq(Unit) /\ front \o rest = out
  BY <1>1, Cut
<1>3. /\ wire' = wire \o front /\ out' = rest
      /\ UNCHANGED <<written, writer, up, reader, delivered>>
  BY DEF Send
<1> HIDE DEF front, rest
<1>4. wire \o front \in Seq(Unit) /\ (wire \o front) \o rest = wire \o out
  <2>1. (wire \o front) \o rest = wire \o (front \o rest)
    BY <1>1, <1>2, Regrouped
  <2> QED BY <1>1, <1>2, <2>1, Joined
<1>5. EndsOK' /\ ReaderOK'
  BY <1>2, <1>3, <1>4 DEF TransportInv, EndsOK, ReaderOK
<1>6. Incoming' = Incoming
  <2>1. Behind' = rest /\ Behind = out /\ reader' = reader
    BY <1>1, <1>3 DEF Behind
  <2> QED BY <1>3, <1>4, <2>1 DEF Incoming
<1>7. Reading' => Reading
  BY <1>3 DEF Reading
<1> QED BY <1>1, <1>3, <1>5, <1>6, <1>7, KeepStep

\* A recv moves units from the connection to the reader.
LEMMA RecvStep ==
  ASSUME TransportInv, NEW n \in Nat, Recv(n)
  PROVE  TransportInv'
<1> DEFINE front == SubSeq(wire, 1, n)
           rest == SubSeq(wire, n + 1, Len(wire))
           got == reader.got
<1>1. /\ wire \in Seq(Unit) /\ got \in Seq(Unit) /\ Behind \in Seq(Unit)
      /\ n <= Len(wire) /\ Reading
      /\ reader \in [at: {"header", "payload", "closed"}, got: Seq(Unit), need: Nat]
  BY Incomes DEF TransportInv, EndsOK, ReaderOK, Recv, IncomingOK
<1>2. front \in Seq(Unit) /\ rest \in Seq(Unit) /\ front \o rest = wire
  BY <1>1, Cut
<1>3. /\ reader' = [reader EXCEPT !.got = got \o front] /\ wire' = rest
      /\ UNCHANGED <<written, out, writer, up, delivered>>
  BY DEF Recv
<1> HIDE DEF front, rest
<1>4. got \o front \in Seq(Unit) /\ Joins(got \o front, got, front)
  BY <1>1, <1>2, Joined
<1>5. /\ reader'.got = got \o front /\ reader'.at = reader.at /\ reader'.need = reader.need
      /\ reader' \in [at: {"header", "payload", "closed"}, got: Seq(Unit), need: Nat]
  BY <1>1, <1>3, <1>4
<1>6. ReaderOK'
  <2>1. ASSUME reader.at = "payload"
        PROVE  Len(got \o front) >= 1 /\ (got \o front)[1] = got[1]
    <3>1. Len(got) >= 1
      BY <2>1 DEF TransportInv, ReaderOK
    <3> HIDE DEF got
    <3> QED BY <3>1, <1>4 DEF Joins
  <2>2. reader.at = "payload" =>
          /\ Len(reader'.got) >= 1 /\ reader'.got[1] \in Nat
          /\ reader'.got[1] <= MaxPayload /\ reader'.need = HeaderLen + reader'.got[1]
    BY <1>5, <2>1 DEF TransportInv, ReaderOK
  <2>3. /\ reader.at = "header" => reader'.need = HeaderLen
        /\ reader.at = "closed" => reader'.need = 0
    BY <1>5 DEF TransportInv, ReaderOK
  <2> QED BY <1>5, <2>2, <2>3 DEF ReaderOK
<1>7. EndsOK'
  BY <1>2, <1>3 DEF TransportInv, EndsOK
<1>8. Incoming' = Incoming
  <2>1. Behind' = Behind
    BY <1>3 DEF Behind
  <2> DEFINE r == Behind
  <2>2. Incoming' = (got \o front) \o (rest \o r) /\ Incoming = got \o (wire \o r)
    BY <1>3, <1>5, <2>1 DEF Incoming
  <2> HIDE DEF r, got
  <2>3. r \in Seq(Unit) /\ rest \o r \in Seq(Unit) /\ got \in Seq(Unit)
    <3>1. r \in Seq(Unit) /\ got \in Seq(Unit)
      BY <1>1 DEF r, got
    <3> QED BY <3>1, <1>2, Joined
  <2>4. (got \o front) \o (rest \o r) = got \o (front \o (rest \o r))
    BY <1>2, <2>3, Regrouped
  <2>5. (front \o rest) \o r = front \o (rest \o r)
    BY <1>2, <2>3, Regrouped
  <2> QED BY <1>2, <2>2, <2>4, <2>5
<1>9. Reading'
  BY <1>1, <1>5 DEF Reading
<1> QED BY <1>1, <1>3, <1>6, <1>7, <1>8, <1>9, KeepStep

\* The writer or the connection ends: what it had does not come.
LEMMA CloseStep ==
  ASSUME TransportInv, CloseWriter \/ Reset
  PROVE  TransportInv'
<1> DEFINE got == reader.got
           rest == wire \o Behind
<1>1. /\ wire \in Seq(Unit) /\ got \in Seq(Unit) /\ rest \in Seq(Unit) /\ out \in Seq(Unit)
      /\ Incoming = got \o rest
  BY Incomes DEF TransportInv, EndsOK, ReaderOK, IncomingOK, Incoming
<1>2. UNCHANGED <<written, reader, delivered>> /\ (CloseWriter \/ Reset)
  BY DEF CloseWriter, Reset
<1>3. EndsOK' /\ ReaderOK' /\ ~(up' /\ writer' = "open")
  <2>1. ReaderOK'
    BY <1>2 DEF TransportInv, ReaderOK
  <2>2. EndsOK' /\ ~(up' /\ writer' = "open")
    <3>1. CASE CloseWriter
      BY <3>1 DEF TransportInv, EndsOK, CloseWriter
    <3>2. CASE Reset
      <4>1. up' = FALSE
        BY <3>2 DEF Reset
      <4>2. up' \in BOOLEAN /\ ~up'
        BY <4>1
      <4>3. wire' = <<>> /\ UNCHANGED <<written, out, writer, delivered>>
        BY <3>2 DEF Reset
      <4>4. wire' \in Seq(Unit)
        BY <4>3
      <4> QED BY <4>2, <4>3, <4>4 DEF TransportInv, EndsOK
    <3> QED BY <1>2, <3>1, <3>2
  <2> QED BY <2>1, <2>2
<1>4. Incoming' = Incoming \/ Shortened(Incoming', Incoming)
  <2> HIDE DEF got, rest
  <2>1. reader' = reader /\ Incoming' = reader'.got \o (wire' \o Behind')
    BY <1>2 DEF Incoming
  <2>2. CASE Reset
    <3>1. wire' = <<>> /\ Behind' = <<>>
      BY <2>2 DEF Reset, Behind
    <3>2. <<>> \o <<>> = <<>> /\ got \o <<>> = got
      BY <1>1, ConcatEmptySeq
    <3>3. Incoming' = got
      BY <2>1, <3>1, <3>2 DEF got
    <3> QED BY <1>1, <3>3, Shortens
  <2>3. CASE CloseWriter
    <3>1. wire' = wire /\ Behind' = <<>>
      BY <2>3 DEF CloseWriter, Behind
    <3>2. wire \o <<>> = wire
      BY <1>1, ConcatEmptySeq
    <3>3. Incoming' = got \o wire
      BY <2>1, <3>1, <3>2 DEF got
    <3> DEFINE r == Behind
    <3>4. r \in Seq(Unit) /\ Incoming = got \o (wire \o r)
      BY Incomes DEF TransportInv, IncomingOK, Incoming, got
    <3> HIDE DEF r
    <3>5. (got \o wire) \o r = got \o (wire \o r)
      BY <1>1, <3>4, Regrouped
    <3>6. got \o wire \in Seq(Unit)
      BY <1>1, Joined
    <3>7. Shortened(got \o wire, (got \o wire) \o r)
      BY <3>4, <3>6, Shortens
    <3> QED BY <3>3, <3>4, <3>5, <3>7
  <2> QED BY <1>2, <2>2, <2>3
<1>5. Reading' => Reading
  BY <1>2 DEF Reading
<1> QED BY <1>2, <1>3, <1>4, <1>5, KeepStep

\* The reader has ended the connection.
LEMMA ClosedStep ==
  ASSUME TransportInv, reader' = Closed, UNCHANGED <<written, out, writer, wire, up, delivered>>
  PROVE  TransportInv'
<1>1. EndsOK'
  BY DEF TransportInv, EndsOK
<1>2. /\ reader' = [at |-> "closed", got |-> <<>>, need |-> 0]
      /\ reader'.at = "closed" /\ reader'.need = 0
  BY DEF Closed
<1>3. ReaderOK'
  <2>1. reader' \in [at: {"header", "payload", "closed"}, got: Seq(Unit), need: Nat]
    BY <1>2
  <2> QED BY <1>2, <2>1 DEF ReaderOK
<1>4. ~Reading'
  BY <1>2 DEF Reading
<1> QED BY <1>1, <1>3, <1>4 DEF TransportInv, FramesInOrder

\* What the reader has is the front of the first frame that is not delivered.
LEMMA ReaderFrame ==
  ASSUME TransportInv, Reading, reader.got # <<>>
  PROVE  LET k == Len(delivered) + 1
             f == written[k].frame
         IN  /\ k \in 1..Len(written) /\ WellWritten(written[k])
             /\ \A j \in 1..Len(f) : j <= Len(reader.got) => reader.got[j] = f[j]
<1> DEFINE d == Len(delivered)
           got == reader.got
           rest == wire \o Behind
           s == Incoming
<1>1. /\ written \in Seq(Writing) /\ d \in Nat /\ d <= Len(written) /\ got \in Seq(Unit)
      /\ rest \in Seq(Unit) /\ s \in Seq(Unit) /\ s = got \o rest
  BY Incomes DEF TransportInv, EndsOK, ReaderOK, IncomingOK, Incoming
<1>2. PICK b \in [Nat -> Int] : Aligned(written, d, s, b)
  BY DEF TransportInv, FramesInOrder
<1>3. got # <<>>
  OBVIOUS
<1> HIDE DEF d, got, rest, s
<1>4. Joins(s, got, rest)
  BY <1>1, Joined
<1>5. s # <<>> /\ Len(got) \in Nat /\ Len(got) <= Len(s) /\ \A j \in 1..Len(got) : s[j] = got[j]
  <2>1. Len(got) \in Nat /\ Len(got) >= 1
    BY <1>1, <1>3
  <2>2. Len(got) <= Len(s) /\ \A j \in 1..Len(got) : s[j] = got[j]
    BY <1>4 DEF Joins
  <2>3. s # <<>>
    BY <2>1, <2>2
  <2> QED BY <2>1, <2>2, <2>3
<1>6. /\ d + 1 \in 1..Len(written)
      /\ \A j \in 1..Len(written[d + 1].frame) : j <= Len(s) => s[j] = written[d + 1].frame[j]
  BY ONLY b \in [Nat -> Int], <1>1, <1>2, <1>5, FirstFrame
<1>7. WellWritten(written[d + 1])
  BY <1>6 DEF TransportInv, EndsOK
<1>8. ASSUME NEW j \in 1..Len(written[d + 1].frame), j <= Len(got)
      PROVE  got[j] = written[d + 1].frame[j]
  <2>1. Len(written[d + 1].frame) \in Nat
    BY <1>1, <1>6, FrameLength
  <2>2. Len(s) \in Nat
    BY <1>1
  <2>3. j \in 1..Len(got) /\ j <= Len(s)
    BY <1>5, <1>8, <2>1, <2>2
  <2> QED BY <1>5, <1>6, <2>3
<1> QED BY <1>6, <1>7, <1>8 DEF d, got

\* A header is read: the length it holds is that of a frame, and is checked.
LEMMA HeaderStep ==
  ASSUME TransportInv, HeaderRead
  PROVE  TransportInv'
<1>1. /\ reader.at = "header" /\ Len(reader.got) = 2 /\ Reading
      /\ reader \in [at: {"header", "payload", "closed"}, got: Seq(Unit), need: Nat]
      /\ UNCHANGED <<written, out, writer, wire, up, delivered>>
  BY DEF TransportInv, ReaderOK, HeaderRead, HeaderLen, Reading
<1> DEFINE k == Len(delivered) + 1
           f == written[k].frame
           got == reader.got
<1>2. got # <<>> /\ got \in Seq(Unit)
  BY <1>1
<1>3. WellWritten(written[k]) /\ \A j \in 1..Len(f) : j <= Len(got) => got[j] = f[j]
  BY <1>1, <1>2, ReaderFrame
<1>4. got[1] \in Nat
  <2>1. Len(f) >= 2 /\ f[1] \in Nat /\ f \in Seq(Unit)
    BY <1>3, FrameWritten
  <2>2. Len(got) = 2
    BY <1>1
  <2> HIDE DEF f, got
  <2>3. Len(f) \in Nat /\ 1 \in 1..Len(f) /\ 1 <= Len(got)
    BY <2>1, <2>2
  <2> QED BY <1>3, <2>1, <2>3
<1>5. CASE got[1] > MaxPayload
  <2>1. reader' = Closed
    BY <1>5 DEF HeaderRead
  <2> QED BY <1>1, <2>1, ClosedStep
<1>6. CASE ~(got[1] > MaxPayload)
  <2> DEFINE m == HeaderLen + got[1]
  <2>1. reader' = [reader EXCEPT !.at = "payload", !.need = m]
    BY <1>6 DEF HeaderRead
  <2>2. m \in Nat /\ got[1] <= MaxPayload
    BY <1>4, <1>6, TransportAssumption DEF HeaderLen
  <2> HIDE DEF m
  <2>3. /\ reader'.at = "payload" /\ reader'.got = reader.got /\ reader'.need = m
        /\ reader' \in [at: {"header", "payload", "closed"}, got: Seq(Unit), need: Nat]
    BY <1>1, <2>1, <2>2
  <2>4. ReaderOK'
    <3>1. Len(got) >= 1 /\ reader'.got = got
      BY <1>1, <2>3
    <3> QED BY <1>4, <2>2, <2>3, <3>1 DEF ReaderOK, m
  <2>5. EndsOK'
    BY <1>1 DEF TransportInv, EndsOK
  <2>6. Incoming' = Incoming
    <3>1. Behind' = Behind
      BY <1>1 DEF Behind
    <3> QED BY <1>1, <2>3, <3>1 DEF Incoming
  <2> QED BY <1>1, <2>4, <2>5, <2>6, KeepStep
<1> QED BY <1>5, <1>6

\* The frame the reader has read is the next one that was written; if it is
\* accepted, then so is the status it was written for.
LEMMA WholeFrame ==
  ASSUME TransportInv, reader.at = "payload", Len(reader.got) = reader.need
  PROVE  LET k == Len(delivered) + 1
             f == reader.got
         IN  /\ k \in 1..Len(written) /\ WellWritten(written[k]) /\ f = written[k].frame
             /\ decode_frame(f) /\ decode_status(BodyOf(f)) =>
                  /\ f \notin Foreign /\ written[k].status \in Statuses
                  /\ StatusOf(BodyOf(f)) = written[k].status
<1> DEFINE k == Len(delivered) + 1
           w == written[k]
           f == w.frame
           got == reader.got
<1>1. /\ got \in Seq(Unit) /\ Len(got) >= 1 /\ got[1] \in Nat /\ got[1] <= MaxPayload
      /\ Len(got) = HeaderLen + got[1] /\ Reading
  BY DEF TransportInv, ReaderOK, Reading
<1>2. got # <<>>
  BY <1>1
<1>3. k \in 1..Len(written) /\ WellWritten(w) /\ \A j \in 1..Len(f) : j <= Len(got) => got[j] = f[j]
  BY <1>1, <1>2, ReaderFrame
<1> HIDE DEF w
<1>4. /\ f \in Seq(Unit) /\ Len(f) >= 2 /\ f[1] \in Nat
      /\ f[1] <= MaxPayload => Len(f) = HeaderLen + f[1]
      /\ decode_frame(f) /\ decode_status(BodyOf(f)) =>
           f \notin Foreign /\ w.status \in Statuses /\ StatusOf(BodyOf(f)) = w.status
  BY <1>3, FrameWritten
<1> HIDE DEF f, got, k
<1>5. f[1] = got[1]
  <2>1. Len(f) \in Nat /\ 1 \in 1..Len(f)
    BY <1>4
  <2> QED BY <1>1, <1>3, <2>1
<1>6. Len(got) = Len(f)
  BY <1>1, <1>4, <1>5
<1>7. \A j \in 1..Len(got) : got[j] = f[j]
  <2>1. Len(got) \in Nat
    BY <1>1
  <2>2. \A j \in 1..Len(got) : j <= Len(got)
    BY <2>1
  <2> QED BY <1>3, <1>6, <2>2
<1>8. got = f
  BY <1>1, <1>4, <1>6, <1>7, SeqEqual
<1> QED BY <1>3, <1>4, <1>8 DEF k, w, f, got

\* A frame is read: it is accepted and the others move up, or the reader ends.
LEMMA FrameStep ==
  ASSUME TransportInv, FrameRead
  PROVE  TransportInv'
<1> DEFINE d == Len(delivered)
           f == reader.got
           accepted == decode_frame(f) /\ decode_status(BodyOf(f))
           st == StatusOf(BodyOf(f))
           w == written[d + 1]
<1>1. /\ reader.at = "payload" /\ Len(f) = reader.need /\ Reading
      /\ reader' = IF accepted THEN NextFrame ELSE Closed
      /\ delivered' = IF accepted THEN Append(delivered, st) ELSE delivered
      /\ UNCHANGED <<written, out, writer, wire, up>>
  BY DEF FrameRead, Reading
<1>2. /\ d + 1 \in 1..Len(written) /\ WellWritten(w) /\ f = w.frame
      /\ accepted => w.status \in Statuses /\ st = w.status
  BY <1>1, WholeFrame
<1>3. /\ written \in Seq(Writing) /\ d \in Nat /\ d <= Len(written) /\ f \in Seq(Unit)
      /\ delivered \in Seq(Status)
  BY DEF TransportInv, EndsOK, ReaderOK
<1> HIDE DEF accepted, st, w
<1>4. CASE ~accepted
  BY <1>1, <1>4, ClosedStep
<1>5. CASE accepted
  <2>1. reader' = [at |-> "header", got |-> <<>>, need |-> 2] /\ delivered' = Append(delivered, st)
    BY <1>1, <1>5 DEF NextFrame, HeaderLen
  <2>2. st \in Status
    BY <1>2, <1>5, TransportAssumption
  <2>3. delivered' \in Seq(Status) /\ Len(delivered') = d + 1
    BY <1>3, <2>1, <2>2
  <2>4. EndsOK'
    <3>1. Len(delivered') <= Len(written')
      BY <1>1, <1>2, <1>3, <2>3
    <3> QED BY <1>1, <2>3, <3>1 DEF TransportInv, EndsOK
  <2>5. ReaderOK'
    <3>1. /\ reader'.at = "header" /\ reader'.need = HeaderLen
          /\ reader' \in [at: {"header", "payload", "closed"}, got: Seq(Unit), need: Nat]
      BY <2>1 DEF HeaderLen
    <3> QED BY <3>1 DEF ReaderOK
  <2> DEFINE t == wire \o Behind
             s == Incoming
             q == Len(f)
  <2>6. t \in Seq(Unit) /\ s \in Seq(Unit) /\ s = f \o t
    BY Incomes DEF TransportInv, IncomingOK, Incoming
  <2>7. Incoming' = t
    <3>1. Behind' = Behind /\ wire' = wire
      BY <1>1 DEF Behind
    <3>2. <<>> \o t = t
      BY <2>6, ConcatEmptySeq
    <3>3. reader'.got = <<>>
      BY <2>1
    <3> QED BY <3>1, <3>2, <3>3 DEF Incoming
  <2>8. PICK b \in [Nat -> Int] :
          /\ Aligned(written, d, s, b)
          /\ up /\ writer = "open" => Len(s) = b[Len(written) + 1]
    BY <1>1 DEF TransportInv, FramesInOrder
  <2>9. q \in Nat /\ q = Len(written[d + 1].frame)
    BY <1>2, <1>3 DEF w
  <2> HIDE DEF s, t
  <2>10. Joins(s, f, t)
    BY <1>3, <2>6, Joined
  <2>11. q <= Len(s) /\ PartOf(t, s, q + 1, Len(s))
    <3> DEFINE p == Len(s)
               r == Len(t)
    <3>1. p = q + r /\ r \in Nat /\ q \in Nat /\ \A i \in 1..r : s[q + i] = t[i]
      BY <2>9, <2>10 DEF Joins
    <3> HIDE DEF p, r, q
    <3>2. q <= p /\ p - (q + 1) + 1 = r /\ \A i \in 1..r : q + 1 + i - 1 = q + i
      BY ONLY <3>1
    <3>3. \A i \in 1..r : t[i] = s[q + 1 + i - 1]
      BY <3>1, <3>2
    <3> QED BY <3>2, <3>3 DEF PartOf, p, r
  <2> HIDE DEF q, d, f
  <2>12. PICK c \in [Nat -> Int] :
           /\ Aligned(written, d + 1, t, c)
           /\ Len(s) = b[Len(written) + 1] => Len(t) = c[Len(written) + 1]
    <3>1. /\ written \in Seq(Writing) /\ d \in Nat /\ d + 1 \in 1..Len(written)
          /\ s \in Seq(Unit) /\ t \in Seq(Unit) /\ Aligned(written, d, s, b)
      BY <1>2, <1>3, <2>6, <2>8
    <3>2. MovesUp(written, d, s, b, t)
      BY ONLY b \in [Nat -> Int], <2>9, <2>11, <3>1, AlignedNext
    <3> QED BY ONLY <3>2 DEF MovesUp
  <2>13. /\ Aligned(written', Len(delivered'), Incoming', c)
         /\ up' /\ writer' = "open" => Len(Incoming') = c[Len(written') + 1]
    BY <1>1, <2>3, <2>7, <2>8, <2>12
  <2> QED BY <2>4, <2>5, <2>13 DEF TransportInv, FramesInOrder
<1> QED BY <1>4, <1>5

\* A step that changes nothing.
LEMMA StutterStep ==
  ASSUME TransportInv, UNCHANGED vars
  PROVE  TransportInv'
<1>1. UNCHANGED <<written, out, writer, wire, up, reader, delivered>>
  BY DEF vars
<1>2. EndsOK' /\ ReaderOK'
  BY <1>1 DEF TransportInv, EndsOK, ReaderOK
<1>3. Incoming' = Incoming /\ (Reading' => Reading)
  BY <1>1 DEF Incoming, Behind, Reading
<1> QED BY <1>1, <1>2, <1>3, KeepStep

\* The invariant holds initially.
LEMMA TransportStarts == Init => TransportInv
<1> SUFFICES ASSUME Init PROVE TransportInv
  OBVIOUS
<1>1. /\ written = <<>> /\ delivered = <<>> /\ out = <<>> /\ wire = <<>> /\ writer = "open"
      /\ reader = [at |-> "header", got |-> <<>>, need |-> 2]
  BY DEF Init, NextFrame, HeaderLen
<1>2. up = TRUE
  BY DEF Init
<1>3. EndsOK
  <2>1. up \in BOOLEAN
    BY <1>2
  <2>2. /\ written \in Seq(Writing) /\ out \in Seq(Unit) /\ wire \in Seq(Unit)
        /\ delivered \in Seq(Status) /\ Len(delivered) <= Len(written)
    BY <1>1
  <2>3. \A i \in 1..Len(written) : WellWritten(written[i])
    BY <1>1
  <2> QED BY <1>1, <2>1, <2>2, <2>3 DEF EndsOK
<1>4. ReaderOK
  <2>1. /\ reader.at = "header" /\ reader.need = HeaderLen
        /\ reader \in [at: {"header", "payload", "closed"}, got: Seq(Unit), need: Nat]
    BY <1>1 DEF HeaderLen
  <2> QED BY <2>1 DEF ReaderOK
<1>5. FramesInOrder
  <2> DEFINE b == [i \in Nat |-> 0]
  <2>1. b \in [Nat -> Int] /\ b[1] = 0
    OBVIOUS
  <2> HIDE DEF b
  <2>2. Incoming = <<>>
    <3>1. Behind = <<>> /\ reader.got = <<>>
      BY <1>1 DEF Behind
    <3>2. <<>> \o (<<>> \o <<>>) = <<>>
      BY ConcatEmptySeq, EmptySeq
    <3> QED BY <1>1, <3>1, <3>2 DEF Incoming
  <2>3. Len(Incoming) = 0 /\ Len(written) = 0 /\ Len(delivered) = 0
    BY <1>1, <2>2
  <2>4. \A i \in (0 + 1)..0 : FALSE
    OBVIOUS
  <2>5. \A i \in (0 + 1)..(0 + 1) : i = 1
    OBVIOUS
  <2>6. Aligned(written, Len(delivered), Incoming, b)
    BY <2>1, <2>3, <2>4, <2>5 DEF Aligned
  <2>7. Len(Incoming) = b[Len(written) + 1]
    BY <2>1, <2>3
  <2> QED BY <2>1, <2>6, <2>7 DEF FramesInOrder
<1> QED BY <1>3, <1>4, <1>5 DEF TransportInv

\* Every step keeps the invariant.
LEMMA TransportMoves == TransportInv /\ [Next]_vars => TransportInv'
<1> SUFFICES ASSUME TransportInv, [Next]_vars PROVE TransportInv'
  OBVIOUS
<1>1. ASSUME NEW st \in Statuses, WriteStatus(st) PROVE TransportInv'
  <2> DEFINE body == encode_status_payload(st)
             w == [frame |-> encode_frame(body), status |-> st]
  <2>1. CASE Encodable(body)
    <3>1. /\ writer = "open" /\ out = <<>> /\ written' = Append(written, w)
          /\ out' = encode_frame(body) /\ UNCHANGED <<writer, wire, up, reader, delivered>>
      BY <1>1, <2>1 DEF WriteStatus
    <3>2. st \in Status
      BY TransportAssumption
    <3>3. body \in Seq(Nat)
      BY <2>1, <3>2, StatusFound
    <3> HIDE DEF body
    <3>4. encode_frame(body) \in Seq(Unit)
      BY <2>1, <3>3, FrameFound
    <3>5. w.frame = encode_frame(body) /\ w.status = st /\ w \in Writing
      BY <3>2, <3>4 DEF Writing
    <3> HIDE DEF w
    <3>6. WellWritten(w)
      BY <2>1, <3>5 DEF WellWritten, body
    <3> QED BY <3>1, <3>5, <3>6, WriteStep
  <2>2. CASE ~Encodable(body)
    <3>1. UNCHANGED vars
      BY <1>1, <2>2 DEF WriteStatus, vars
    <3> QED BY <3>1, StutterStep
  <2> QED BY <2>1, <2>2
<1>2. ASSUME NEW frame \in Foreign, WriteForeign(frame) PROVE TransportInv'
  <2> DEFINE w == [frame |-> frame, status |-> NoStatus]
  <2>1. /\ writer = "open" /\ out = <<>> /\ written' = Append(written, w) /\ out' = frame
        /\ UNCHANGED <<writer, wire, up, reader, delivered>>
    BY <1>2 DEF WriteForeign
  <2>2. frame \in Seq(Unit)
    <3>1. frame \in Seq(Nat)
      BY TransportAssumption
    <3> QED BY <3>1, SeqMonotonic DEF Unit
  <2>3. NoStatus \in Status
    BY DEF NoStatus, Status
  <2>4. w.frame = frame /\ w \in Writing
    BY <2>2, <2>3 DEF Writing
  <2> HIDE DEF w
  <2>5. WellWritten(w)
    BY <2>4 DEF WellWritten
  <2> QED BY <2>1, <2>4, <2>5, WriteStep
<1>3. ASSUME NEW n \in 1..WireBound, Send(n) \/ Recv(n) PROVE TransportInv'
  <2>1. n \in Nat
    BY TransportAssumption
  <2> QED BY <1>3, <2>1, SendStep, RecvStep
<1>4. CASE CloseWriter \/ Reset
  BY <1>4, CloseStep
<1>5. CASE RecvFails
  BY <1>5, ClosedStep DEF RecvFails
<1>6. CASE HeaderRead
  BY <1>6, HeaderStep
<1>7. CASE FrameRead
  BY <1>7, FrameStep
<1>8. CASE Over \/ UNCHANGED vars
  <2>1. UNCHANGED vars
    BY <1>8 DEF Over
  <2> QED BY <2>1, StutterStep
<1> QED BY <1>1, <1>2, <1>3, <1>4, <1>5, <1>6, <1>7, <1>8 DEF Next

-----------------------------------------------------------------------------
\* However the frames are cut, and wherever the writer or the connection ends,
\* what the reader has and may still get is what is left of the frames behind
\* the last it accepted.
THEOREM TransportInvariant == Spec => []TransportInv
<1>1. Init => TransportInv
  BY TransportStarts
<1>2. TransportInv /\ [Next]_vars => TransportInv'
  BY TransportMoves
<1> QED BY <1>1, <1>2, PTL DEF Spec

\* The channel's view of what is written.
MessageOf(w) == IF w.frame \in Foreign THEN [code |-> -1] ELSE w.status
Messages == [i \in DOMAIN written |-> MessageOf(written[i])]

\* The channel starts empty.
LEMMA ChannelStarts == Init => Stream!ChannelInit
<1> SUFFICES ASSUME Init PROVE Stream!ChannelInit
  OBVIOUS
<1>1. written = <<>> /\ delivered = <<>> /\ reader.at = "header"
  BY DEF Init, NextFrame
<1>2. Messages = <<>>
  BY <1>1 DEF Messages
<1>3. (reader.at = "closed") = FALSE
  BY <1>1
<1> QED BY <1>1, <1>2, <1>3, Zenon DEF Stream!ChannelInit, Messages, MessageOf

\* Writing a frame writes a message.
LEMMA ChannelWrite ==
  ASSUME TransportInv, NEW w \in Writing, written' = Append(written, w),
         UNCHANGED <<reader, delivered>>
  PROVE  Stream!Write
<1> DEFINE n == Len(written)
<1>1. written \in Seq(Writing) /\ n \in Nat
  BY DEF TransportInv, EndsOK
<1>2. /\ DOMAIN written = 1..n /\ DOMAIN written' = 1..(n + 1)
      /\ \A i \in 1..n : written'[i] = written[i]
  BY <1>1
<1> HIDE DEF n
<1>3. PICK a : a = Messages
  OBVIOUS
<1>4. PICK z : z = Messages'
  OBVIOUS
<1> DEFINE S == {MessageOf(written[i]) : i \in 1..n} \cup {MessageOf(written'[i]) : i \in 1..(n + 1)}
<1>5. a \in Seq(S) /\ Len(a) = n /\ \A i \in 1..n : a[i] = MessageOf(written[i])
  <2>1. a = [i \in 1..n |-> MessageOf(written[i])]
    BY <1>2, <1>3 DEF Messages
  <2>2. a \in [1..n -> S]
    BY <2>1
  <2> HIDE DEF S
  <2> QED BY <1>1, <2>1, <2>2
<1>6. z \in Seq(S) /\ Len(z) = n + 1 /\ \A i \in 1..(n + 1) : z[i] = MessageOf(written'[i])
  <2>1. PICK u : u = written'
    OBVIOUS
  <2> DEFINE m == n + 1
  <2>2. m \in Nat
    BY <1>1
  <2>3. z = [i \in 1..m |-> MessageOf(u[i])]
    BY <1>2, <1>4, <2>1 DEF Messages
  <2>4. \A i \in 1..m : MessageOf(u[i]) \in S
    BY <2>1
  <2> HIDE DEF S, m
  <2>5. z \in [1..m -> S] /\ \A i \in 1..m : z[i] = MessageOf(u[i])
    BY <2>3, <2>4
  <2>6. z \in Seq(S) /\ Len(z) = m
    BY <2>2, <2>3, <2>5
  <2> QED BY <2>1, <2>5, <2>6 DEF m
<1> HIDE DEF S
<1>7. \A i \in 1..n : z[i] = a[i]
  <2>1. \A i \in 1..n : i \in 1..(n + 1)
    BY <1>1
  <2> QED BY <1>2, <1>5, <1>6, <2>1
<1>8. SubSeq(z, 1, n) = a
  <2> DEFINE p == SubSeq(z, 1, n)
  <2>1. p \in Seq(S) /\ PartOf(p, z, 1, n)
    BY <1>1, <1>6, Parted
  <2> HIDE DEF p
  <2>2. n - 1 + 1 = n /\ \A i \in 1..n : 1 + i - 1 = i
    BY <1>1
  <2>3. Len(p) = n /\ \A i \in 1..n : p[i] = z[i]
    BY <2>1, <2>2 DEF PartOf
  <2>4. p = a
    BY <1>5, <1>7, <2>1, <2>3, SeqEqual
  <2> QED BY <2>4 DEF p
<1>9. /\ Len(Messages') = Len(Messages) + 1
      /\ SubSeq(Messages', 1, Len(Messages)) = Messages
  BY <1>3, <1>4, <1>5, <1>6, <1>8
<1>10. UNCHANGED <<delivered, reader.at = "closed">>
  OBVIOUS
<1> QED BY <1>9, <1>10, Zenon DEF Stream!Write, Messages, MessageOf

\* A frame that is accepted delivers the next message.
LEMMA ChannelDeliver ==
  ASSUME TransportInv, FrameRead, reader' # Closed
  PROVE  Stream!Deliver
<1> DEFINE k == Len(delivered) + 1
           f == reader.got
           accepted == decode_frame(f) /\ decode_status(BodyOf(f))
<1>1. /\ reader.at = "payload" /\ Len(f) = reader.need
      /\ reader' = IF accepted THEN NextFrame ELSE Closed
      /\ delivered' = IF accepted THEN Append(delivered, StatusOf(BodyOf(f))) ELSE delivered
      /\ written' = written
  BY DEF FrameRead
<1>2. accepted /\ reader' = NextFrame /\ delivered' = Append(delivered, StatusOf(BodyOf(f)))
  BY <1>1, Zenon
<1>3. /\ k \in 1..Len(written) /\ f = written[k].frame
      /\ f \notin Foreign /\ written[k].status \in Statuses
      /\ StatusOf(BodyOf(f)) = written[k].status
  BY <1>1, <1>2, WholeFrame
<1>4. written \in Seq(Writing) /\ Len(delivered) \in Nat
  BY DEF TransportInv, EndsOK
<1>5. Messages[k] = written[k].status /\ Len(Messages) = Len(written)
  <2>1. DOMAIN written = 1..Len(written) /\ Len(written) \in Nat
    BY <1>4
  <2>2. Messages = [i \in 1..Len(written) |-> MessageOf(written[i])]
    BY <2>1 DEF Messages
  <2>3. Messages[k] = MessageOf(written[k])
    BY <1>3, <2>2
  <2>4. Len(Messages) = Len(written)
    BY <2>1, <2>2
  <2> QED BY <1>3, <2>3, <2>4 DEF MessageOf
<1>6. Len(delivered) < Len(Messages)
  BY <1>3, <1>4, <1>5
<1>7. Messages' = Messages
  BY <1>1 DEF Messages
<1>8. (reader.at = "closed") = FALSE /\ (reader.at = "closed")' = FALSE
  BY <1>1, <1>2 DEF NextFrame
<1>9. Messages[k] \in Statuses /\ delivered' = Append(delivered, Messages[k])
  BY <1>2, <1>3, <1>5
<1> QED BY <1>6, <1>7, <1>8, <1>9, Zenon DEF Stream!Deliver, Messages, MessageOf

\* Every step of the transport is one of the channel, or none.
LEMMA ChannelMoves ==
  TransportInv /\ [Next]_vars =>
    [Stream!Write \/ Stream!Deliver \/ Stream!End]_<<Messages, delivered, reader.at = "closed">>
<1> DEFINE view == <<Messages, delivered, reader.at = "closed">>
           steps == Stream!Write \/ Stream!Deliver \/ Stream!End
<1> SUFFICES ASSUME TransportInv, [Next]_vars PROVE steps \/ UNCHANGED view
  OBVIOUS
<1>1. ASSUME UNCHANGED <<written, delivered>>, (reader'.at = "closed") = (reader.at = "closed")
      PROVE  UNCHANGED view
  BY <1>1 DEF Messages
<1>2. ASSUME UNCHANGED <<written, delivered>>, reader' = Closed
      PROVE  Stream!End
  <2>1. (reader.at = "closed")' = TRUE
    BY <1>2 DEF Closed
  <2>2. Messages' = Messages
    BY <1>2 DEF Messages
  <2> QED BY <1>2, <2>1, <2>2, Zenon DEF Stream!End, Messages, MessageOf
<1> HIDE DEF view
<1>3. ASSUME NEW st \in Statuses, WriteStatus(st) PROVE steps \/ UNCHANGED view
  <2> DEFINE body == encode_status_payload(st)
             w == [frame |-> encode_frame(body), status |-> st]
  <2>1. CASE Encodable(body)
    <3>1. written' = Append(written, w) /\ UNCHANGED <<reader, delivered>>
      BY <1>3, <2>1 DEF WriteStatus
    <3>2. st \in Status
      BY TransportAssumption
    <3>3. body \in Seq(Nat)
      BY <2>1, <3>2, StatusFound
    <3> HIDE DEF body
    <3>4. encode_frame(body) \in Seq(Unit)
      BY <2>1, <3>3, FrameFound
    <3>5. w \in Writing
      BY <3>2, <3>4 DEF Writing
    <3> HIDE DEF w
    <3> QED BY <3>1, <3>5, ChannelWrite
  <2>2. CASE ~Encodable(body)
    <3>1. UNCHANGED <<written, delivered, reader>>
      BY <1>3, <2>2 DEF WriteStatus
    <3> QED BY <1>1, <3>1
  <2> QED BY <2>1, <2>2
<1>4. ASSUME NEW frame \in Foreign, WriteForeign(frame) PROVE steps
  <2> DEFINE w == [frame |-> frame, status |-> NoStatus]
  <2>1. written' = Append(written, w) /\ UNCHANGED <<reader, delivered>>
    BY <1>4 DEF WriteForeign
  <2>2. frame \in Seq(Unit)
    <3>1. frame \in Seq(Nat)
      BY TransportAssumption
    <3> QED BY <3>1, SeqMonotonic DEF Unit
  <2>3. NoStatus \in Status
    BY DEF NoStatus, Status
  <2>4. w \in Writing
    BY <2>2, <2>3 DEF Writing
  <2> HIDE DEF w
  <2> QED BY <2>1, <2>4, ChannelWrite
<1>5. ASSUME NEW n \in 1..WireBound, Send(n) \/ Recv(n) PROVE UNCHANGED view
  <2>1. CASE Send(n)
    BY <1>1, <2>1 DEF Send
  <2>2. CASE Recv(n)
    <3>1. UNCHANGED <<written, delivered>> /\ reader'.at = reader.at
      BY <2>2 DEF Recv, TransportInv, ReaderOK
    <3> QED BY <1>1, <3>1
  <2> QED BY <1>5, <2>1, <2>2
<1>6. CASE CloseWriter \/ Reset \/ Over \/ UNCHANGED vars
  <2>1. UNCHANGED <<written, delivered, reader>>
    BY <1>6 DEF CloseWriter, Reset, Over, vars
  <2> QED BY <1>1, <2>1
<1>7. CASE RecvFails
  BY <1>2, <1>7 DEF RecvFails
<1>8. CASE HeaderRead
  <2>1. CASE reader' = Closed
    BY <1>2, <1>8, <2>1 DEF HeaderRead
  <2>2. CASE reader' # Closed
    <3>1. UNCHANGED <<written, delivered>> /\ reader'.at = "payload" /\ reader.at = "header"
      BY <1>8, <2>2 DEF HeaderRead, TransportInv, ReaderOK
    <3> QED BY <1>1, <3>1
  <2> QED BY <2>1, <2>2
<1>9. CASE FrameRead
  <2>1. CASE reader' = Closed
    <3>1. NextFrame # Closed
      <4>1. NextFrame.at # Closed.at
        BY DEF NextFrame, Closed
      <4> QED BY <4>1
    <3>2. UNCHANGED <<written, delivered>>
      BY <1>9, <2>1, <3>1, Zenon DEF FrameRead
    <3> QED BY <1>2, <2>1, <3>2
  <2>2. CASE reader' # Closed
    BY <1>9, <2>2, ChannelDeliver
  <2> QED BY <2>1, <2>2
<1> QED BY <1>3, <1>4, <1>5, <1>6, <1>7, <1>8, <1>9 DEF Next

\* However send and recv cut the frames, wherever the writer dies or the
\* connection breaks, and whatever is malformed between them, read_status
\* returns the statuses that write_status was given, in order and each once.
THEOREM TransportImplementsChannel == Spec => ImplementsChannel
<1>1. Init => Stream!ChannelInit
  BY ChannelStarts
<1>2. TransportInv /\ [Next]_vars =>
        [Stream!Write \/ Stream!Deliver \/ Stream!End]_<<Messages, delivered, reader.at = "closed">>
  BY ChannelMoves
<1> QED BY <1>1, <1>2, TransportInvariant, PTL
        DEF Spec, ImplementsChannel, Stream!ChannelSpec, Messages, MessageOf
=============================================================================
