---------------------------- MODULE UpLinkProofs ----------------------------
(***************************************************************************)
(* What UpLink does for any number of frames, any alarms among them, any   *)
(* capacity of the buffer and any width of a length: the buffer stays      *)
(* split into whole records and raw bytes until a frame is converted out   *)
(* of U8 raw bytes or more, and what the application is given is what the  *)
(* device sent, once and in order.                                         *)
(*                                                                         *)
(* The argument: the raw bytes in the buffer, the header bytes counted,    *)
(* the rest of the chunk and the bytes on the wire are one line (Line),    *)
(* of which every step of the gateway only leaves some out (Within).  So   *)
(* what holds of a line whatever is left out of it is never lost: bytes of *)
(* different frames come in the order of the frames, and the pattern of a  *)
(* whole frame is there only for a frame that was sent sound (LineOK).     *)
(***************************************************************************)
EXTENDS UpLink, SequenceTheorems, TLAPS

-----------------------------------------------------------------------------
(* What is left when places of a sequence are left out. *)

Chosen(h, s, t) ==
  /\ \A i \in 1 .. Len(s) : s[i] = t[h[i]]
  /\ \A i, j \in 1 .. Len(s) : i < j => h[i] < h[j]

Within(s, t) == \E h \in [1 .. Len(s) -> 1 .. Len(t)] : Chosen(h, s, t)

LEMMA WithinSelf ==
  ASSUME NEW S, NEW s \in Seq(S)
  PROVE  Within(s, s)
  <1> DEFINE h == [i \in 1 .. Len(s) |-> i]
  <1>1. h \in [1 .. Len(s) -> 1 .. Len(s)]
    OBVIOUS
  <1>2. Chosen(h, s, s)
    BY DEF Chosen
  <1> QED
    BY <1>1, <1>2 DEF Within

LEMMA WithinEmpty ==
  ASSUME NEW S, NEW t \in Seq(S)
  PROVE  Within(<<>>, t)
  <1> DEFINE h == [i \in 1 .. 0 |-> i]
  <1>1. h \in [1 .. Len(<<>>) -> 1 .. Len(t)]
    OBVIOUS
  <1>2. Chosen(h, <<>>, t)
    BY DEF Chosen
  <1> QED
    BY <1>1, <1>2 DEF Within

\* A part of a sequence is within it.
LEMMA WithinPart ==
  ASSUME NEW S, NEW s \in Seq(S), NEW m \in Nat \ {0}, NEW n \in Int, n <= Len(s)
  PROVE  SubSeq(s, m, n) \in Seq(S) /\ Within(SubSeq(s, m, n), s)
  <1> DEFINE p == SubSeq(s, m, n)
  <1>1. \A i \in m .. n : s[i] \in S
    BY ElementOfSeq
  <1>2. /\ p \in Seq(S)
        /\ Len(p) = IF m <= n THEN n - m + 1 ELSE 0
        /\ \A i \in 1 .. n - m + 1 : p[i] = s[m + i - 1]
    BY <1>1, SubSeqProperties
  <1> DEFINE h == [i \in 1 .. Len(p) |-> m + i - 1]
  <1> HIDE DEF p
  <1>3. h \in [1 .. Len(p) -> 1 .. Len(s)]
    BY <1>2
  <1>4. Chosen(h, p, s)
    BY <1>2 DEF Chosen
  <1>5. Within(p, s)
    BY <1>3, <1>4 DEF Within
  <1> QED
    BY <1>2, <1>5 DEF p

LEMMA WithinWithin ==
  ASSUME NEW S, NEW s \in Seq(S), NEW t \in Seq(S), NEW u \in Seq(S), Within(s, t), Within(t, u)
  PROVE  Within(s, u)
  <1>1. PICK g \in [1 .. Len(s) -> 1 .. Len(t)] : Chosen(g, s, t)
    BY DEF Within
  <1>2. PICK h \in [1 .. Len(t) -> 1 .. Len(u)] : Chosen(h, t, u)
    BY DEF Within
  <1> DEFINE k == [i \in 1 .. Len(s) |-> h[g[i]]]
  <1>3. k \in [1 .. Len(s) -> 1 .. Len(u)]
    OBVIOUS
  <1>4. Chosen(k, s, u)
    BY <1>1, <1>2 DEF Chosen
  <1> QED
    BY <1>3, <1>4 DEF Within

LEMMA WithinBoth ==
  ASSUME NEW S, NEW a \in Seq(S), NEW b \in Seq(S), NEW c \in Seq(S), NEW d \in Seq(S),
         Within(a, c), Within(b, d)
  PROVE  Within(a \o b, c \o d)
  <1>1. PICK g \in [1 .. Len(a) -> 1 .. Len(c)] : Chosen(g, a, c)
    BY DEF Within
  <1>2. PICK h \in [1 .. Len(b) -> 1 .. Len(d)] : Chosen(h, b, d)
    BY DEF Within
  <1>3. /\ Len(a \o b) = Len(a) + Len(b)
        /\ \A i \in 1 .. Len(a) + Len(b) :
             (a \o b)[i] = IF i <= Len(a) THEN a[i] ELSE b[i - Len(a)]
    BY ConcatProperties
  <1>4. /\ Len(c \o d) = Len(c) + Len(d)
        /\ \A i \in 1 .. Len(c) + Len(d) :
             (c \o d)[i] = IF i <= Len(c) THEN c[i] ELSE d[i - Len(c)]
    BY ConcatProperties
  <1>5. Len(a) \in Nat /\ Len(b) \in Nat /\ Len(c) \in Nat /\ Len(d) \in Nat
    OBVIOUS
  <1> DEFINE x == a \o b
             y == c \o d
             k == [i \in 1 .. Len(x) |->
                     IF i <= Len(a) THEN g[i] ELSE Len(c) + h[i - Len(a)]]
  <1>6. ASSUME NEW i \in 1 .. Len(x)
        PROVE  /\ k[i] \in 1 .. Len(y)
               /\ x[i] = y[k[i]]
               /\ i <= Len(a) => k[i] = g[i] /\ g[i] \in 1 .. Len(c)
               /\ i > Len(a) => /\ i - Len(a) \in 1 .. Len(b)
                                /\ k[i] = Len(c) + h[i - Len(a)]
                                /\ h[i - Len(a)] \in 1 .. Len(d)
    <2>1. CASE i <= Len(a)
      <3>1. i \in 1 .. Len(a) /\ k[i] = g[i] /\ g[i] \in 1 .. Len(c)
        BY <1>3, <1>5, <2>1
      <3>2. y[g[i]] = c[g[i]] /\ x[i] = a[i]
        BY <1>3, <1>4, <1>5, <2>1, <3>1
      <3> QED
        BY <1>1, <1>4, <1>5, <2>1, <3>1, <3>2 DEF Chosen
    <2>2. CASE i > Len(a)
      <3>1. i - Len(a) \in 1 .. Len(b) /\ k[i] = Len(c) + h[i - Len(a)]
        BY <1>3, <1>5, <2>2
      <3>2. h[i - Len(a)] \in 1 .. Len(d)
        BY <3>1
      <3> HIDE DEF k
      <3>3. y[k[i]] = d[h[i - Len(a)]] /\ x[i] = b[i - Len(a)] /\ k[i] \in 1 .. Len(y)
        BY <1>3, <1>4, <1>5, <2>2, <3>1, <3>2
      <3> QED
        BY <1>2, <2>2, <3>1, <3>2, <3>3 DEF Chosen
    <2> QED
      BY <1>5, <2>1, <2>2
  <1>7. k \in [1 .. Len(x) -> 1 .. Len(y)]
    BY <1>6
  <1>8. \A i, j \in 1 .. Len(x) : i < j => k[i] < k[j]
    <2> SUFFICES ASSUME NEW i \in 1 .. Len(x), NEW j \in 1 .. Len(x), i < j
                 PROVE  k[i] < k[j]
      OBVIOUS
    <2> HIDE DEF k
    <2>1. i \in Int /\ j \in Int
      OBVIOUS
    <2>2. CASE j <= Len(a)
      <3>1. i \in 1 .. Len(a) /\ j \in 1 .. Len(a)
        BY <1>5, <2>1, <2>2
      <3> QED
        BY <1>1, <1>5, <1>6, <2>1, <2>2, <3>1 DEF Chosen
    <2>3. CASE i <= Len(a) /\ j > Len(a)
      BY <1>5, <1>6, <2>1, <2>3
    <2>4. CASE i > Len(a)
      <3>1. j > Len(a)
        BY <1>5, <2>1, <2>4
      <3>2. h[i - Len(a)] < h[j - Len(a)]
        <4>1. i - Len(a) \in 1 .. Len(b) /\ j - Len(a) \in 1 .. Len(b)
          BY <1>6, <2>4, <3>1
        <4>2. i - Len(a) < j - Len(a)
          BY <1>5, <2>1
        <4>3. \A m, n \in 1 .. Len(b) : m < n => h[m] < h[n]
          BY <1>2 DEF Chosen
        <4> QED
          BY ONLY <4>1, <4>2, <4>3
      <3> QED
        BY <1>5, <1>6, <2>1, <2>4, <3>1, <3>2
    <2> QED
      BY <1>5, <2>1, <2>2, <2>3, <2>4
  <1>9. Chosen(k, x, y)
    BY <1>6, <1>8 DEF Chosen
  <1> HIDE DEF k
  <1> QED
    BY <1>7, <1>9 DEF Within

-----------------------------------------------------------------------------
(* The line. *)

IsByte(c) == c.k = "byte"

\* Bytes of frames come in the order in which they were sent.
Rising(s) ==
  \A i, j \in 1 .. Len(s) :
    i < j /\ IsByte(s[i]) /\ IsByte(s[j]) =>
      s[i].f < s[j].f \/ (s[i].f = s[j].f /\ s[i].i < s[j].i)

\* Two bytes of one frame with an 0xF5 and an 0x55 between them: in a frame damaged
\* behind its header there are none.
Whole(s, a, b, c, d) ==
  a < b /\ b < c /\ c < d /\ IsByte(s[a]) /\ IsByte(s[d]) /\ s[a].f = s[d].f /\ s[b] = F5 /\ s[c] = X55

Genuine(s, S) ==
  \A a, b, c, d \in 1 .. Len(s) : Whole(s, a, b, c, d) => s[a].f \in S

\* No byte is of a frame not yet sent.
UpTo(s, n) ==
  \A i \in 1 .. Len(s) : IsByte(s[i]) => s[i].f \in 1 .. n /\ s[i].i \in 1 .. 2

\* Nor is anything there a converted record.
Bytes(s) == \A i \in 1 .. Len(s) : ~IsRecord(s[i])

LineOK(s, n, S) == Rising(s) /\ Genuine(s, S) /\ UpTo(s, n) /\ Bytes(s)

\* The bytes of the frame being received, as the buffer holds them.
Raw == SubSeq(q, offset + 1, Len(q))
Buffered == Raw \o Heads(wordstate)
Line == Buffered \o (data \o wire)

-----------------------------------------------------------------------------
(* The inductive invariant. *)

Between == data = <<>> <=> pc # "loop"

\* The converted part of the buffer.
Recs == SubSeq(q, 1, offset)

RecordLen(k) == IF k = "alarm" THEN 2 ELSE 3

\* One cell comes before another, of a later record or of the same one.
Follows(a, b) == Before(a, b) \/ (a.f = b.f /\ a.k = b.k /\ a.i < b.i)

Known(c, S) == IsRecord(c) /\ c.f \in S /\ (c.k = "alarm" => c.f \in Alarms)

\* Whole records of frames in S, one after the other, in the order of the frames.
RecsOK(b, S) ==
  /\ \A j \in 1 .. Len(b) : Known(b[j], S) /\ b[j].i \in 1 .. RecordLen(b[j].k)
  /\ \A i, j \in 1 .. Len(b) : i < j => Follows(b[i], b[j])
  /\ Len(b) > 0 => b[1].i = 1
  /\ \A j \in 1 .. Len(b) :
       /\ b[j].i < RecordLen(b[j].k) =>
            j < Len(b) /\ b[j + 1] = [k |-> b[j].k, f |-> b[j].f, i |-> b[j].i + 1]
       /\ b[j].i = RecordLen(b[j].k) /\ j < Len(b) => b[j + 1].i = 1

\* What has been given to the application or waits for it.
Given == {up[j] : j \in 1 .. Len(up)} \cup ({dataup} \ {NULL})

HandedOK ==
  /\ sound \subseteq 1 .. sent
  /\ \A c \in Given : Known(c, sound)
  /\ \A i, j \in 1 .. Len(up) : i < j => Before(up[i], up[j])
  /\ dataup # NULL => \A j \in 1 .. Len(up) : Before(up[j], dataup)

\* Records wait behind those given, and all bytes on the line are of later frames.
Behind ==
  /\ \A c \in Given, j \in 1 .. Len(Recs) : Before(c, Recs[j])
  /\ \A l \in 1 .. Len(Line) : IsByte(Line[l]) =>
       /\ \A j \in 1 .. Len(Recs) : Recs[j].f < Line[l].f
       /\ \A c \in Given : c.f < Line[l].f

\* TypeOK before an overrun, and at the step that makes one.
Types ==
  /\ wire \in Seq(Cell) /\ data \in Seq(Cell) /\ sent \in 0 .. Frames /\ intact \subseteq sound
  /\ sound \subseteq 1 .. Frames
  /\ q \in Seq(Cell) /\ Len(q) <= REVFIFOLEN
  /\ offset \in 0 .. Len(q)
  /\ datastate \in {"REVHEAD", "REVDATA"} /\ wordstate \in 0 .. HEADNUMER - 1
  /\ running \in BOOLEAN /\ flag \in BOOLEAN /\ rushed \in BOOLEAN /\ overrun \in BOOLEAN
  /\ dataup \in Cell /\ up \in Seq(Cell)
  /\ pc \in {"app", "cmd", "timer", "recv", "loop"}

Tight ==
  /\ Types /\ Between /\ HandedOK
  /\ overrun \/ (RecsOK(Recs, sound) /\ LineOK(Line, sent, sound) /\ Behind)

\* After an overrun nothing is known of the buffer but its type.
Loose == TypeOK /\ Between /\ OnlySound

Inv == (overrun /\ Loose) \/ (~overrun /\ Tight)

-----------------------------------------------------------------------------
(* What leaving out keeps, and a new frame adds to. *)

LEMMA LineWithin ==
  ASSUME NEW s \in Seq(Cell), NEW t \in Seq(Cell), Within(s, t), NEW n \in Int, NEW S,
         LineOK(t, n, S)
  PROVE  /\ LineOK(s, n, S)
         /\ \A i \in 1 .. Len(s) : \E j \in 1 .. Len(t) : s[i] = t[j]
  <1>1. PICK h \in [1 .. Len(s) -> 1 .. Len(t)] : Chosen(h, s, t)
    BY DEF Within
  <1>2. \A i \in 1 .. Len(s) : h[i] \in 1 .. Len(t) /\ s[i] = t[h[i]]
    BY <1>1 DEF Chosen
  <1>3. \A i, j \in 1 .. Len(s) : i < j => h[i] < h[j]
    BY <1>1 DEF Chosen
  <1>4. Rising(s)
    <2> SUFFICES ASSUME NEW i \in 1 .. Len(s), NEW j \in 1 .. Len(s), i < j,
                        IsByte(s[i]), IsByte(s[j])
                 PROVE  s[i].f < s[j].f \/ (s[i].f = s[j].f /\ s[i].i < s[j].i)
      BY DEF Rising
    <2>1. h[i] < h[j]
      BY <1>3
    <2>2. h[i] \in 1 .. Len(t) /\ h[j] \in 1 .. Len(t) /\ s[i] = t[h[i]] /\ s[j] = t[h[j]]
      BY <1>2
    <2>3. \A x, y \in 1 .. Len(t) :
            x < y /\ IsByte(t[x]) /\ IsByte(t[y]) =>
              t[x].f < t[y].f \/ (t[x].f = t[y].f /\ t[x].i < t[y].i)
      BY DEF LineOK, Rising
    <2> QED
      BY <2>1, <2>2, <2>3
  <1>5. Genuine(s, S)
    <2> SUFFICES ASSUME NEW a \in 1 .. Len(s), NEW b \in 1 .. Len(s), NEW c \in 1 .. Len(s),
                        NEW d \in 1 .. Len(s), Whole(s, a, b, c, d)
                 PROVE  s[a].f \in S
      BY DEF Genuine
    <2>1. Whole(t, h[a], h[b], h[c], h[d])
      BY <1>2, <1>3 DEF Whole
    <2> QED
      BY <1>2, <2>1 DEF LineOK, Genuine
  <1>6. UpTo(s, n)
    BY <1>2 DEF LineOK, UpTo
  <1>7. Bytes(s)
    BY <1>2 DEF LineOK, Bytes
  <1> QED
    BY <1>2, <1>4, <1>5, <1>6, <1>7 DEF LineOK

\* A line of one frame, damaged or not.
OneFrame(s, n, S) ==
  /\ \A i \in 1 .. Len(s) : IsByte(s[i]) => s[i].f = n /\ s[i].i \in 1 .. 2
  /\ Rising(s) /\ Genuine(s, S) /\ Bytes(s)

LEMMA LineGrows ==
  ASSUME NEW t \in Seq(Cell), NEW s \in Seq(Cell), NEW n \in Nat, NEW S, NEW T, S \subseteq T,
         LineOK(t, n, S), OneFrame(s, n + 1, T)
  PROVE  LineOK(t \o s, n + 1, T)
  <1> DEFINE u == t \o s
  <1>1. /\ Len(u) = Len(t) + Len(s)
        /\ \A i \in 1 .. Len(t) + Len(s) : u[i] = IF i <= Len(t) THEN t[i] ELSE s[i - Len(t)]
    BY ConcatProperties
  <1>2. Len(t) \in Nat /\ Len(s) \in Nat
    OBVIOUS
  <1> HIDE DEF u
  <1>3. ASSUME NEW i \in 1 .. Len(u)
        PROVE  /\ i <= Len(t) => /\ i \in 1 .. Len(t) /\ u[i] = t[i]
                                 /\ IsByte(u[i]) => u[i].f \in 1 .. n /\ u[i].i \in 1 .. 2
               /\ i > Len(t) => /\ i - Len(t) \in 1 .. Len(s) /\ u[i] = s[i - Len(t)]
                                /\ IsByte(u[i]) => u[i].f = n + 1 /\ u[i].i \in 1 .. 2
    <2>1. CASE i <= Len(t)
      <3>1. i \in 1 .. Len(t) /\ u[i] = t[i]
        BY <1>1, <1>2, <2>1
      <3> QED
        BY <1>2, <2>1, <3>1 DEF LineOK, UpTo
    <2>2. CASE i > Len(t)
      <3>1. i - Len(t) \in 1 .. Len(s) /\ u[i] = s[i - Len(t)]
        BY <1>1, <1>2, <2>2
      <3> QED
        BY <1>2, <2>2, <3>1 DEF OneFrame
    <2> QED
      BY <1>2, <2>1, <2>2
  <1>4. Rising(u)
    <2> SUFFICES ASSUME NEW i \in 1 .. Len(u), NEW j \in 1 .. Len(u), i < j,
                        IsByte(u[i]), IsByte(u[j])
                 PROVE  u[i].f < u[j].f \/ (u[i].f = u[j].f /\ u[i].i < u[j].i)
      BY DEF Rising
    <2>1. CASE j <= Len(t)
      <3>1. i \in 1 .. Len(t) /\ u[i] = t[i] /\ j \in 1 .. Len(t) /\ u[j] = t[j]
        BY <1>2, <1>3, <2>1
      <3> QED
        BY <3>1 DEF LineOK, Rising
    <2>2. CASE i <= Len(t) /\ j > Len(t)
      BY <1>3, <2>2
    <2>3. CASE i > Len(t)
      <3>1. i - Len(t) < j - Len(t) /\ j > Len(t)
        BY <1>2, <2>3
      <3>2. /\ i - Len(t) \in 1 .. Len(s) /\ u[i] = s[i - Len(t)]
            /\ j - Len(t) \in 1 .. Len(s) /\ u[j] = s[j - Len(t)]
        BY <1>3, <2>3, <3>1
      <3> QED
        BY <3>1, <3>2 DEF OneFrame, Rising
    <2> QED
      BY <1>2, <2>1, <2>2, <2>3
  <1>5. Genuine(u, T)
    <2> SUFFICES ASSUME NEW a \in 1 .. Len(u), NEW b \in 1 .. Len(u), NEW c \in 1 .. Len(u),
                        NEW d \in 1 .. Len(u), Whole(u, a, b, c, d)
                 PROVE  u[a].f \in T
      BY DEF Genuine
    <2>1. a < b /\ b < c /\ c < d
      BY DEF Whole
    <2>2. CASE d <= Len(t)
      <3>1. /\ a \in 1 .. Len(t) /\ b \in 1 .. Len(t) /\ c \in 1 .. Len(t) /\ d \in 1 .. Len(t)
            /\ u[a] = t[a] /\ u[b] = t[b] /\ u[c] = t[c] /\ u[d] = t[d]
        BY <1>2, <1>3, <2>1, <2>2
      <3>2. Whole(t, a, b, c, d)
        BY <3>1 DEF Whole
      <3> QED
        BY <3>1, <3>2 DEF LineOK, Genuine
    <2>3. CASE a <= Len(t) /\ d > Len(t)
      <3>1. u[a].f \in 1 .. n /\ u[d].f = n + 1
        BY <1>3, <2>3 DEF Whole
      <3> QED
        BY <3>1 DEF Whole
    <2>4. CASE a > Len(t)
      <3> DEFINE m == Len(t)
      <3>1. /\ a - m \in 1 .. Len(s) /\ b - m \in 1 .. Len(s)
            /\ c - m \in 1 .. Len(s) /\ d - m \in 1 .. Len(s)
            /\ u[a] = s[a - m] /\ u[b] = s[b - m] /\ u[c] = s[c - m] /\ u[d] = s[d - m]
        BY <1>2, <1>3, <2>1, <2>4
      <3>2. a - m < b - m /\ b - m < c - m /\ c - m < d - m
        BY <1>2, <2>1
      <3> HIDE DEF m
      <3>3. Whole(s, a - m, b - m, c - m, d - m)
        BY <3>1, <3>2 DEF Whole
      <3> QED
        BY <3>1, <3>3 DEF OneFrame, Genuine
    <2> QED
      BY <1>2, <2>1, <2>2, <2>3, <2>4
  <1>6. UpTo(u, n + 1)
    BY <1>2, <1>3 DEF UpTo
  <1>7. Bytes(u)
    BY <1>2, <1>3 DEF Bytes, LineOK, OneFrame
  <1> QED
    BY <1>4, <1>5, <1>6, <1>7 DEF LineOK, u

-----------------------------------------------------------------------------
(* What the device sends. *)

LEMMA CellTypes ==
  /\ F5 \in Cell /\ X55 \in Cell /\ NULL \in Cell
  /\ \A f \in 1 .. Frames, i \in 1 .. 2 : Byte(f, i) \in Cell
  /\ ~IsByte(F5) /\ ~IsByte(X55) /\ F5 # X55
  /\ ~IsRecord(F5) /\ ~IsRecord(X55)
  BY UpLinkAssumption DEF F5, X55, NULL, Byte, Cell, IsByte, IsRecord

LEMMA HeadsAre ==
  ASSUME NEW n \in Nat
  PROVE  /\ Heads(n) \in Seq(Cell) /\ Len(Heads(n)) = n
         /\ \A i \in 1 .. n : Heads(n)[i] = F5
  BY CellTypes DEF Heads

LEMMA FrameIs ==
  ASSUME NEW f \in 1 .. Frames
  PROVE  /\ Frame(f) \in Seq(Cell) /\ Len(Frame(f)) = 8
         /\ \A i \in 1 .. 4 : Frame(f)[i] = F5
         /\ Frame(f)[5] = Byte(f, 1) /\ Frame(f)[6] = F5
         /\ Frame(f)[7] = X55 /\ Frame(f)[8] = Byte(f, 2)
  <1> DEFINE t == <<Byte(f, 1), F5, X55, Byte(f, 2)>>
  <1>1. t \in Seq(Cell) /\ Len(t) = 4
    BY CellTypes
  <1>2. t[1] = Byte(f, 1) /\ t[2] = F5 /\ t[3] = X55 /\ t[4] = Byte(f, 2)
    OBVIOUS
  <1>3. Header \in Seq(Cell) /\ Len(Header) = 4 /\ \A i \in 1 .. 4 : Header[i] = F5
    BY HeadsAre DEF Header, HEADNUMER
  <1> HIDE DEF t
  <1>4. /\ Header \o t \in Seq(Cell) /\ Len(Header \o t) = 8
        /\ \A i \in 1 .. 4 : (Header \o t)[i] = F5
        /\ \A i \in 5 .. 8 : (Header \o t)[i] = t[i - 4]
    <2>1. /\ Header \o t \in Seq(Cell) /\ Len(Header \o t) = Len(Header) + Len(t)
          /\ \A i \in 1 .. Len(Header) + Len(t) :
               (Header \o t)[i] = IF i <= Len(Header) THEN Header[i] ELSE t[i - Len(Header)]
      BY <1>1, <1>3, ConcatProperties
    <2> QED
      BY <1>1, <1>3, <2>1
  <1>5. Frame(f) = Header \o t
    BY DEF Frame, t
  <1> QED
    <2>1. 5 - 4 = 1 /\ 6 - 4 = 2 /\ 7 - 4 = 3 /\ 8 - 4 = 4
      OBVIOUS
    <2>2. /\ (Header \o t)[5] = t[5 - 4] /\ (Header \o t)[6] = t[6 - 4]
          /\ (Header \o t)[7] = t[7 - 4] /\ (Header \o t)[8] = t[8 - 4]
      <3>1. 5 \in 5 .. 8 /\ 6 \in 5 .. 8 /\ 7 \in 5 .. 8 /\ 8 \in 5 .. 8
        OBVIOUS
      <3>2. \A i \in 5 .. 8 : (Header \o t)[i] = t[i - 4]
        BY <1>4
      <3> QED
        BY ONLY <3>1, <3>2
    <2> QED
      BY <1>2, <1>4, <1>5, <2>1, <2>2

LEMMA FrameBytes ==
  ASSUME NEW f \in 1 .. Frames, NEW i \in 1 .. 8
  PROVE  ~IsRecord(Frame(f)[i])
  <1>1. i \in 1 .. 4 \/ i \in {5, 6, 7, 8}
    OBVIOUS
  <1>2. Frame(f)[i] \in {F5, X55, Byte(f, 1), Byte(f, 2)}
    BY <1>1, FrameIs
  <1>3. ~IsRecord(Byte(f, 1)) /\ ~IsRecord(Byte(f, 2))
    BY DEF IsRecord, Byte
  <1> QED
    BY <1>2, <1>3, CellTypes

\* A frame with one byte turned into another.
LEMMA TurnedIs ==
  ASSUME NEW f \in 1 .. Frames, NEW i \in 1 .. 8, NEW c \in {F5, X55}, Frame(f)[i] # c,
         NEW T, i <= HEADNUMER => f \in T
  PROVE  /\ [Frame(f) EXCEPT ![i] = c] \in Seq(Cell)
         /\ OneFrame([Frame(f) EXCEPT ![i] = c], f, T)
  <1> DEFINE s == [Frame(f) EXCEPT ![i] = c]
  <1>1. /\ s \in Seq(Cell) /\ Len(s) = 8
        /\ \A j \in 1 .. 8 : s[j] = IF j = i THEN c ELSE Frame(f)[j]
    BY FrameIs, CellTypes, ExceptSeq
  <1> HIDE DEF s
  <1>2. ASSUME NEW j \in 1 .. 8, IsByte(s[j])
        PROVE  j # i /\ ((j = 5 /\ s[j] = Byte(f, 1)) \/ (j = 8 /\ s[j] = Byte(f, 2)))
    BY <1>1, <1>2, FrameIs, CellTypes
  <1>3. \A j \in 1 .. Len(s) : IsByte(s[j]) => s[j].f = f /\ s[j].i \in 1 .. 2
    BY <1>1, <1>2 DEF Byte
  <1>6. Bytes(s)
    BY <1>1, FrameBytes, CellTypes DEF Bytes
  <1>4. Rising(s)
    BY <1>1, <1>2 DEF Rising, Byte
  <1>5. Genuine(s, T)
    <2> SUFFICES ASSUME NEW a \in 1 .. Len(s), NEW b \in 1 .. Len(s), NEW x \in 1 .. Len(s),
                        NEW d \in 1 .. Len(s), Whole(s, a, b, x, d)
                 PROVE  f \in T
      BY <1>3 DEF Genuine, Whole
    <2>1. a = 5 /\ d = 8 /\ i # 5 /\ i # 8
      BY <1>1, <1>2 DEF Whole
    <2>2. b = 6 /\ x = 7
      BY <1>1, <2>1 DEF Whole
    <2>3. s[6] = F5 /\ s[7] = X55
      BY <2>2 DEF Whole
    <2>4. i # 6 /\ i # 7
      BY <1>1, <2>3, FrameIs
    <2> QED
      BY <2>1, <2>4 DEF HEADNUMER
  <1> QED
    BY <1>1, <1>3, <1>4, <1>5, <1>6 DEF OneFrame, s

\* A frame with one byte lost.
LEMMA ShortIs ==
  ASSUME NEW f \in 1 .. Frames, NEW i \in 1 .. 8, NEW T, i <= HEADNUMER => f \in T
  PROVE  /\ RemoveAt(Frame(f), i) \in Seq(Cell)
         /\ OneFrame(RemoveAt(Frame(f), i), f, T)
  <1> DEFINE t == Frame(f)
             a == SubSeq(t, 1, i - 1)
             b == SubSeq(t, i + 1, 8)
             s == a \o b
  <1>1. t \in Seq(Cell) /\ Len(t) = 8
    BY FrameIs
  <1>2. \A j \in 1 .. 8 : t[j] \in Cell
    BY <1>1, ElementOfSeq
  <1> HIDE DEF t
  <1>3. a \in Seq(Cell) /\ Len(a) = i - 1 /\ \A j \in 1 .. i - 1 : a[j] = t[j]
    BY <1>2, SubSeqProperties
  <1>4. b \in Seq(Cell) /\ Len(b) = 8 - i /\ \A j \in 1 .. 8 - i : b[j] = t[i + j]
    <2>1. \A j \in i + 1 .. 8 : t[j] \in Cell
      BY <1>2
    <2>2. /\ b \in Seq(Cell) /\ Len(b) = IF i + 1 <= 8 THEN 8 - (i + 1) + 1 ELSE 0
          /\ \A j \in 1 .. 8 - (i + 1) + 1 : b[j] = t[(i + 1) + j - 1]
      BY <2>1, SubSeqProperties
    <2> QED
      BY <2>2
  <1> HIDE DEF a, b
  <1>5. /\ s \in Seq(Cell) /\ Len(s) = 7
        /\ \A j \in 1 .. 7 : s[j] = IF j < i THEN t[j] ELSE t[j + 1]
    <2>1. /\ s \in Seq(Cell) /\ Len(s) = Len(a) + Len(b)
          /\ \A j \in 1 .. Len(a) + Len(b) : s[j] = IF j <= Len(a) THEN a[j] ELSE b[j - Len(a)]
      BY <1>3, <1>4, ConcatProperties
    <2> HIDE DEF s
    <2>2. ASSUME NEW j \in 1 .. 7 PROVE s[j] = IF j < i THEN t[j] ELSE t[j + 1]
      <3>1. CASE j < i
        BY <1>3, <1>4, <2>1, <3>1
      <3>2. CASE ~(j < i)
        <4>1. s[j] = b[j - (i - 1)] /\ j - (i - 1) \in 1 .. 8 - i
          <5>1. j <= Len(a) + Len(b) /\ ~(j <= Len(a)) /\ j - (i - 1) \in 1 .. 8 - i
            BY <1>3, <1>4, <3>2
          <5>2. s[j] = b[j - Len(a)]
            BY <2>1, <5>1
          <5> QED
            BY <1>3, <5>1, <5>2
        <4>2. i + (j - (i - 1)) = j + 1
          OBVIOUS
        <4> QED
          BY <1>4, <3>2, <4>1, <4>2
      <3> QED
        BY <3>1, <3>2
    <2> QED
      BY <1>3, <1>4, <2>1, <2>2
  <1> HIDE DEF s
  <1>6. ASSUME NEW j \in 1 .. 7, IsByte(s[j])
        PROVE  \/ s[j] = Byte(f, 1) /\ i # 5 /\ j = IF i < 5 THEN 4 ELSE 5
               \/ s[j] = Byte(f, 2) /\ i # 8 /\ j = 7
    <2>1. /\ \A k \in 1 .. 4 : ~IsByte(t[k])
          /\ ~IsByte(t[6]) /\ ~IsByte(t[7]) /\ t[5] = Byte(f, 1) /\ t[8] = Byte(f, 2)
      BY FrameIs, CellTypes DEF t
    <2>2. CASE j < i
      BY <1>5, <1>6, <2>1, <2>2
    <2>3. CASE ~(j < i)
      BY <1>5, <1>6, <2>1, <2>3
    <2> QED
      BY <2>2, <2>3
  <1>7. \A j \in 1 .. Len(s) : IsByte(s[j]) => s[j].f = f /\ s[j].i \in 1 .. 2
    BY <1>5, <1>6 DEF Byte
  <1>8. Rising(s)
    BY <1>5, <1>6 DEF Rising, Byte
  <1>9. Genuine(s, T)
    <2> SUFFICES ASSUME NEW k \in 1 .. Len(s), NEW l \in 1 .. Len(s), NEW x \in 1 .. Len(s),
                        NEW d \in 1 .. Len(s), Whole(s, k, l, x, d)
                 PROVE  f \in T
      BY <1>7 DEF Genuine, Whole
    <2>1. k < l /\ l < x /\ x < d /\ IsByte(s[k]) /\ IsByte(s[d])
      BY DEF Whole
    <2>2. k = IF i < 5 THEN 4 ELSE 5
      BY <1>5, <1>6, <2>1
    <2>3. i < 5
      BY <1>5, <1>6, <2>1, <2>2
    <2> QED
      BY <2>3 DEF HEADNUMER
  <1>11. Bytes(s)
    BY <1>5, FrameBytes DEF Bytes, t
  <1>10. RemoveAt(Frame(f), i) = s
    BY <1>1 DEF RemoveAt, s, a, b, t
  <1> QED
    BY <1>5, <1>7, <1>8, <1>9, <1>10, <1>11 DEF OneFrame

\* Noise behind a frame, or nothing.
LEMMA NoisyIs ==
  ASSUME NEW f \in 1 .. Frames, NEW x \in Noise, NEW T, f \in T
  PROVE  Frame(f) \o x \in Seq(Cell) /\ OneFrame(Frame(f) \o x, f, T)
  <1> DEFINE t == Frame(f)
             s == t \o x
  <1>1. x \in Seq(Cell) /\ \A j \in 1 .. Len(x) : x[j] \in {F5, X55}
    <2>1. F5 \in Cell /\ X55 \in Cell
      BY CellTypes
    <2>2. CASE x = <<F5>>
      BY <2>1, <2>2
    <2>3. CASE x = <<X55>>
      BY <2>1, <2>3
    <2>4. CASE x = <<X55, X55>>
      BY <2>1, <2>4
    <2> QED
      BY <2>2, <2>3, <2>4 DEF Noise
  <1>2. /\ t \in Seq(Cell) /\ Len(t) = 8 /\ \A j \in 1 .. 8 : ~IsRecord(t[j])
        /\ t[5] = Byte(f, 1) /\ t[8] = Byte(f, 2)
        /\ \A j \in {1, 2, 3, 4, 6, 7} : t[j] \in {F5, X55}
    BY FrameIs, FrameBytes
  <1> HIDE DEF t
  <1>3. /\ s \in Seq(Cell) /\ Len(s) = 8 + Len(x) /\ Len(x) \in Nat
        /\ \A j \in 1 .. 8 + Len(x) : s[j] = IF j <= 8 THEN t[j] ELSE x[j - 8]
    <2>1. /\ s \in Seq(Cell) /\ Len(s) = Len(t) + Len(x)
          /\ \A j \in 1 .. Len(t) + Len(x) : s[j] = IF j <= Len(t) THEN t[j] ELSE x[j - Len(t)]
      BY <1>1, <1>2, ConcatProperties
    <2>2. Len(x) \in Nat /\ Len(t) = 8
      BY <1>1, <1>2
    <2> HIDE DEF s
    <2> QED
      BY ONLY <2>1, <2>2
  <1> HIDE DEF s
  <1>4. ASSUME NEW j \in 1 .. Len(s)
        PROVE  /\ ~IsRecord(s[j])
               /\ IsByte(s[j]) => (j = 5 /\ s[j] = Byte(f, 1)) \/ (j = 8 /\ s[j] = Byte(f, 2))
    <2>1. CASE j <= 8
      <3>1. j \in 1 .. 8 /\ s[j] = t[j]
        BY <1>3, <2>1
      <3> QED
        BY <1>2, <3>1, CellTypes
    <2>2. CASE ~(j <= 8)
      <3>1. j - 8 \in 1 .. Len(x) /\ s[j] = x[j - 8]
        BY <1>3, <2>2
      <3> QED
        BY <1>1, <3>1, CellTypes
    <2> QED
      BY <2>1, <2>2
  <1>5. \A j \in 1 .. Len(s) : IsByte(s[j]) => s[j].f = f /\ s[j].i \in 1 .. 2
    BY <1>4 DEF Byte
  <1>6. Rising(s)
    BY <1>3, <1>4 DEF Rising, Byte
  <1>7. Genuine(s, T)
    BY <1>5 DEF Genuine, Whole
  <1>8. Bytes(s)
    BY <1>4 DEF Bytes
  <1> QED
    BY <1>3, <1>5, <1>6, <1>7, <1>8 DEF OneFrame, s, t

\* An undamaged frame.
LEMMA FrameOneFrame ==
  ASSUME NEW f \in 1 .. Frames, NEW T, f \in T
  PROVE  OneFrame(Frame(f), f, T)
  <1>1. ASSUME NEW j \in 1 .. 8, IsByte(Frame(f)[j])
        PROVE  (j = 5 /\ Frame(f)[j] = Byte(f, 1)) \/ (j = 8 /\ Frame(f)[j] = Byte(f, 2))
    BY <1>1, FrameIs, CellTypes
  <1>2. \A j \in 1 .. Len(Frame(f)) :
          IsByte(Frame(f)[j]) => Frame(f)[j].f = f /\ Frame(f)[j].i \in 1 .. 2
    BY <1>1, FrameIs DEF Byte
  <1>3. Rising(Frame(f))
    <2> SUFFICES ASSUME NEW i \in 1 .. 8, NEW j \in 1 .. 8, i < j,
                        IsByte(Frame(f)[i]), IsByte(Frame(f)[j])
                 PROVE  Frame(f)[i].f = Frame(f)[j].f /\ Frame(f)[i].i < Frame(f)[j].i
      BY FrameIs DEF Rising
    <2>1. Frame(f)[i] = Byte(f, 1) /\ Frame(f)[j] = Byte(f, 2)
      BY <1>1
    <2> QED
      BY <2>1 DEF Byte
  <1>4. Genuine(Frame(f), T)
    BY <1>2 DEF Genuine, Whole
  <1> QED
    BY <1>2, <1>3, <1>4, FrameIs, FrameBytes DEF OneFrame, Bytes

-----------------------------------------------------------------------------
(* The converted part: taking its oldest record, adding one. *)

LEMMA RecordIs ==
  ASSUME NEW k \in {"alarm", "state"}, NEW f \in 1 .. Frames
  PROVE  /\ Record(k, f) \in Seq(Cell) /\ Len(Record(k, f)) = RecordLen(k)
         /\ RecordLen(k) \in {2, 3}
         /\ \A i \in 1 .. RecordLen(k) : Record(k, f)[i] = [k |-> k, f |-> f, i |-> i]
  <1>1. \A i \in 1 .. RecordLen(k) : [k |-> k, f |-> f, i |-> i] \in Cell
    BY UpLinkAssumption DEF Cell, RecordLen
  <1> QED
    BY <1>1 DEF Record, RecordLen

LEMMA RecsGrow ==
  ASSUME NEW S \in SUBSET (1 .. Frames), NEW T, S \subseteq T, NEW b \in Seq(Cell), RecsOK(b, S)
  PROVE  RecsOK(b, T)
  BY DEF RecsOK, Known

\* The record at the head of the converted part is whole; what remains when it is
\* taken is records again, all of them later.
LEMMA RecsTake ==
  ASSUME NEW S \in SUBSET (1 .. Frames), NEW b \in Seq(Cell), RecsOK(b, S), Len(b) > 0,
         NEW n, n = Len(Record(b[1].k, b[1].f))
  PROVE  /\ n \in 1 .. Len(b)
         /\ RecsOK(SubSeq(b, n + 1, Len(b)), S)
         /\ \A j \in n + 1 .. Len(b) : Before(b[1], b[j])
  <1> DEFINE k == b[1].k
             f == b[1].f
  <1>1. k \in {"alarm", "state"} /\ f \in 1 .. Frames /\ b[1].i = 1 /\ b[1] \in Cell
    <2>1. Known(b[1], S) /\ b[1].i = 1 /\ b[1] \in Cell
      BY DEF RecsOK
    <2> QED
      BY <2>1 DEF Known, IsRecord
  <1>2. n = RecordLen(k) /\ n \in {2, 3} /\ (n = 2 <=> k = "alarm")
    <2>1. Len(Record(k, f)) = RecordLen(k) /\ RecordLen(k) \in {2, 3}
      BY <1>1, RecordIs
    <2>2. RecordLen(k) = 2 <=> k = "alarm"
      BY DEF RecordLen
    <2> QED
      BY <2>1, <2>2
  <1>3. ASSUME NEW j \in 1 .. Len(b), b[j].k = k, b[j].f = f, b[j].i < n
        PROVE  j < Len(b) /\ b[j + 1].k = k /\ b[j + 1].f = f /\ b[j + 1].i = b[j].i + 1
    <2>1. b[j].i < RecordLen(b[j].k)
      BY <1>2, <1>3
    <2>2. j < Len(b) /\ b[j + 1] = [k |-> b[j].k, f |-> b[j].f, i |-> b[j].i + 1]
      BY <2>1 DEF RecsOK
    <2> QED
      BY <1>3, <2>2
  <1>4. 1 < Len(b) /\ b[2].k = k /\ b[2].f = f /\ b[2].i = 2
    BY <1>1, <1>2, <1>3
  <1>5. n <= Len(b) /\ b[n].k = k /\ b[n].f = f /\ b[n].i = n
    <2>1. CASE n = 2
      BY <1>4, <2>1
    <2>2. CASE n = 3
      <3>1. 2 \in 1 .. Len(b)
        BY <1>4
      <3>2. 2 < Len(b) /\ b[2 + 1].k = k /\ b[2 + 1].f = f /\ b[2 + 1].i = b[2].i + 1
        BY <1>3, <1>4, <2>2, <3>1
      <3> QED
        BY <1>4, <2>2, <3>2
    <2> QED
      BY <1>2, <2>1, <2>2
  <1>6. n \in 1 .. Len(b)
    BY <1>2, <1>5
  <1>7. ASSUME NEW j \in n + 1 .. Len(b) PROVE Before(b[1], b[j])
    <2>1. j \in 1 .. Len(b) /\ n < j
      BY <1>2
    <2>2. Follows(b[n], b[j]) /\ b[j].i \in 1 .. RecordLen(b[j].k)
      BY <1>6, <2>1 DEF RecsOK
    <2>3. ~(b[n].k = b[j].k /\ b[n].i < b[j].i)
      BY <1>2, <1>5, <2>2
    <2>4. Before(b[n], b[j])
      BY <2>2, <2>3 DEF Follows
    <2> QED
      BY <1>1, <1>5, <2>4 DEF Before
  <1> DEFINE t == SubSeq(b, n + 1, Len(b))
  <1>8. /\ t \in Seq(Cell) /\ Len(t) = Len(b) - n
        /\ \A j \in 1 .. Len(b) - n : t[j] = b[n + j]
    <2>1. \A j \in n + 1 .. Len(b) : b[j] \in Cell
      BY <1>6, ElementOfSeq
    <2>2. /\ t \in Seq(Cell)
          /\ Len(t) = IF n + 1 <= Len(b) THEN Len(b) - (n + 1) + 1 ELSE 0
          /\ \A j \in 1 .. Len(b) - (n + 1) + 1 : t[j] = b[(n + 1) + j - 1]
      BY <1>6, <2>1, SubSeqProperties
    <2> HIDE DEF t
    <2>3. Len(b) - (n + 1) + 1 = Len(b) - n /\ Len(t) = Len(b) - n
      <3>1. Len(b) \in Nat /\ n \in 1 .. Len(b)
        BY <1>6
      <3>2. Len(t) = IF n + 1 <= Len(b) THEN Len(b) - (n + 1) + 1 ELSE 0
        BY <2>2
      <3> QED
        BY ONLY <3>1, <3>2
    <2>4. \A j \in 1 .. Len(b) - n : (n + 1) + j - 1 = n + j
      BY <1>6
    <2>5. ASSUME NEW j \in 1 .. Len(b) - n PROVE t[j] = b[n + j]
      <3>1. t[j] = b[(n + 1) + j - 1]
        BY <2>2, <2>3
      <3> QED
        BY <2>4, <3>1
    <2> QED
      BY <2>2, <2>3, <2>5
  <1> HIDE DEF t
  <1>9. \A j \in 1 .. Len(t) : n + j \in 1 .. Len(b) /\ t[j] = b[n + j]
    BY <1>6, <1>8
  <1>10. RecsOK(t, S)
    <2>1. \A j \in 1 .. Len(t) : Known(t[j], S) /\ t[j].i \in 1 .. RecordLen(t[j].k)
      BY <1>9 DEF RecsOK
    <2>2. ASSUME NEW i \in 1 .. Len(t), NEW j \in 1 .. Len(t), i < j
          PROVE  Follows(t[i], t[j])
      <3>1. n + i < n + j
        BY <1>2, <2>2
      <3> QED
        BY <1>9, <3>1 DEF RecsOK
    <2>3. ASSUME Len(t) > 0 PROVE t[1].i = 1
      <3>1. n < Len(b) /\ t[1] = b[n + 1]
        BY <1>6, <1>8, <2>3
      <3>2. b[n].i = RecordLen(b[n].k)
        BY <1>2, <1>5
      <3> QED
        BY <1>6, <3>1, <3>2 DEF RecsOK
    <2>4. ASSUME NEW j \in 1 .. Len(t)
          PROVE  /\ t[j].i < RecordLen(t[j].k) =>
                      j < Len(t) /\ t[j + 1] = [k |-> t[j].k, f |-> t[j].f, i |-> t[j].i + 1]
                 /\ t[j].i = RecordLen(t[j].k) /\ j < Len(t) => t[j + 1].i = 1
      <3>1. n + j \in 1 .. Len(b) /\ t[j] = b[n + j]
        BY <1>9
      <3>2. (n + j < Len(b)) <=> (j < Len(t))
        BY <1>6, <1>8
      <3>3. j < Len(t) => t[j + 1] = b[(n + j) + 1]
        <4>1. ASSUME j < Len(t) PROVE j + 1 \in 1 .. Len(b) - n /\ n + (j + 1) = (n + j) + 1
          BY <1>6, <1>8, <4>1
        <4> QED
          BY <1>8, <4>1
      <3>4. /\ b[n + j].i < RecordLen(b[n + j].k) =>
                 /\ n + j < Len(b)
                 /\ b[(n + j) + 1] = [k |-> b[n + j].k, f |-> b[n + j].f, i |-> b[n + j].i + 1]
            /\ b[n + j].i = RecordLen(b[n + j].k) /\ n + j < Len(b) => b[(n + j) + 1].i = 1
        BY <3>1 DEF RecsOK
      <3> QED
        BY <3>1, <3>2, <3>3, <3>4
    <2> QED
      BY <2>1, <2>2, <2>3, <2>4 DEF RecsOK
  <1> QED
    BY <1>6, <1>7, <1>10 DEF t

\* A record is added behind earlier ones.
LEMMA RecsAdd ==
  ASSUME NEW S \in SUBSET (1 .. Frames), NEW b \in Seq(Cell), RecsOK(b, S),
         NEW k \in {"alarm", "state"}, NEW f \in S, k = "alarm" => f \in Alarms,
         \A j \in 1 .. Len(b) : Before(b[j], [k |-> k, f |-> f, i |-> 1])
  PROVE  RecsOK(b \o Record(k, f), S)
  <1> DEFINE r == Record(k, f)
             t == b \o r
  <1>1. /\ r \in Seq(Cell) /\ Len(r) = RecordLen(k) /\ RecordLen(k) \in {2, 3}
        /\ \A i \in 1 .. RecordLen(k) : r[i] = [k |-> k, f |-> f, i |-> i]
    BY RecordIs
  <1> HIDE DEF r
  <1>2. /\ Len(t) = Len(b) + RecordLen(k)
        /\ \A j \in 1 .. Len(t) : t[j] = IF j <= Len(b) THEN b[j] ELSE r[j - Len(b)]
    BY <1>1, ConcatProperties
  <1>3. Len(b) \in Nat
    OBVIOUS
  <1> HIDE DEF t
  <1>4. \A j \in 1 .. Len(b) : j \in 1 .. Len(t) /\ t[j] = b[j]
    BY <1>1, <1>2, <1>3
  <1>5. ASSUME NEW j \in Len(b) + 1 .. Len(t)
        PROVE  t[j].k = k /\ t[j].f = f /\ t[j].i = j - Len(b) /\ j \in 1 .. Len(t)
               /\ t[j] = [k |-> k, f |-> f, i |-> j - Len(b)]
    <2>1. j - Len(b) \in 1 .. RecordLen(k) /\ j \in 1 .. Len(t) /\ ~(j <= Len(b))
      BY <1>1, <1>2, <1>3
    <2>2. t[j] = r[j - Len(b)]
      BY <1>2, <2>1
    <2>3. t[j] = [k |-> k, f |-> f, i |-> j - Len(b)]
      BY <1>1, <2>1, <2>2
    <2> QED
      BY <2>1, <2>3
  <1>6. ASSUME NEW j \in 1 .. Len(t)
        PROVE  j \in 1 .. Len(b) \/ j \in Len(b) + 1 .. Len(t)
    BY <1>2, <1>3
  <1>7. \A j \in 1 .. Len(t) : Known(t[j], S) /\ t[j].i \in 1 .. RecordLen(t[j].k)
    <2>1. \A j \in 1 .. Len(b) : Known(t[j], S) /\ t[j].i \in 1 .. RecordLen(t[j].k)
      BY <1>4 DEF RecsOK
    <2>2. ASSUME NEW j \in Len(b) + 1 .. Len(t)
          PROVE  Known(t[j], S) /\ t[j].i \in 1 .. RecordLen(t[j].k)
      <3>1. Known(t[j], S)
        BY <1>5 DEF Known, IsRecord
      <3>2. j - Len(b) \in 1 .. RecordLen(k)
        BY <1>1, <1>2, <1>3
      <3> QED
        BY <1>5, <3>1, <3>2
    <2> QED
      BY <1>6, <2>1, <2>2
  <1>8. ASSUME NEW i \in 1 .. Len(t), NEW j \in 1 .. Len(t), i < j
        PROVE  Follows(t[i], t[j])
    <2>1. CASE j \in 1 .. Len(b)
      <3>1. i \in 1 .. Len(b)
        BY <1>3, <1>8, <2>1
      <3> QED
        BY <1>4, <1>8, <2>1, <3>1 DEF RecsOK
    <2>2. CASE i \in 1 .. Len(b) /\ j \in Len(b) + 1 .. Len(t)
      <3>1. Before(b[i], [k |-> k, f |-> f, i |-> 1])
        BY <2>2
      <3> QED
        BY <1>4, <1>5, <2>2, <3>1 DEF Follows, Before
    <2>3. CASE i \in Len(b) + 1 .. Len(t)
      <3>1. j \in Len(b) + 1 .. Len(t)
        BY <1>3, <1>8, <2>3
      <3>2. i - Len(b) < j - Len(b)
        BY <1>3, <1>8
      <3>3. t[i].f = t[j].f /\ t[i].k = t[j].k
        BY <1>5, <2>3, <3>1
      <3>4. t[i].i < t[j].i
        BY <1>5, <2>3, <3>1, <3>2
      <3> QED
        BY <3>3, <3>4 DEF Follows
    <2> QED
      BY <1>6, <2>1, <2>2, <2>3
  <1>9. t[1].i = 1
    <2>1. CASE Len(b) = 0
      <3>1. 1 \in Len(b) + 1 .. Len(t)
        BY <1>1, <1>2, <2>1
      <3> QED
        <4>1. t[1].i = 1 - Len(b)
          BY <1>5, <3>1
        <4> QED
          BY <2>1, <4>1
    <2>2. CASE Len(b) # 0
      <3>1. 1 \in 1 .. Len(b) /\ Len(b) > 0
        BY <1>3, <2>2
      <3> QED
        BY <1>4, <3>1 DEF RecsOK
    <2> QED
      BY <2>1, <2>2
  <1>10. ASSUME NEW j \in 1 .. Len(t)
         PROVE  /\ t[j].i < RecordLen(t[j].k) =>
                     j < Len(t) /\ t[j + 1] = [k |-> t[j].k, f |-> t[j].f, i |-> t[j].i + 1]
                /\ t[j].i = RecordLen(t[j].k) /\ j < Len(t) => t[j + 1].i = 1
    <2>1. CASE j \in 1 .. Len(b)
      <3>1. /\ b[j].i < RecordLen(b[j].k) =>
                 j < Len(b) /\ b[j + 1] = [k |-> b[j].k, f |-> b[j].f, i |-> b[j].i + 1]
            /\ b[j].i = RecordLen(b[j].k) /\ j < Len(b) => b[j + 1].i = 1
        BY <2>1 DEF RecsOK
      <3>2. CASE j < Len(b)
        <4>1. j + 1 \in 1 .. Len(b) /\ j < Len(t)
          BY <1>1, <1>2, <1>3, <3>2
        <4> QED
          BY <1>4, <2>1, <3>1, <3>2, <4>1
      <3>3. CASE j = Len(b)
        <4>1. j + 1 \in Len(b) + 1 .. Len(t) /\ (j + 1) - Len(b) = 1
          BY <1>1, <1>2, <1>3, <3>3
        <4>2. t[j + 1].i = 1
          BY <1>5, <4>1
        <4> QED
          BY <1>3, <1>4, <2>1, <3>1, <3>3, <4>2
      <3> QED
        BY <1>3, <2>1, <3>2, <3>3
    <2>2. CASE j \in Len(b) + 1 .. Len(t)
      <3>1. t[j].k = k /\ t[j].f = f /\ t[j].i = j - Len(b)
        BY <1>5, <2>2
      <3>2. CASE j = Len(t)
        <4>1. t[j].i = RecordLen(k)
          BY <1>1, <1>2, <1>3, <3>1, <3>2
        <4> QED
          BY <1>1, <1>2, <1>3, <3>1, <3>2, <4>1
      <3>3. CASE j < Len(t)
        <4>1. j + 1 \in Len(b) + 1 .. Len(t) /\ (j + 1) - Len(b) = (j - Len(b)) + 1
          BY <1>1, <1>2, <1>3, <2>2, <3>3
        <4>2. t[j + 1] = [k |-> k, f |-> f, i |-> (j + 1) - Len(b)]
          BY <1>5, <4>1
        <4>3. t[j].i # RecordLen(k)
          BY <1>1, <1>2, <1>3, <3>1, <3>3
        <4> QED
          BY <3>1, <3>3, <4>1, <4>2, <4>3
      <3> QED
        BY <1>2, <2>2, <3>2, <3>3
    <2> QED
      BY <1>6, <2>1, <2>2
  <1> QED
    BY <1>7, <1>8, <1>9, <1>10 DEF RecsOK, t, r

-----------------------------------------------------------------------------
(* The buffer as its converted part and its raw part. *)

LEMMA PartOf ==
  ASSUME NEW b \in Seq(Cell), NEW o \in 0 .. Len(b)
  PROVE  /\ SubSeq(b, o + 1, Len(b)) \in Seq(Cell)
         /\ Len(SubSeq(b, o + 1, Len(b))) = Len(b) - o
         /\ \A j \in 1 .. Len(b) - o : SubSeq(b, o + 1, Len(b))[j] = b[o + j]
  <1> DEFINE r == SubSeq(b, o + 1, Len(b))
  <1>1. \A j \in o + 1 .. Len(b) : b[j] \in Cell
    BY ElementOfSeq
  <1>2. /\ r \in Seq(Cell)
        /\ Len(r) = IF o + 1 <= Len(b) THEN Len(b) - (o + 1) + 1 ELSE 0
        /\ \A j \in 1 .. Len(b) - (o + 1) + 1 : r[j] = b[(o + 1) + j - 1]
    BY <1>1, SubSeqProperties
  <1> HIDE DEF r
  <1>3. Len(b) \in Nat /\ o \in Nat /\ o <= Len(b)
    OBVIOUS
  <1>4. Len(b) - (o + 1) + 1 = Len(b) - o /\ Len(r) = Len(b) - o
    BY ONLY <1>2, <1>3
  <1>5. ASSUME NEW j \in 1 .. Len(b) - o PROVE r[j] = b[o + j]
    <2>1. r[j] = b[(o + 1) + j - 1]
      BY <1>2, <1>4
    <2>2. (o + 1) + j - 1 = o + j
      BY <1>3
    <2> QED
      BY <2>1, <2>2
  <1> QED
    BY <1>2, <1>4, <1>5 DEF r

LEMMA StartOf ==
  ASSUME NEW b \in Seq(Cell), NEW o \in 0 .. Len(b)
  PROVE  /\ SubSeq(b, 1, o) \in Seq(Cell) /\ Len(SubSeq(b, 1, o)) = o
         /\ \A j \in 1 .. o : SubSeq(b, 1, o)[j] = b[j]
  <1>1. \A j \in 1 .. o : b[j] \in Cell
    BY ElementOfSeq
  <1> QED
    BY <1>1, SubSeqProperties

LEMMA PushIs ==
  ASSUME NEW b \in Seq(Cell), NEW s \in Seq(Cell), Len(b) <= REVFIFOLEN
  PROVE  \E m \in 0 .. Len(s) :
           /\ Push(b, s) = b \o SubSeq(s, 1, m)
           /\ SubSeq(s, 1, m) \in Seq(Cell) /\ Len(SubSeq(s, 1, m)) = m
           /\ Len(b) + m <= REVFIFOLEN
  <1> DEFINE room == REVFIFOLEN - Len(b)
             m == IF Len(s) <= room THEN Len(s) ELSE room
  <1>1. m \in 0 .. Len(s) /\ Len(b) + m <= REVFIFOLEN
    BY UpLinkAssumption
  <1>2. Push(b, s) = b \o SubSeq(s, 1, m)
    BY DEF Push
  <1> HIDE DEF m
  <1>3. SubSeq(s, 1, m) \in Seq(Cell) /\ Len(SubSeq(s, 1, m)) = m
    <2>1. \A j \in 1 .. m : s[j] \in Cell
      BY <1>1, ElementOfSeq
    <2> QED
      BY <1>1, <2>1, SubSeqProperties
  <1> QED
    BY <1>1, <1>2, <1>3

\* What is appended to the buffer is appended to its raw part.
LEMMA RawGrows ==
  ASSUME NEW b \in Seq(Cell), NEW x \in Seq(Cell), NEW o \in 0 .. Len(b)
  PROVE  /\ b \o x \in Seq(Cell) /\ Len(b \o x) = Len(b) + Len(x)
         /\ SubSeq(b \o x, 1, o) = SubSeq(b, 1, o)
         /\ SubSeq(b \o x, o + 1, Len(b \o x)) = SubSeq(b, o + 1, Len(b)) \o x
  <1> DEFINE t == b \o x
             r == SubSeq(b, o + 1, Len(b))
             u == SubSeq(t, o + 1, Len(t))
             v == r \o x
  <1>1. /\ t \in Seq(Cell) /\ Len(t) = Len(b) + Len(x)
        /\ \A j \in 1 .. Len(b) + Len(x) : t[j] = IF j <= Len(b) THEN b[j] ELSE x[j - Len(b)]
    BY ConcatProperties
  <1>2. Len(b) \in Nat /\ Len(x) \in Nat /\ o \in Nat /\ o <= Len(b)
    OBVIOUS
  <1>3. r \in Seq(Cell) /\ Len(r) = Len(b) - o /\ \A j \in 1 .. Len(b) - o : r[j] = b[o + j]
    BY PartOf
  <1> HIDE DEF t
  <1>4. u \in Seq(Cell) /\ Len(u) = Len(t) - o /\ \A j \in 1 .. Len(t) - o : u[j] = t[o + j]
    <2>1. t \in Seq(Cell) /\ o \in 0 .. Len(t)
      BY ONLY <1>1, <1>2
    <2> QED
      BY ONLY <2>1, PartOf
  <1> HIDE DEF r
  <1>5. /\ v \in Seq(Cell) /\ Len(v) = Len(r) + Len(x)
        /\ \A j \in 1 .. Len(r) + Len(x) : v[j] = IF j <= Len(r) THEN r[j] ELSE x[j - Len(r)]
    BY <1>3, ConcatProperties
  <1> HIDE DEF u, v
  <1>6. u = v
    <2>1. Len(u) = Len(v)
      BY <1>1, <1>2, <1>3, <1>4, <1>5
    <2>2. ASSUME NEW j \in 1 .. Len(u) PROVE u[j] = v[j]
      <3>1. u[j] = t[o + j] /\ o + j \in 1 .. Len(b) + Len(x) /\ j \in 1 .. Len(r) + Len(x)
        BY <1>1, <1>2, <1>3, <1>4
      <3>2. CASE o + j <= Len(b)
        <4>1. j \in 1 .. Len(b) - o /\ j <= Len(r)
          BY <1>2, <1>3, <3>1, <3>2
        <4>2. u[j] = b[o + j] /\ r[j] = b[o + j]
          BY <1>1, <1>3, <3>1, <3>2, <4>1
        <4> QED
          BY <1>5, <3>1, <4>1, <4>2
      <3>3. CASE ~(o + j <= Len(b))
        <4>1. ~(j <= Len(r)) /\ (o + j) - Len(b) = j - Len(r)
          BY <1>2, <1>3, <3>1, <3>3
        <4>2. u[j] = x[(o + j) - Len(b)] /\ v[j] = x[j - Len(r)]
          BY <1>1, <1>5, <3>1, <3>3, <4>1
        <4> QED
          BY <4>1, <4>2
      <3> QED
        BY <3>2, <3>3
    <2> QED
      BY <1>4, <1>5, <2>1, <2>2, SeqEqual
  <1>7. SubSeq(t, 1, o) = SubSeq(b, 1, o)
    <2>1. /\ SubSeq(t, 1, o) \in Seq(Cell) /\ Len(SubSeq(t, 1, o)) = o
          /\ \A j \in 1 .. o : SubSeq(t, 1, o)[j] = t[j]
      BY <1>1, <1>2, StartOf
    <2>2. /\ SubSeq(b, 1, o) \in Seq(Cell) /\ Len(SubSeq(b, 1, o)) = o
          /\ \A j \in 1 .. o : SubSeq(b, 1, o)[j] = b[j]
      BY StartOf
    <2>3. \A j \in 1 .. o : t[j] = b[j]
      BY <1>1, <1>2
    <2> QED
      BY <2>1, <2>2, <2>3, SeqEqual
  <1> QED
    BY <1>1, <1>6, <1>7 DEF t, u, v, r

\* The newest bytes are removed: of the raw part something is left out.
LEMMA RawCut ==
  ASSUME NEW b \in Seq(Cell), NEW o \in 0 .. Len(b), NEW n \in o .. Len(b)
  PROVE  /\ SubSeq(b, 1, n) \in Seq(Cell) /\ Len(SubSeq(b, 1, n)) = n
         /\ SubSeq(SubSeq(b, 1, n), 1, o) = SubSeq(b, 1, o)
         /\ SubSeq(SubSeq(b, 1, n), o + 1, n) \in Seq(Cell)
         /\ Within(SubSeq(SubSeq(b, 1, n), o + 1, n), SubSeq(b, o + 1, Len(b)))
  <1> DEFINE t == SubSeq(b, 1, n)
             r == SubSeq(b, o + 1, Len(b))
             u == SubSeq(t, o + 1, n)
             h == [i \in 1 .. n - o |-> i]
  <1>1. n \in 0 .. Len(b) /\ o \in Nat /\ n \in Nat /\ Len(b) \in Nat /\ o <= n /\ n <= Len(b)
    OBVIOUS
  <1>2. t \in Seq(Cell) /\ Len(t) = n /\ \A j \in 1 .. n : t[j] = b[j]
    BY <1>1, StartOf
  <1> HIDE DEF t
  <1>3. r \in Seq(Cell) /\ Len(r) = Len(b) - o /\ \A j \in 1 .. Len(b) - o : r[j] = b[o + j]
    BY PartOf
  <1>4. u \in Seq(Cell) /\ Len(u) = n - o /\ \A j \in 1 .. n - o : u[j] = t[o + j]
    <2>1. o \in 0 .. Len(t)
      BY <1>1, <1>2
    <2> QED
      BY <1>2, <2>1, PartOf
  <1> HIDE DEF r, u
  <1>5. \A j \in 1 .. n - o : u[j] = r[j] /\ j \in 1 .. Len(r)
    BY <1>1, <1>2, <1>3, <1>4
  <1>6. Within(u, r)
    <2>1. h \in [1 .. Len(u) -> 1 .. Len(r)]
      BY <1>4, <1>5
    <2>2. Chosen(h, u, r)
      BY <1>4, <1>5 DEF Chosen
    <2> QED
      BY <2>1, <2>2 DEF Within
  <1>7. SubSeq(t, 1, o) = SubSeq(b, 1, o)
    <2>1. o \in 0 .. Len(t)
      BY <1>1, <1>2
    <2>2. /\ SubSeq(t, 1, o) \in Seq(Cell) /\ Len(SubSeq(t, 1, o)) = o
          /\ \A j \in 1 .. o : SubSeq(t, 1, o)[j] = t[j]
      BY <1>2, <2>1, StartOf
    <2>3. /\ SubSeq(b, 1, o) \in Seq(Cell) /\ Len(SubSeq(b, 1, o)) = o
          /\ \A j \in 1 .. o : SubSeq(b, 1, o)[j] = b[j]
      BY StartOf
    <2>4. \A j \in 1 .. o : t[j] = b[j]
      BY <1>1, <1>2
    <2> QED
      BY <2>2, <2>3, <2>4, SeqEqual
  <1> QED
    BY <1>2, <1>4, <1>6, <1>7 DEF t, r, u

\* The oldest cells are removed: the raw part stays.
LEMMA RawStays ==
  ASSUME NEW b \in Seq(Cell), NEW o \in 0 .. Len(b), NEW n \in 0 .. o
  PROVE  /\ SubSeq(b, n + 1, Len(b)) \in Seq(Cell) /\ Len(SubSeq(b, n + 1, Len(b))) = Len(b) - n
         /\ SubSeq(SubSeq(b, n + 1, Len(b)), 1, o - n) = SubSeq(SubSeq(b, 1, o), n + 1, o)
         /\ SubSeq(SubSeq(b, n + 1, Len(b)), (o - n) + 1, Len(b) - n) = SubSeq(b, o + 1, Len(b))
  <1> DEFINE t == SubSeq(b, n + 1, Len(b))
             a == SubSeq(b, 1, o)
             r == SubSeq(b, o + 1, Len(b))
             u == SubSeq(t, (o - n) + 1, Len(b) - n)
             v == SubSeq(t, 1, o - n)
             w == SubSeq(a, n + 1, o)
  <1>1. n \in 0 .. Len(b) /\ o \in Nat /\ n \in Nat /\ Len(b) \in Nat /\ n <= o /\ o <= Len(b)
    OBVIOUS
  <1>2. t \in Seq(Cell) /\ Len(t) = Len(b) - n /\ \A j \in 1 .. Len(b) - n : t[j] = b[n + j]
    BY <1>1, PartOf
  <1>3. a \in Seq(Cell) /\ Len(a) = o /\ \A j \in 1 .. o : a[j] = b[j]
    BY StartOf
  <1>4. r \in Seq(Cell) /\ Len(r) = Len(b) - o /\ \A j \in 1 .. Len(b) - o : r[j] = b[o + j]
    BY PartOf
  <1> HIDE DEF t, a, r
  <1>5. o - n \in 0 .. Len(t)
    BY <1>1, <1>2
  <1>6. u \in Seq(Cell) /\ Len(u) = Len(b) - o /\ \A j \in 1 .. Len(b) - o : u[j] = t[(o - n) + j]
    <2>1. /\ u \in Seq(Cell) /\ Len(u) = Len(t) - (o - n)
          /\ \A j \in 1 .. Len(t) - (o - n) : u[j] = t[(o - n) + j]
      BY <1>2, <1>5, PartOf
    <2>2. Len(t) - (o - n) = Len(b) - o
      BY <1>1, <1>2
    <2> HIDE DEF u
    <2> QED
      BY <2>1, <2>2
  <1>7. v \in Seq(Cell) /\ Len(v) = o - n /\ \A j \in 1 .. o - n : v[j] = t[j]
    BY <1>2, <1>5, StartOf
  <1>8. w \in Seq(Cell) /\ Len(w) = o - n /\ \A j \in 1 .. o - n : w[j] = a[n + j]
    <2>1. n \in 0 .. Len(a)
      BY <1>3
    <2> QED
      BY <1>3, <2>1, PartOf
  <1> HIDE DEF u, v, w
  <1>9. ASSUME NEW j \in 1 .. Len(b) - o PROVE u[j] = r[j]
    <2>1. (o - n) + j \in 1 .. Len(b) - n /\ n + ((o - n) + j) = o + j
      BY <1>1
    <2>2. t[(o - n) + j] = b[n + ((o - n) + j)]
      BY <1>2, <2>1
    <2> QED
      BY <1>4, <1>6, <2>1, <2>2
  <1>10. ASSUME NEW j \in 1 .. o - n PROVE v[j] = w[j]
    <2>1. j \in 1 .. Len(b) - n /\ n + j \in 1 .. o
      BY <1>1
    <2> QED
      BY <1>2, <1>3, <1>7, <1>8, <2>1
  <1>11. u = r
    BY <1>4, <1>6, <1>9, SeqEqual
  <1>12. v = w
    BY <1>7, <1>8, <1>10, SeqEqual
  <1> QED
    BY <1>2, <1>11, <1>12 DEF t, a, r, u, v, w

-----------------------------------------------------------------------------
(* Steps that leave something out of the line. *)

LineTypes ==
  /\ Recs \in Seq(Cell) /\ Len(Recs) = offset /\ Raw \in Seq(Cell)
  /\ Heads(wordstate) \in Seq(Cell) /\ Buffered \in Seq(Cell)
  /\ data \o wire \in Seq(Cell) /\ Line \in Seq(Cell)
  /\ sound \subseteq 1 .. Frames /\ sent \in Nat

LEMMA Typed == Types => LineTypes
  <1> SUFFICES ASSUME Types PROVE LineTypes
    OBVIOUS
  <1>1. /\ q \in Seq(Cell) /\ offset \in 0 .. Len(q) /\ wordstate \in 0 .. 3
        /\ data \in Seq(Cell) /\ wire \in Seq(Cell) /\ sound \subseteq 1 .. Frames /\ sent \in Nat
    BY UpLinkAssumption DEF Types, HEADNUMER
  <1>2. Recs \in Seq(Cell) /\ Len(Recs) = offset
    BY <1>1, StartOf DEF Recs
  <1>3. Raw \in Seq(Cell)
    BY <1>1, PartOf DEF Raw
  <1>4. Heads(wordstate) \in Seq(Cell)
    BY <1>1, HeadsAre
  <1>5. Buffered \in Seq(Cell)
    BY <1>3, <1>4, ConcatProperties DEF Buffered
  <1>6. data \o wire \in Seq(Cell)
    BY <1>1, ConcatProperties
  <1>7. Line \in Seq(Cell)
    BY <1>5, <1>6, ConcatProperties DEF Line
  <1> QED
    BY <1>1, <1>2, <1>3, <1>4, <1>5, <1>6, <1>7 DEF LineTypes

LEMMA TypedNext == Types' => LineTypes'
  BY Typed, PTL

QueueOK == RecsOK(Recs, sound) /\ LineOK(Line, sent, sound) /\ Behind

LEMMA LineLeftOut ==
  ASSUME Types, Types', QueueOK, Within(Line', Line)
  PROVE  /\ LineOK(Line', sent, sound)
         /\ \A i \in 1 .. Len(Line') : \E j \in 1 .. Len(Line) : Line'[i] = Line[j]
  <1>1. Line \in Seq(Cell) /\ sent \in Nat
    BY Typed DEF LineTypes
  <1>2. Line' \in Seq(Cell)
    BY TypedNext DEF LineTypes
  <1> QED
    BY <1>1, <1>2, LineWithin DEF QueueOK

LEMMA LeftOut ==
  ASSUME Types, Types', QueueOK, sent' = sent, sound' = sound,
         Recs' = Recs, Given' \subseteq Given, Within(Line', Line)
  PROVE  QueueOK'
  <1>1. /\ LineOK(Line', sent, sound)
        /\ \A i \in 1 .. Len(Line') : \E j \in 1 .. Len(Line) : Line'[i] = Line[j]
    BY LineLeftOut
  <1>2. \A c \in Given', j \in 1 .. Len(Recs') : Before(c, Recs'[j])
    BY DEF QueueOK, Behind
  <1>3. ASSUME NEW i \in 1 .. Len(Line'), IsByte(Line'[i])
        PROVE  /\ \A j \in 1 .. Len(Recs') : Recs'[j].f < Line'[i].f
               /\ \A c \in Given' : c.f < Line'[i].f
    <2>1. PICK l \in 1 .. Len(Line) : Line'[i] = Line[l]
      BY <1>1
    <2> QED
      BY <1>3, <2>1 DEF QueueOK, Behind
  <1>4. Behind'
    BY <1>2, <1>3 DEF Behind, Before
  <1> QED
    BY <1>1, <1>4 DEF QueueOK

LEMMA Associative ==
  \A a, b, c \in Seq(Cell) : (a \o b) \o c = a \o (b \o c)
  <1> SUFFICES ASSUME NEW a \in Seq(Cell), NEW b \in Seq(Cell), NEW c \in Seq(Cell)
               PROVE  (a \o b) \o c = a \o (b \o c)
    OBVIOUS
  <1> DEFINE x == a \o b
             y == b \o c
             u == x \o c
             v == a \o y
  <1>1. /\ x \in Seq(Cell) /\ Len(x) = Len(a) + Len(b)
        /\ \A i \in 1 .. Len(a) + Len(b) : x[i] = IF i <= Len(a) THEN a[i] ELSE b[i - Len(a)]
    BY ConcatProperties
  <1>2. /\ y \in Seq(Cell) /\ Len(y) = Len(b) + Len(c)
        /\ \A i \in 1 .. Len(b) + Len(c) : y[i] = IF i <= Len(b) THEN b[i] ELSE c[i - Len(b)]
    BY ConcatProperties
  <1> HIDE DEF x, y
  <1>0. x \in Seq(Cell) /\ y \in Seq(Cell) /\ a \in Seq(Cell) /\ c \in Seq(Cell)
    BY <1>1, <1>2
  <1>3. /\ u \in Seq(Cell) /\ Len(u) = Len(x) + Len(c)
        /\ \A i \in 1 .. Len(x) + Len(c) : u[i] = IF i <= Len(x) THEN x[i] ELSE c[i - Len(x)]
    BY ONLY <1>0, ConcatProperties
  <1>4. /\ v \in Seq(Cell) /\ Len(v) = Len(a) + Len(y)
        /\ \A i \in 1 .. Len(a) + Len(y) : v[i] = IF i <= Len(a) THEN a[i] ELSE y[i - Len(a)]
    BY ONLY <1>0, ConcatProperties
  <1> HIDE DEF u, v
  <1>5. Len(a) \in Nat /\ Len(b) \in Nat /\ Len(c) \in Nat
    OBVIOUS
  <1>6. ASSUME NEW i \in 1 .. Len(u) PROVE u[i] = v[i]
    <2>0. i \in 1 .. Len(x) + Len(c) /\ i \in 1 .. Len(a) + Len(y)
      BY <1>1, <1>2, <1>3, <1>5
    <2>1. CASE i <= Len(a)
      <3>1. i \in 1 .. Len(a) + Len(b) /\ i <= Len(x)
        BY <1>1, <1>5, <2>1
      <3>2. u[i] = x[i] /\ x[i] = a[i]
        BY <1>1, <1>3, <2>0, <2>1, <3>1
      <3>3. v[i] = a[i]
        BY <1>4, <2>0, <2>1
      <3> QED
        BY <3>2, <3>3
    <2>2. CASE i > Len(a) /\ i <= Len(a) + Len(b)
      <3>1. i \in 1 .. Len(a) + Len(b) /\ i <= Len(x) /\ ~(i <= Len(a))
        BY <1>1, <1>5, <2>2
      <3>2. u[i] = x[i] /\ x[i] = b[i - Len(a)]
        BY <1>1, <1>3, <2>0, <3>1
      <3>3. i - Len(a) \in 1 .. Len(b) + Len(c) /\ i - Len(a) <= Len(b)
        BY <1>5, <2>2
      <3>4. v[i] = y[i - Len(a)] /\ y[i - Len(a)] = b[i - Len(a)]
        BY <1>2, <1>4, <2>0, <3>1, <3>3
      <3> QED
        BY <3>2, <3>4
    <2>3. CASE i > Len(a) + Len(b)
      <3>1. u[i] = c[i - (Len(a) + Len(b))]
        BY <1>1, <1>3, <1>5, <2>3
      <3>2. i - Len(a) \in 1 .. Len(b) + Len(c) /\ ~(i - Len(a) <= Len(b))
        BY <1>1, <1>3, <1>5, <2>3
      <3>3. v[i] = y[i - Len(a)] /\ y[i - Len(a)] = c[(i - Len(a)) - Len(b)]
        BY <1>1, <1>2, <1>3, <1>4, <1>5, <2>3, <3>2
      <3>4. (i - Len(a)) - Len(b) = i - (Len(a) + Len(b))
        BY <1>5
      <3> QED
        BY <3>1, <3>3, <3>4
    <2> QED
      BY <1>5, <2>1, <2>2, <2>3
  <1>7. u = v
    <2>1. Len(u) = Len(v)
      BY <1>1, <1>2, <1>3, <1>4, <1>5
    <2> QED
      BY <1>3, <1>4, <1>6, <2>1, SeqEqual
  <1> QED
    BY <1>7 DEF u, v, x, y

\* The next byte is taken from the chunk, and maybe the rest is dropped.
LEMMA Consumed ==
  ASSUME NEW g \in Seq(Cell), NEW h \in Seq(Cell), NEW d \in Seq(Cell), NEW w \in Seq(Cell),
         d # <<>>, Within(h, g \o <<d[1]>>), NEW e \in {<<>>, Tail(d)}
  PROVE  Within(h \o (e \o w), g \o (d \o w))
  <1>1. /\ Tail(d) \in Seq(Cell) /\ d[1] \in Cell /\ <<d[1]>> \in Seq(Cell) /\ <<>> \in Seq(Cell)
        /\ Head(d) = d[1]
    BY HeadTailProperties
  <1>2. d = <<d[1]>> \o Tail(d)
    <2>1. /\ Len(Tail(d)) = Len(d) - 1 /\ Len(d) \in Nat
          /\ \A i \in 1 .. Len(Tail(d)) : Tail(d)[i] = d[i + 1]
      BY HeadTailProperties
    <2> DEFINE u == <<d[1]>> \o Tail(d)
    <2>2. /\ u \in Seq(Cell) /\ Len(u) = 1 + Len(Tail(d))
          /\ \A i \in 1 .. 1 + Len(Tail(d)) : u[i] = IF i <= 1 THEN d[1] ELSE Tail(d)[i - 1]
      BY <1>1, ConcatProperties
    <2> HIDE DEF u
    <2>3. ASSUME NEW i \in 1 .. Len(d) PROVE d[i] = u[i]
      <3>1. CASE i = 1
        BY <2>1, <2>2, <3>1
      <3>2. CASE i # 1
        <4>1. i - 1 \in 1 .. Len(Tail(d)) /\ (i - 1) + 1 = i
          BY <2>1, <3>2
        <4> QED
          BY <2>1, <2>2, <3>2, <4>1
      <3> QED
        BY <3>1, <3>2
    <2>4. d = u
      BY <2>1, <2>2, <2>3, SeqEqual
    <2> QED
      BY <2>4 DEF u
  <1>3. e \in Seq(Cell) /\ Within(e, Tail(d))
    BY <1>1, WithinSelf, WithinEmpty
  <1>4. /\ e \o w \in Seq(Cell) /\ Tail(d) \o w \in Seq(Cell) /\ d \o w \in Seq(Cell)
        /\ g \o <<d[1]>> \in Seq(Cell)
    BY <1>1, <1>3, ConcatProperties
  <1>5. Within(e \o w, Tail(d) \o w)
    BY <1>1, <1>3, WithinSelf, WithinBoth
  <1>6. Within(h \o (e \o w), (g \o <<d[1]>>) \o (Tail(d) \o w))
    BY <1>4, <1>5, WithinBoth
  <1>7. (g \o <<d[1]>>) \o (Tail(d) \o w) = g \o (<<d[1]>> \o (Tail(d) \o w))
    <2> DEFINE x == <<d[1]>>
               y == Tail(d) \o w
    <2>1. x \in Seq(Cell) /\ y \in Seq(Cell) /\ g \in Seq(Cell)
      BY <1>1, <1>4
    <2> HIDE DEF x, y
    <2>2. (g \o x) \o y = g \o (x \o y)
      BY ONLY <2>1, Associative, Zenon
    <2> QED
      BY <2>2 DEF x, y
  <1>8. <<d[1]>> \o (Tail(d) \o w) = (<<d[1]>> \o Tail(d)) \o w
    <2> DEFINE x == <<d[1]>>
               y == Tail(d)
               z == w
    <2>1. x \in Seq(Cell) /\ y \in Seq(Cell) /\ z \in Seq(Cell)
      BY <1>1
    <2> HIDE DEF x, y, z
    <2>2. \A c \in Seq(Cell) : (x \o y) \o c = x \o (y \o c)
      <3>1. \A b, c \in Seq(Cell) : (x \o b) \o c = x \o (b \o c)
        BY ONLY <2>1, Associative, Zenon
      <3> QED
        BY ONLY <2>1, <3>1, Zenon
    <2>3. (x \o y) \o z = x \o (y \o z)
      BY ONLY <2>1, <2>2, Zenon
    <2> QED
      BY <2>3 DEF x, y, z
  <1> QED
    BY <1>2, <1>6, <1>7, <1>8

\* Nothing changes in the buffer or on the line.
LEMMA Still ==
  ASSUME Types, UNCHANGED <<q, offset, wordstate, data, wire>>
  PROVE  Recs' = Recs /\ Line' = Line /\ Within(Line', Line)
  <1>1. Line' = Line
    BY DEF Line, Buffered, Raw
  <1>2. Line \in Seq(Cell)
    BY Typed DEF LineTypes
  <1>3. Within(Line', Line)
    BY <1>1, <1>2, WithinSelf
  <1> QED
    BY <1>1, <1>3 DEF Recs

LEMMA HandedSame ==
  ASSUME HandedOK, UNCHANGED <<sent, sound, dataup, up>>
  PROVE  HandedOK' /\ Given' = Given
  BY DEF HandedOK, Given

-----------------------------------------------------------------------------
(* The steps. *)

LEMMA AppStep ==
  ASSUME Tight, ~overrun, App
  PROVE  Tight'
  <1> USE DEF App, device, parser, timer
  <1>1. Types /\ up \in Seq(Cell) /\ dataup \in Cell /\ HandedOK
    BY DEF Tight, Types
  <1>2. /\ up' \in Seq(Cell) /\ dataup' = NULL /\ dataup' \in Cell
        /\ dataup = NULL => up' = up
        /\ dataup # NULL =>
             /\ Len(up') = Len(up) + 1
             /\ \A j \in 1 .. Len(up) : up'[j] = up[j]
             /\ up'[Len(up) + 1] = dataup
    BY <1>1, CellTypes, AppendProperties
  <1>3. Types'
    BY <1>1, <1>2 DEF Types
  <1>4. Between'
    BY DEF Tight, Between
  <1>5. HandedOK' /\ Given' \subseteq Given
    <2>1. CASE dataup = NULL
      BY <1>1, <1>2, <2>1 DEF HandedOK, Given
    <2>2. CASE dataup # NULL
      <3>1. /\ \A j \in 1 .. Len(up') : j \in 1 .. Len(up) \/ j = Len(up) + 1
            /\ Len(up) \in Nat
        BY <1>1, <1>2, <2>2
      <3>2. \A j \in 1 .. Len(up') : up'[j] \in Given
        BY <1>2, <2>2, <3>1 DEF Given
      <3>3. Given' \subseteq Given
        BY <1>2, <3>2 DEF Given
      <3>4. ASSUME NEW i \in 1 .. Len(up'), NEW j \in 1 .. Len(up'), i < j
            PROVE  Before(up'[i], up'[j])
        <4>1. CASE j \in 1 .. Len(up)
          <5>1. i \in 1 .. Len(up)
            BY <3>1, <3>4, <4>1
          <5>2. Before(up[i], up[j])
            BY <1>1, <3>4, <4>1, <5>1 DEF HandedOK
          <5> QED
            BY <1>2, <2>2, <4>1, <5>1, <5>2
        <4>2. CASE j = Len(up) + 1
          <5>1. i \in 1 .. Len(up)
            BY <3>1, <3>4, <4>2
          <5>2. Before(up[i], dataup)
            BY <1>1, <2>2, <5>1 DEF HandedOK
          <5> QED
            BY <1>2, <2>2, <4>2, <5>1, <5>2
        <4> QED
          BY <3>1, <4>1, <4>2
      <3> QED
        BY <1>1, <1>2, <3>3, <3>4 DEF HandedOK, Before
    <2> QED
      BY <2>1, <2>2
  <1>6. ASSUME ~overrun PROVE QueueOK'
    <2>1. QueueOK
      BY <1>6 DEF Tight, QueueOK
    <2> QED
      BY <1>1, <1>3, <1>5, <2>1, Still, LeftOut
  <1> QED
    BY <1>3, <1>4, <1>5, <1>6 DEF Tight, QueueOK

LEMMA NoBytesStep ==
  ASSUME Tight, NoBytes
  PROVE  Tight'
  <1> USE DEF NoBytes, device, parser, timer
  <1>1. Types'
    BY DEF Tight, Types
  <1>2. Between'
    BY DEF Tight, Between
  <1>3. HandedOK' /\ Given' = Given
    BY HandedSame DEF Tight
  <1>4. ASSUME ~overrun PROVE QueueOK'
    BY <1>1, <1>3, <1>4, Still, LeftOut DEF Tight, QueueOK
  <1> QED
    BY <1>1, <1>2, <1>3, <1>4 DEF Tight, QueueOK

LEMMA RevTimerUpStep ==
  ASSUME Tight, RevTimerUp
  PROVE  Tight'
  <1> USE DEF RevTimerUp, device, parser
  <1>1. Types'
    BY DEF Tight, Types
  <1>2. Between'
    BY DEF Tight, Between
  <1>3. HandedOK' /\ Given' = Given
    BY HandedSame DEF Tight
  <1>4. ASSUME ~overrun PROVE QueueOK'
    BY <1>1, <1>3, <1>4, Still, LeftOut DEF Tight, QueueOK
  <1> QED
    BY <1>1, <1>2, <1>3, <1>4 DEF Tight, QueueOK

-----------------------------------------------------------------------------
(* From the buffer to the line. *)

LEMMA ModBelow ==
  ASSUME NEW n \in Nat
  PROVE  n % U8 \in 0 .. n /\ (n < U8 => n % U8 = n)
  BY UpLinkAssumption

LEMMA ModOffset ==
  ASSUME NEW n \in 0 .. REVFIFOLEN
  PROVE  n % U16 = n
  BY UpLinkAssumption

LEMMA EmptyAround ==
  ASSUME NEW s \in Seq(Cell)
  PROVE  s \o <<>> = s /\ <<>> \o s = s
  BY ConcatSimplifications

LEMMA WithinLonger ==
  ASSUME NEW s \in Seq(Cell), NEW t \in Seq(Cell)
  PROVE  Within(s, s \o t) /\ Within(s, t \o s)
  <1>1. <<>> \in Seq(Cell) /\ Within(<<>>, t) /\ Within(s, s)
    BY WithinEmpty, WithinSelf
  <1>2. Within(s \o <<>>, s \o t) /\ Within(<<>> \o s, t \o s)
    BY <1>1, WithinBoth
  <1> QED
    BY <1>2, EmptyAround

LEMMA ShorterBuffer ==
  ASSUME Types, Types', Within(Raw', Raw), wordstate' = 0
  PROVE  Buffered' = Raw' /\ Within(Buffered', Buffered)
  <1>1. /\ Raw \in Seq(Cell) /\ Raw' \in Seq(Cell) /\ Heads(wordstate) \in Seq(Cell)
        /\ Buffered \in Seq(Cell)
    BY Typed, TypedNext DEF LineTypes
  <1>2. Heads(0) = <<>>
    BY DEF Heads
  <1>3. Buffered' = Raw' \o <<>>
    BY <1>2 DEF Buffered
  <1>4. Buffered' = Raw'
    BY <1>1, <1>3, EmptyAround
  <1>5. Within(Raw, Buffered)
    BY <1>1, WithinLonger DEF Buffered
  <1>6. Within(Raw', Buffered)
    BY <1>1, <1>5, WithinWithin
  <1> QED
    BY <1>4, <1>6

LEMMA LineStep ==
  ASSUME Types, Types', Within(Buffered', Buffered),
         Within(data' \o wire', data \o wire)
  PROVE  Within(Line', Line)
  <1>1. /\ Buffered \in Seq(Cell) /\ Buffered' \in Seq(Cell)
        /\ data \o wire \in Seq(Cell) /\ data' \o wire' \in Seq(Cell)
    BY Typed, TypedNext DEF LineTypes
  <1> QED
    BY <1>1, WithinBoth DEF Line

LEMMA ByteStep ==
  ASSUME Types, Types', data # <<>>, Within(Buffered', Buffered \o <<data[1]>>),
         data' \in {<<>>, Tail(data)}, wire' = wire
  PROVE  Within(Line', Line)
  <1>1. /\ Buffered \in Seq(Cell) /\ Buffered' \in Seq(Cell)
        /\ data \in Seq(Cell) /\ wire \in Seq(Cell)
    BY Typed, TypedNext DEF LineTypes, Types
  <1>2. Within(Buffered' \o (data' \o wire), Buffered \o (data \o wire))
    BY <1>1, Consumed
  <1> QED
    BY <1>2 DEF Line

\* What is left of the chunk when a byte is taken.
LEMMA RestOf ==
  ASSUME Types, data # <<>>, data' \in {<<>>, Tail(data)}, wire' = wire
  PROVE  Within(data' \o wire', data \o wire)
  <1>0. data \in Seq(Cell) /\ wire \in Seq(Cell)
    BY DEF Types
  <1>1. data \in Seq(Cell) /\ wire \in Seq(Cell) /\ data' \in Seq(Cell)
    <2>1. Tail(data) \in Seq(Cell) /\ <<>> \in Seq(Cell)
      BY <1>0, HeadTailProperties
    <2> QED
      BY <1>0, <2>1
  <1>2. Within(Tail(data), data)
    <2>1. Len(data) \in Nat /\ Tail(data) \in Seq(Cell) /\ Len(Tail(data)) = Len(data) - 1
          /\ \A i \in 1 .. Len(Tail(data)) : Tail(data)[i] = data[i + 1]
      BY <1>1, HeadTailProperties
    <2> DEFINE s == Tail(data)
               h == [i \in 1 .. Len(s) |-> i + 1]
    <2> HIDE DEF s
    <2>2. h \in [1 .. Len(s) -> 1 .. Len(data)]
      BY <2>1 DEF s
    <2>3. Chosen(h, s, data)
      BY <2>1 DEF Chosen, s
    <2>4. Within(s, data)
      BY <2>2, <2>3 DEF Within
    <2> QED
      BY <2>4 DEF s
  <1>3. Within(data', data)
    BY <1>1, <1>2, WithinEmpty
  <1>4. Within(wire', wire)
    BY <1>1, WithinSelf
  <1> QED
    BY <1>1, <1>3, <1>4, WithinBoth

\* The oldest m of n bytes are taken and the rest of the n is lost.
LEMMA TakenFrom ==
  ASSUME NEW w \in Seq(Cell), NEW n \in 1 .. Len(w), NEW m \in 0 .. n
  PROVE  /\ SubSeq(w, 1, m) \in Seq(Cell) /\ SubSeq(w, n + 1, Len(w)) \in Seq(Cell)
         /\ Within(SubSeq(w, 1, m) \o SubSeq(w, n + 1, Len(w)), w)
  <1> DEFINE a == SubSeq(w, 1, m)
             b == SubSeq(w, n + 1, Len(w))
             s == a \o b
             h == [i \in 1 .. Len(s) |-> IF i <= m THEN i ELSE (i - m) + n]
  <1>1. m \in 0 .. Len(w) /\ n \in 0 .. Len(w) /\ m \in Nat /\ n \in Nat /\ Len(w) \in Nat /\ m <= n
    OBVIOUS
  <1>2. a \in Seq(Cell) /\ Len(a) = m /\ \A j \in 1 .. m : a[j] = w[j]
    BY <1>1, StartOf
  <1>3. b \in Seq(Cell) /\ Len(b) = Len(w) - n /\ \A j \in 1 .. Len(w) - n : b[j] = w[n + j]
    BY <1>1, PartOf
  <1> HIDE DEF a, b
  <1>4. /\ s \in Seq(Cell) /\ Len(s) = Len(a) + Len(b)
        /\ \A j \in 1 .. Len(a) + Len(b) : s[j] = IF j <= Len(a) THEN a[j] ELSE b[j - Len(a)]
    BY <1>2, <1>3, ConcatProperties
  <1> HIDE DEF s
  <1>5. ASSUME NEW j \in 1 .. Len(s)
        PROVE  /\ (IF j <= m THEN j ELSE (j - m) + n) \in 1 .. Len(w)
               /\ s[j] = w[IF j <= m THEN j ELSE (j - m) + n]
    <2>1. CASE j <= m
      <3>1. j \in 1 .. Len(w) /\ j \in 1 .. m
        BY <1>1, <2>1
      <3>2. s[j] = a[j]
        BY <1>2, <1>4, <2>1
      <3> QED
        BY <1>2, <2>1, <3>1, <3>2
    <2>2. CASE ~(j <= m)
      <3>1. j - m \in 1 .. Len(w) - n /\ (j - m) + n = n + (j - m) /\ (j - m) + n \in 1 .. Len(w)
        BY <1>1, <1>2, <1>3, <1>4, <2>2
      <3>2. s[j] = b[j - m]
        BY <1>2, <1>4, <2>2
      <3>3. b[j - m] = w[n + (j - m)]
        BY <1>3, <3>1
      <3> QED
        BY <2>2, <3>1, <3>2, <3>3
    <2> QED
      BY <2>1, <2>2
  <1>6. h \in [1 .. Len(s) -> 1 .. Len(w)]
    BY <1>5
  <1>7. Chosen(h, s, w)
    <2>1. \A j \in 1 .. Len(s) : s[j] = w[h[j]]
      BY <1>5
    <2>2. \A i, j \in 1 .. Len(s) : i < j => h[i] < h[j]
      BY <1>1
    <2> QED
      BY <2>1, <2>2 DEF Chosen
  <1> HIDE DEF h
  <1>8. Within(s, w)
    BY <1>6, <1>7 DEF Within
  <1> QED
    BY <1>2, <1>3, <1>8 DEF s, a, b

LEMMA ReceiveStep ==
  ASSUME Tight, Receive
  PROVE  Tight'
  <1> USE DEF parser
  <1>0. Types /\ data = <<>> /\ wire \in Seq(Cell)
    BY DEF Tight, Between, Types, Receive
  <1>1. PICK n \in 1 .. Len(wire) :
          /\ Left(SubSeq(wire, 1, n % U8))
          /\ wire' = SubSeq(wire, n + 1, Len(wire))
    BY DEF Receive
  <1> DEFINE m == n % U8
  <1>2. m \in 0 .. n
    BY ModBelow
  <1>3. data' = SubSeq(wire, 1, m) /\ pc' = IF data' = <<>> THEN "app" ELSE "loop"
    BY <1>1 DEF Left
  <1> HIDE DEF m
  <1>4. data' \in Seq(Cell) /\ wire' \in Seq(Cell) /\ Within(data' \o wire', wire)
    BY <1>0, <1>1, <1>2, <1>3, TakenFrom
  <1>5. Types'
    BY <1>0, <1>3, <1>4 DEF Types, Receive
  <1>6. Between'
    BY <1>3 DEF Between
  <1>7. HandedOK' /\ Given' = Given
    BY HandedSame DEF Tight, Receive
  <1>8. ASSUME ~overrun PROVE QueueOK'
    <2>1. data \o wire = wire
      BY <1>0, EmptyAround
    <2>2. Raw' = Raw /\ Buffered' = Buffered /\ Recs' = Recs
      BY DEF Raw, Buffered, Recs, Receive
    <2>3. Within(Buffered', Buffered)
      BY <1>0, <2>2, Typed, WithinSelf DEF LineTypes
    <2>4. Within(Line', Line)
      BY <1>0, <1>4, <1>5, <2>1, <2>3, LineStep
    <2> QED
      BY <1>0, <1>5, <1>7, <1>8, <2>2, <2>4, LeftOut DEF Tight, QueueOK, Receive
  <1> QED
    BY <1>5, <1>6, <1>7, <1>8 DEF Tight, QueueOK, Receive

-----------------------------------------------------------------------------
(* One byte. *)

LEMMA HeadsAdd ==
  ASSUME NEW n \in Nat
  PROVE  Heads(n) \o <<F5>> = Heads(n + 1)
  <1> DEFINE s == Heads(n) \o <<F5>>
             t == Heads(n + 1)
  <1>1. Heads(n) \in Seq(Cell) /\ Len(Heads(n)) = n /\ \A i \in 1 .. n : Heads(n)[i] = F5
    BY HeadsAre
  <1>2. t \in Seq(Cell) /\ Len(t) = n + 1 /\ \A i \in 1 .. n + 1 : t[i] = F5
    BY HeadsAre
  <1>3. <<F5>> \in Seq(Cell) /\ Len(<<F5>>) = 1 /\ <<F5>>[1] = F5
    BY CellTypes
  <1>4. /\ s \in Seq(Cell) /\ Len(s) = Len(Heads(n)) + 1
        /\ \A i \in 1 .. Len(Heads(n)) + 1 :
             s[i] = IF i <= Len(Heads(n)) THEN Heads(n)[i] ELSE <<F5>>[i - Len(Heads(n))]
    BY <1>1, <1>3, ConcatProperties
  <1> HIDE DEF s, t
  <1>5. Len(s) = n + 1 /\ \A i \in 1 .. n + 1 : s[i] = F5
    BY <1>1, <1>3, <1>4
  <1>6. s = t
    BY <1>2, <1>4, <1>5, SeqEqual
  <1> QED
    BY <1>6 DEF s, t

\* What is pushed is within the header bytes counted and the byte taken.
LEMMA PushStep ==
  ASSUME Types, data # <<>>, q' = Push(q, Heads(wordstate) \o <<data[1]>>),
         offset' = offset, wordstate' = 0
  PROVE  /\ q' \in Seq(Cell) /\ Len(q') <= REVFIFOLEN /\ offset \in 0 .. Len(q')
         /\ Recs' = Recs /\ Within(Buffered', Buffered \o <<data[1]>>)
  <1>1. /\ q \in Seq(Cell) /\ offset \in 0 .. Len(q) /\ Len(q) <= REVFIFOLEN
        /\ data \in Seq(Cell) /\ wordstate \in Nat
    BY DEF Types, HEADNUMER
  <1>2. data[1] \in Cell
    BY <1>1, HeadTailProperties
  <1>3. /\ Raw \in Seq(Cell) /\ Heads(wordstate) \in Seq(Cell) /\ <<data[1]>> \in Seq(Cell)
    BY <1>2, Typed DEF LineTypes
  <1> DEFINE s == Heads(wordstate) \o <<data[1]>>
  <1>4. s \in Seq(Cell)
    BY <1>3, ConcatProperties
  <1>5. Buffered \o <<data[1]>> = Raw \o s
    <2> DEFINE g == Heads(wordstate)
               x == <<data[1]>>
    <2>1. Raw \in Seq(Cell) /\ g \in Seq(Cell) /\ x \in Seq(Cell)
      BY <1>3
    <2> HIDE DEF g, x
    <2>2. (Raw \o g) \o x = Raw \o (g \o x)
      BY ONLY <2>1, Associative, Zenon
    <2> QED
      BY <2>2 DEF g, x, s, Buffered
  <1>6. q' = Push(q, s)
    OBVIOUS
  <1> HIDE DEF s
  <1>7. PICK m \in 0 .. Len(s) :
           /\ Push(q, s) = q \o SubSeq(s, 1, m)
           /\ SubSeq(s, 1, m) \in Seq(Cell) /\ Len(SubSeq(s, 1, m)) = m
           /\ Len(q) + m <= REVFIFOLEN
    BY <1>1, <1>4, PushIs
  <1> DEFINE x == SubSeq(s, 1, m)
  <1>8. Within(x, s)
    BY <1>4, WithinPart
  <1>9. q' = q \o x /\ x \in Seq(Cell) /\ Len(x) = m
    BY <1>6, <1>7
  <1> HIDE DEF x
  <1>10. /\ q' \in Seq(Cell) /\ Len(q') = Len(q) + m
         /\ SubSeq(q', 1, offset) = SubSeq(q, 1, offset)
         /\ SubSeq(q', offset + 1, Len(q')) = SubSeq(q, offset + 1, Len(q)) \o x
    <2> DEFINE t == q \o x
    <2>1. /\ t \in Seq(Cell) /\ Len(t) = Len(q) + Len(x)
          /\ SubSeq(t, 1, offset) = SubSeq(q, 1, offset)
          /\ SubSeq(t, offset + 1, Len(t)) = SubSeq(q, offset + 1, Len(q)) \o x
      BY <1>1, <1>9, RawGrows
    <2>2. q' = t /\ Len(x) = m
      BY <1>9
    <2> HIDE DEF t
    <2> QED
      BY ONLY <2>1, <2>2
  <1>11. Len(q') <= REVFIFOLEN /\ offset \in 0 .. Len(q')
    <2>1. Len(q) \in Nat /\ m \in Nat /\ Len(q') = Len(q) + m /\ Len(q) + m <= REVFIFOLEN
      BY <1>1, <1>7, <1>10
    <2>2. offset \in 0 .. Len(q)
      BY <1>1
    <2> QED
      BY ONLY <2>1, <2>2
  <1>12. Recs' = Recs /\ Raw' = Raw \o x
    BY <1>10 DEF Recs, Raw
  <1>13. Buffered' = Raw \o x
    <2>1. Raw \o x \in Seq(Cell) /\ Heads(0) = <<>>
      BY <1>3, <1>9, ConcatProperties DEF Heads
    <2>2. Buffered' = (Raw \o x) \o <<>>
      BY <1>12, <2>1 DEF Buffered
    <2> QED
      BY <2>1, <2>2, EmptyAround
  <1>14. Within(Raw \o x, Raw \o s)
    BY <1>3, <1>4, <1>8, <1>9, WithinSelf, WithinBoth
  <1> QED
    BY <1>5, <1>10, <1>11, <1>12, <1>13, <1>14

\* A byte is taken that changes nothing but the line.
LEMMA TakeByte ==
  ASSUME Tight, Types', data # <<>>, data' \in {<<>>, Tail(data)},
         pc' = IF data' = <<>> THEN "app" ELSE "loop",
         Recs' = Recs, UNCHANGED <<overrun, device, dataup, up>>,
         \/ Within(Buffered', Buffered)
         \/ Within(Buffered', Buffered \o <<data[1]>>)
  PROVE  Tight'
  <1> USE DEF device
  <1>1. Between'
    BY DEF Between
  <1>2. HandedOK' /\ Given' = Given
    BY HandedSame DEF Tight
  <1>3. Within(Line', Line)
    <2>1. CASE Within(Buffered', Buffered)
      BY <2>1, RestOf, LineStep DEF Tight
    <2>2. CASE Within(Buffered', Buffered \o <<data[1]>>)
      BY <2>2, ByteStep DEF Tight
    <2> QED
      BY <2>1, <2>2
  <1>4. ASSUME ~overrun PROVE QueueOK'
    BY <1>2, <1>3, <1>4, LeftOut DEF Tight, QueueOK
  <1> QED
    BY <1>1, <1>2, <1>4 DEF Tight, QueueOK

LEMMA LeftIs ==
  ASSUME Types, data # <<>>, Left(<<>>) \/ Left(Tail(data))
  PROVE  /\ data' \in {<<>>, Tail(data)} /\ data' \in Seq(Cell)
         /\ pc' = IF data' = <<>> THEN "app" ELSE "loop"
         /\ pc' \in {"app", "cmd", "timer", "recv", "loop"}
  <1>1. Tail(data) \in Seq(Cell) /\ <<>> \in Seq(Cell)
    <2>1. data \in Seq(Cell)
      BY DEF Types
    <2> QED
      BY <2>1, HeadTailProperties
  <1> QED
    BY <1>1 DEF Left

LEMMA CountHeadStep ==
  ASSUME Tight, RevDataWrFifo, data # <<>>, CountHead
  PROVE  Tight'
  <1> USE DEF RevDataWrFifo, CountHead
  <1>1. Types
    BY DEF Tight
  <1>2. /\ data' \in {<<>>, Tail(data)} /\ data' \in Seq(Cell)
        /\ pc' = IF data' = <<>> THEN "app" ELSE "loop"
        /\ pc' \in {"app", "cmd", "timer", "recv", "loop"}
    BY <1>1, LeftIs
  <1>3. Types'
    BY <1>1, <1>2 DEF Types, HEADNUMER, device
  <1>4. Buffered' = Buffered \o <<data[1]>> /\ Buffered' \in Seq(Cell)
    <2>1. Raw \in Seq(Cell) /\ Heads(wordstate) \in Seq(Cell) /\ wordstate \in Nat
      BY <1>1, Typed DEF LineTypes, Types, HEADNUMER
    <2>2. Heads(wordstate') = Heads(wordstate) \o <<F5>>
      BY <2>1, HeadsAdd
    <2>3. <<F5>> \in Seq(Cell)
      BY CellTypes
    <2>4. Raw \o (Heads(wordstate) \o <<F5>>) = (Raw \o Heads(wordstate)) \o <<F5>>
      <3> DEFINE g == Heads(wordstate)
                 x == <<F5>>
      <3>1. Raw \in Seq(Cell) /\ g \in Seq(Cell) /\ x \in Seq(Cell)
        BY <2>1, <2>3
      <3> HIDE DEF g, x
      <3>2. (Raw \o g) \o x = Raw \o (g \o x)
        BY ONLY <3>1, Associative, Zenon
      <3> QED
        BY <3>2 DEF g, x
    <2>5. Raw' = Raw
      BY DEF Raw
    <2>6. Buffered' \in Seq(Cell)
      BY <1>3, TypedNext DEF LineTypes
    <2> QED
      BY <2>2, <2>4, <2>5, <2>6 DEF Buffered
  <1>5. Within(Buffered', Buffered \o <<data[1]>>)
    <2>1. Within(Buffered', Buffered')
      BY <1>4, WithinSelf
    <2> QED
      BY <1>4, <2>1
  <1>6. Recs' = Recs
    BY DEF Recs
  <1> QED
    BY <1>2, <1>3, <1>5, <1>6, TakeByte DEF device

LEMMA BeginFrameStep ==
  ASSUME Tight, RevDataWrFifo, data # <<>>, BeginFrame
  PROVE  Tight'
  <1> USE DEF RevDataWrFifo, BeginFrame
  <1>1. Types
    BY DEF Tight
  <1>2. /\ data' \in {<<>>, Tail(data)} /\ data' \in Seq(Cell)
        /\ pc' = IF data' = <<>> THEN "app" ELSE "loop"
        /\ pc' \in {"app", "cmd", "timer", "recv", "loop"}
    BY <1>1, LeftIs
  <1>3. Header = Heads(wordstate) \o <<data[1]>>
    <2>1. wordstate \in Nat /\ wordstate + 1 = 4
      BY <1>1 DEF Types, HEADNUMER
    <2>2. Heads(wordstate) \o <<F5>> = Heads(4)
      BY <2>1, HeadsAdd
    <2> QED
      BY <2>2 DEF Header, HEADNUMER
  <1>4. /\ q' \in Seq(Cell) /\ Len(q') <= REVFIFOLEN /\ offset \in 0 .. Len(q')
        /\ Recs' = Recs /\ Within(Buffered', Buffered \o <<data[1]>>)
    BY <1>1, <1>3, PushStep
  <1>5. Types'
    BY <1>1, <1>2, <1>4 DEF Types, HEADNUMER, device
  <1> QED
    BY <1>2, <1>4, <1>5, TakeByte DEF device

LEMMA NoHeadStep ==
  ASSUME Tight, RevDataWrFifo, data # <<>>, NoHead
  PROVE  Tight'
  <1> USE DEF RevDataWrFifo, NoHead
  <1>1. Types
    BY DEF Tight
  <1>2. /\ data' \in {<<>>, Tail(data)} /\ data' \in Seq(Cell)
        /\ pc' = IF data' = <<>> THEN "app" ELSE "loop"
        /\ pc' \in {"app", "cmd", "timer", "recv", "loop"}
    BY <1>1, LeftIs
  <1>3. Types'
    <2>0. running' = FALSE
      OBVIOUS
    <2>3. running' \in BOOLEAN
      BY ONLY <2>0, Zenon
    <2>1. wordstate' \in 0 .. 3 /\ 3 = HEADNUMER - 1
      BY DEF HEADNUMER
    <2>2. UNCHANGED <<wire, sent, intact, sound, q, offset, datastate, overrun, flag, dataup, up, rushed>>
      BY DEF device
    <2> QED
      BY ONLY <1>1, <1>2, <2>1, <2>2, <2>3 DEF Types
  <1>4. Raw' = Raw /\ Recs' = Recs
    BY DEF Raw, Recs
  <1>5. Within(Raw', Raw)
    BY <1>1, <1>4, Typed, WithinSelf DEF LineTypes
  <1>6. Within(Buffered', Buffered)
    BY <1>1, <1>3, <1>5, ShorterBuffer
  <1> QED
    BY <1>2, <1>3, <1>4, <1>6, TakeByte DEF device

LEMMA BreakFrameStep ==
  ASSUME Tight, RevDataWrFifo, data # <<>>, BreakFrame
  PROVE  Tight'
  <1> USE DEF RevDataWrFifo, BreakFrame, FrameRevInit
  <1>1. Types
    BY DEF Tight
  <1>2. /\ data' \in {<<>>, Tail(data)} /\ data' \in Seq(Cell)
        /\ pc' = IF data' = <<>> THEN "app" ELSE "loop"
        /\ pc' \in {"app", "cmd", "timer", "recv", "loop"}
    BY <1>1, LeftIs
  <1>3. /\ q \in Seq(Cell) /\ offset \in 0 .. Len(q) /\ Len(q) <= REVFIFOLEN /\ Len(q) \in Nat
        /\ REVFIFOLEN \in Nat
    BY <1>1, UpLinkAssumption DEF Types
  <1>4. q' = SubSeq(q, 1, offset)
    <2>1. Len(q) - (Len(q) - offset) = offset /\ Len(q) - offset \in 0 .. REVFIFOLEN
      BY <1>3
    <2>2. (Len(q) - offset) % U16 = Len(q) - offset
      BY <2>1, ModOffset
    <2> QED
      BY <2>1, <2>2 DEF DeletHead
  <1>5. /\ q' \in Seq(Cell) /\ Len(q') = offset
        /\ SubSeq(q', 1, offset) = SubSeq(q, 1, offset)
        /\ SubSeq(q', offset + 1, offset) \in Seq(Cell)
        /\ Within(SubSeq(q', offset + 1, offset), SubSeq(q, offset + 1, Len(q)))
    <2>1. offset \in offset .. Len(q)
      BY <1>3
    <2> QED
      BY <1>3, <1>4, <2>1, RawCut
  <1>6. Types'
    <2>1. Len(q') <= REVFIFOLEN /\ offset' \in 0 .. Len(q')
      BY <1>3, <1>5
    <2>0. running' = FALSE
      OBVIOUS
    <2>4. running' \in BOOLEAN
      BY ONLY <2>0, Zenon
    <2>2. /\ wordstate' \in 0 .. 3 /\ 3 = HEADNUMER - 1
          /\ datastate' \in {"REVHEAD", "REVDATA"}
      BY DEF HEADNUMER
    <2>3. UNCHANGED <<wire, sent, intact, sound, overrun, flag, dataup, up, rushed>>
      BY DEF device
    <2> QED
      BY ONLY <1>1, <1>2, <1>5, <2>1, <2>2, <2>3, <2>4 DEF Types
  <1>7. Recs' = Recs /\ Within(Raw', Raw)
    BY <1>5 DEF Recs, Raw
  <1>8. Within(Buffered', Buffered)
    BY <1>1, <1>6, <1>7, ShorterBuffer
  <1> QED
    BY <1>2, <1>6, <1>7, <1>8, TakeByte DEF device

LEMMA DataByteStep ==
  ASSUME Tight, RevDataWrFifo, data # <<>>, DataByte
  PROVE  Tight'
  <1> USE DEF RevDataWrFifo, DataByte
  <1>1. Types
    BY DEF Tight
  <1>2. /\ data' \in {<<>>, Tail(data)} /\ data' \in Seq(Cell)
        /\ pc' = IF data' = <<>> THEN "app" ELSE "loop"
        /\ pc' \in {"app", "cmd", "timer", "recv", "loop"}
    BY <1>1, LeftIs
  <1>3. /\ q' \in Seq(Cell) /\ Len(q') <= REVFIFOLEN /\ offset \in 0 .. Len(q')
        /\ Recs' = Recs /\ Within(Buffered', Buffered \o <<data[1]>>)
    BY <1>1, PushStep
  <1>4. Types'
    BY <1>1, <1>2, <1>3 DEF Types, HEADNUMER, device
  <1> QED
    BY <1>2, <1>3, <1>4, TakeByte DEF device

-----------------------------------------------------------------------------
(* A frame is complete. *)

LEMMA InputIs ==
  ASSUME NEW b \in Seq(Cell), NEW r \in Seq(Cell), Len(b) <= REVFIFOLEN
  PROVE  /\ Input(b, r) \in Seq(Cell) /\ Len(Input(b, r)) \in Len(b) .. REVFIFOLEN
         /\ Input(b, r) = b \/ Input(b, r) = b \o r
  <1>1. b \o r \in Seq(Cell) /\ Len(b \o r) = Len(b) + Len(r)
    BY ConcatProperties
  <1>2. Len(b) \in Nat /\ Len(r) \in Nat /\ REVFIFOLEN \in Nat
    BY UpLinkAssumption
  <1> QED
    BY <1>1, <1>2 DEF Input

LEMMA ConvertIs ==
  ASSUME NEW b \in Seq(Cell), NEW f \in 1 .. Frames, Len(b) <= REVFIFOLEN
  PROVE  /\ Convert(b, f) \in Seq(Cell) /\ Len(Convert(b, f)) \in Len(b) .. REVFIFOLEN
         /\ \E c \in Seq(Cell) :
              /\ c = b \/ (f \in Alarms /\ c = b \o Record("alarm", f))
              /\ Convert(b, f) = c \/ Convert(b, f) = c \o Record("state", f)
  <1>1. Record("alarm", f) \in Seq(Cell) /\ Record("state", f) \in Seq(Cell)
    BY RecordIs
  <1> DEFINE c == IF f \in Alarms THEN Input(b, Record("alarm", f)) ELSE b
  <1>2. /\ c \in Seq(Cell) /\ Len(c) \in Len(b) .. REVFIFOLEN
        /\ c = b \/ (f \in Alarms /\ c = b \o Record("alarm", f))
    <2>1. CASE f \in Alarms
      BY <1>1, <2>1, InputIs
    <2>2. CASE f \notin Alarms
      BY UpLinkAssumption, <2>2
    <2> QED
      BY <2>1, <2>2
  <1>3. Convert(b, f) = Input(c, Record("state", f))
    BY DEF Convert
  <1> HIDE DEF c
  <1>4. /\ Convert(b, f) \in Seq(Cell) /\ Len(Convert(b, f)) \in Len(c) .. REVFIFOLEN
        /\ Convert(b, f) = c \/ Convert(b, f) = c \o Record("state", f)
    BY <1>1, <1>2, <1>3, InputIs
  <1>5. Len(Convert(b, f)) \in Len(b) .. REVFIFOLEN
    BY <1>2, <1>4
  <1> QED
    BY <1>2, <1>4, <1>5

\* The records of a frame later than all that are there.
LEMMA ConvertRecs ==
  ASSUME NEW S \in SUBSET (1 .. Frames), NEW b \in Seq(Cell), Len(b) <= REVFIFOLEN,
         RecsOK(b, S), NEW f \in S, \A j \in 1 .. Len(b) : b[j].f < f
  PROVE  /\ RecsOK(Convert(b, f), S)
         /\ \A j \in 1 .. Len(Convert(b, f)) :
              \/ \E i \in 1 .. Len(b) : Convert(b, f)[j] = b[i]
              \/ Convert(b, f)[j].f = f
  <1>1. /\ Record("alarm", f) \in Seq(Cell) /\ Record("state", f) \in Seq(Cell)
        /\ \A j \in 1 .. Len(Record("alarm", f)) :
             Record("alarm", f)[j].f = f /\ Record("alarm", f)[j].k = "alarm"
        /\ \A j \in 1 .. Len(Record("state", f)) : Record("state", f)[j].f = f
    <2>1. ASSUME NEW k \in {"alarm", "state"}
          PROVE  /\ Record(k, f) \in Seq(Cell)
                 /\ \A j \in 1 .. Len(Record(k, f)) : Record(k, f)[j].f = f /\ Record(k, f)[j].k = k
      <3>1. /\ Record(k, f) \in Seq(Cell) /\ Len(Record(k, f)) = RecordLen(k)
            /\ \A i \in 1 .. RecordLen(k) : Record(k, f)[i] = [k |-> k, f |-> f, i |-> i]
        BY RecordIs
      <3> QED
        BY <3>1
    <2> QED
      BY <2>1
  <1>2. PICK c \in Seq(Cell) :
          /\ c = b \/ (f \in Alarms /\ c = b \o Record("alarm", f))
          /\ Convert(b, f) = c \/ Convert(b, f) = c \o Record("state", f)
    BY ConvertIs
  <1>3. /\ RecsOK(c, S)
        /\ \A j \in 1 .. Len(c) :
             \/ \E i \in 1 .. Len(b) : c[j] = b[i]
             \/ c[j].f = f /\ c[j].k = "alarm"
    <2>1. CASE c = b
      BY <2>1
    <2>2. CASE f \in Alarms /\ c = b \o Record("alarm", f)
      <3>1. \A j \in 1 .. Len(b) : Before(b[j], [k |-> "alarm", f |-> f, i |-> 1])
        BY DEF Before
      <3>2. RecsOK(c, S)
        BY <2>2, <3>1, RecsAdd
      <3> DEFINE r == Record("alarm", f)
      <3>3. /\ r \in Seq(Cell)
            /\ \A j \in 1 .. Len(r) : r[j].f = f /\ r[j].k = "alarm"
        BY <1>1
      <3>4. c = b \o r
        BY <2>2
      <3> HIDE DEF r
      <3>5. /\ Len(c) = Len(b) + Len(r) /\ Len(b) \in Nat /\ Len(r) \in Nat
            /\ \A j \in 1 .. Len(b) + Len(r) : c[j] = IF j <= Len(b) THEN b[j] ELSE r[j - Len(b)]
        BY <3>3, <3>4, ConcatProperties
      <3>6. ASSUME NEW j \in 1 .. Len(c)
            PROVE  (\E i \in 1 .. Len(b) : c[j] = b[i]) \/ (c[j].f = f /\ c[j].k = "alarm")
        <4>1. CASE j <= Len(b)
          BY <3>5, <4>1
        <4>2. CASE ~(j <= Len(b))
          <5>1. j - Len(b) \in 1 .. Len(r) /\ c[j] = r[j - Len(b)]
            BY <3>5, <4>2
          <5> QED
            BY <3>3, <5>1
        <4> QED
          BY <4>1, <4>2
      <3> QED
        BY <3>2, <3>6
    <2> QED
      BY <1>2, <2>1, <2>2
  <1> DEFINE d == Convert(b, f)
  <1>4. d = c \/ d = c \o Record("state", f)
    BY <1>2
  <1> HIDE DEF d
  <1>5. CASE d = c
    BY <1>3, <1>5 DEF d
  <1>6. CASE d = c \o Record("state", f)
    <2>1. \A j \in 1 .. Len(c) : Before(c[j], [k |-> "state", f |-> f, i |-> 1])
      BY <1>3 DEF Before
    <2>2. RecsOK(d, S)
      BY <1>3, <1>6, <2>1, RecsAdd
    <2> DEFINE r == Record("state", f)
    <2>3. r \in Seq(Cell) /\ \A j \in 1 .. Len(r) : r[j].f = f
      BY <1>1
    <2>4. d = c \o r
      BY <1>6
    <2> HIDE DEF r
    <2>5. /\ Len(d) = Len(c) + Len(r) /\ Len(c) \in Nat /\ Len(r) \in Nat
          /\ \A j \in 1 .. Len(c) + Len(r) : d[j] = IF j <= Len(c) THEN c[j] ELSE r[j - Len(c)]
      BY <2>3, <2>4, ConcatProperties
    <2>6. ASSUME NEW j \in 1 .. Len(d)
          PROVE  (\E i \in 1 .. Len(b) : d[j] = b[i]) \/ d[j].f = f
      <3>1. CASE j <= Len(c)
        BY <1>3, <2>5, <3>1
      <3>2. CASE ~(j <= Len(c))
        <4>1. j - Len(c) \in 1 .. Len(r) /\ d[j] = r[j - Len(c)]
          BY <2>5, <3>2
        <4> QED
          BY <2>3, <4>1
      <3> QED
        BY <3>1, <3>2
    <2> QED
      BY <2>2, <2>6 DEF d
  <1> QED
    BY <1>4, <1>5, <1>6

LEMMA EmptiedIs ==
  ASSUME Types
  PROVE  /\ Len(q) - templen \in offset .. Len(q)
         /\ Emptied = SubSeq(q, 1, Len(q) - templen)
         /\ Emptied \in Seq(Cell) /\ Len(Emptied) = Len(q) - templen
         /\ SubSeq(Emptied, 1, offset) = Recs
         /\ SubSeq(Emptied, offset + 1, Len(Emptied)) \in Seq(Cell)
         /\ Within(SubSeq(Emptied, offset + 1, Len(Emptied)), Raw)
  <1>1. q \in Seq(Cell) /\ offset \in 0 .. Len(q) /\ Len(q) \in Nat /\ offset \in Nat
    BY DEF Types
  <1>2. Len(q) - offset \in Nat
    BY <1>1
  <1>3. templen \in 0 .. Len(q) - offset
    BY <1>2, ModBelow DEF templen
  <1>4. Len(q) - templen \in offset .. Len(q)
    BY <1>1, <1>3
  <1> DEFINE n == Len(q) - templen
  <1>5. Emptied = SubSeq(q, 1, n)
    BY DEF Emptied, DeletHead
  <1>6. n \in offset .. Len(q)
    BY <1>4
  <1> HIDE DEF n
  <1>7. /\ SubSeq(q, 1, n) \in Seq(Cell) /\ Len(SubSeq(q, 1, n)) = n
        /\ SubSeq(SubSeq(q, 1, n), 1, offset) = SubSeq(q, 1, offset)
        /\ SubSeq(SubSeq(q, 1, n), offset + 1, n) \in Seq(Cell)
        /\ Within(SubSeq(SubSeq(q, 1, n), offset + 1, n), SubSeq(q, offset + 1, Len(q)))
    BY <1>1, <1>6, RawCut
  <1>8. /\ Emptied \in Seq(Cell) /\ Len(Emptied) = n
        /\ SubSeq(Emptied, 1, offset) = Recs
        /\ SubSeq(Emptied, offset + 1, Len(Emptied)) \in Seq(Cell)
        /\ Within(SubSeq(Emptied, offset + 1, Len(Emptied)), Raw)
    BY <1>5, <1>7 DEF Recs, Raw
  <1> QED
    BY <1>4, <1>5, <1>8 DEF n

LEMMA FrameTypes ==
  ASSUME Types, FrameDataHandle
  PROVE  /\ q' \in Seq(Cell) /\ Len(q') <= REVFIFOLEN /\ offset' \in 0 .. Len(q')
         /\ datastate' \in {"REVHEAD", "REVDATA"} /\ wordstate' = 0
         /\ overrun' \in BOOLEAN /\ (overrun => overrun')
  <1>1. /\ q \in Seq(Cell) /\ offset \in Nat /\ Len(q) \in Nat /\ Len(q) <= REVFIFOLEN
        /\ REVFIFOLEN \in Nat /\ overrun \in BOOLEAN
    BY UpLinkAssumption DEF Types
  <1>2. Len(q) - templen \in offset .. Len(q) /\ Emptied \in Seq(Cell) /\ Len(Emptied) = Len(q) - templen
    BY EmptiedIs
  <1>3. Len(Emptied) \in Nat /\ offset <= Len(Emptied) /\ Len(Emptied) <= REVFIFOLEN
    <2>1. Len(Emptied) \in offset .. Len(q)
      BY <1>2
    <2> QED
      BY ONLY <1>1, <2>1
  <1>4. datastate' \in {"REVHEAD", "REVDATA"} /\ wordstate' = 0
    BY DEF FrameDataHandle, FrameRevInit
  <1>5. CASE Refuse
    <2>1. q' = Emptied /\ offset' = offset /\ overrun' = overrun
      BY <1>5 DEF Refuse
    <2> QED
      BY <1>1, <1>2, <1>3, <1>4, <2>1
  <1>6. CASE Accept
    <2>1. PICK f \in Good :
            /\ q' = Convert(Emptied, f)
            /\ offset' = (offset + (Len(q') - Len(Emptied))) % U16
            /\ overrun' = (overrun \/ Len(q) - offset >= U8)
      BY <1>6 DEF Accept
    <2>2. f \in 1 .. Frames
      BY DEF Good
    <2>3. q' \in Seq(Cell) /\ Len(q') \in Len(Emptied) .. REVFIFOLEN
      BY <1>2, <1>3, <2>1, <2>2, ConvertIs
    <2>4. offset' \in 0 .. Len(q') /\ Len(q') <= REVFIFOLEN
      <3>1. Len(q') \in Len(Emptied) .. REVFIFOLEN /\ Len(q') \in Nat
        BY <2>3
      <3>2. offset + (Len(q') - Len(Emptied)) \in 0 .. REVFIFOLEN
        BY ONLY <1>1, <1>3, <3>1
      <3>3. offset' = offset + (Len(q') - Len(Emptied))
        BY <2>1, <3>2, ModOffset
      <3> QED
        BY ONLY <1>1, <1>3, <3>1, <3>3
    <2>5. overrun' \in BOOLEAN /\ (overrun => overrun')
      <3>1. overrun' = (overrun \/ Len(q) - offset >= U8)
        BY <2>1
      <3> QED
        BY ONLY <3>1, Zenon
    <2> QED
      BY <1>4, <2>3, <2>4, <2>5
  <1> QED
    BY <1>5, <1>6 DEF FrameDataHandle

LEMMA RefuseKeeps ==
  ASSUME Types, Refuse
  PROVE  Recs' = Recs /\ Within(Raw', Raw)
  BY EmptiedIs DEF Refuse, Recs, Raw

\* All raw bytes are the frame.
LEMMA AcceptIs ==
  ASSUME Types, Accept, ~overrun'
  PROVE  \E f \in 1 .. Frames :
           Raw = Frame(f) /\ Recs' = Convert(Recs, f) /\ Raw' = <<>>
  <1>1. PICK f \in Good :
          /\ q' = Convert(Emptied, f)
          /\ offset' = (offset + (Len(q') - Len(Emptied))) % U16
          /\ overrun' = (overrun \/ Len(q) - offset >= U8)
    BY DEF Accept
  <1>2. /\ q \in Seq(Cell) /\ offset \in Nat /\ Len(q) \in Nat /\ offset <= Len(q)
        /\ U8 \in Nat /\ Len(q) <= REVFIFOLEN /\ REVFIFOLEN \in Nat
    BY UpLinkAssumption DEF Types
  <1>3. ~(Len(q) - offset >= U8)
    BY <1>1
  <1>4. templen = Len(q) - offset
    <2>1. Len(q) - offset \in Nat /\ Len(q) - offset < U8
      BY <1>2, <1>3
    <2> QED
      BY <2>1, ModBelow DEF templen
  <1>5. f \in 1 .. Frames /\ Raw = Frame(f)
    <2>1. offset + templen = Len(q)
      BY <1>2, <1>4
    <2> QED
      BY <2>1 DEF Good, Raw
  <1>6. Emptied = Recs /\ Recs \in Seq(Cell) /\ Len(Recs) = offset
    <2>1. Len(q) - templen = offset
      BY <1>2, <1>4
    <2>2. Emptied = SubSeq(q, 1, offset)
      BY <2>1, EmptiedIs
    <2> QED
      BY <2>2, Typed DEF Recs, LineTypes
  <1>7. q' \in Seq(Cell) /\ Len(q') \in offset .. REVFIFOLEN
    <2>1. Len(Recs) <= REVFIFOLEN
      BY <1>2, <1>6
    <2> QED
      BY <1>1, <1>5, <1>6, <2>1, ConvertIs
  <1>8. offset' = Len(q') /\ Len(q') \in Nat
    <2>1. Len(q') \in Nat /\ Len(Emptied) = offset
      BY <1>6, <1>7
    <2>2. offset + (Len(q') - Len(Emptied)) = Len(q') /\ Len(q') \in 0 .. REVFIFOLEN
      BY <1>2, <1>7, <2>1
    <2> QED
      BY <1>1, <2>1, <2>2, ModOffset
  <1>9. Recs' = q'
    <2> DEFINE c == q'
               n == offset'
    <2>1. c \in Seq(Cell) /\ n = Len(c) /\ n \in 0 .. Len(c)
      BY <1>7, <1>8
    <2> HIDE DEF c, n
    <2>2. SubSeq(c, 1, n) = c
      <3>1. /\ SubSeq(c, 1, n) \in Seq(Cell) /\ Len(SubSeq(c, 1, n)) = n
            /\ \A j \in 1 .. n : SubSeq(c, 1, n)[j] = c[j]
        BY <2>1, StartOf
      <3> QED
        BY <2>1, <3>1, SeqEqual
    <2> QED
      BY <2>2 DEF Recs, c, n
  <1>10. Raw' = <<>>
    <2>1. /\ Raw' \in Seq(Cell) /\ Len(Raw') = 0
      <3>1. offset' \in 0 .. Len(q') /\ Len(q') - offset' = 0
        BY <1>8
      <3> QED
        BY <1>7, <3>1, PartOf DEF Raw
    <2> QED
      BY <2>1, EmptySeq
  <1> QED
    BY <1>1, <1>5, <1>6, <1>9, <1>10

\* The frame that is converted was sent sound, comes after everything already
\* converted, and before every byte still on the line.
LEMMA AcceptStep ==
  ASSUME Types, Types', QueueOK, HandedOK, Given' = Given, sent' = sent, sound' = sound,
         Accept, ~overrun', wordstate' = 0, Within(data' \o wire', data \o wire)
  PROVE  QueueOK'
  <1>1. PICK f \in 1 .. Frames :
           Raw = Frame(f) /\ Recs' = Convert(Recs, f) /\ Raw' = <<>>
    BY AcceptIs
  <1>2. /\ Recs \in Seq(Cell) /\ Len(Recs) <= REVFIFOLEN /\ Raw \in Seq(Cell)
        /\ data \o wire \in Seq(Cell) /\ Buffered \in Seq(Cell) /\ Line \in Seq(Cell)
        /\ Heads(wordstate) \in Seq(Cell) /\ sound \in SUBSET (1 .. Frames) /\ sent \in Nat
    <2>1. LineTypes /\ offset \in Nat /\ Len(q) \in Nat /\ offset <= Len(q) /\ Len(q) <= REVFIFOLEN
          /\ REVFIFOLEN \in Nat
      BY Typed, UpLinkAssumption DEF Types
    <2> QED
      BY <2>1 DEF LineTypes
  <1>3. Line' \in Seq(Cell) /\ data' \o wire' \in Seq(Cell)
    BY TypedNext DEF LineTypes
  <1>4. Line' = data' \o wire'
    <2>1. Within(Raw', Raw)
      BY <1>1, <1>2, WithinEmpty
    <2>2. Buffered' = <<>>
      BY <1>1, <2>1, ShorterBuffer
    <2> QED
      BY <1>3, <2>2, EmptyAround DEF Line
  <1> DEFINE fr == Frame(f)
             rest == Line'
             z == fr \o rest
  <1>5. /\ fr \in Seq(Cell) /\ Len(fr) = 8
        /\ fr[5] = Byte(f, 1) /\ fr[6] = F5 /\ fr[7] = X55 /\ fr[8] = Byte(f, 2)
    BY FrameIs
  <1>6. fr = Raw /\ rest = Line'
    BY <1>1
  <1>7. rest \in Seq(Cell) /\ Len(rest) \in Nat
    BY <1>3
  <1> HIDE DEF fr, rest
  <1>8. /\ z \in Seq(Cell) /\ Len(z) = 8 + Len(rest)
        /\ \A i \in 1 .. 8 + Len(rest) : z[i] = IF i <= 8 THEN fr[i] ELSE rest[i - 8]
    <2>1. /\ z \in Seq(Cell) /\ Len(z) = Len(fr) + Len(rest)
          /\ \A i \in 1 .. Len(fr) + Len(rest) : z[i] = IF i <= Len(fr) THEN fr[i] ELSE rest[i - Len(fr)]
      BY <1>5, <1>7, ConcatProperties
    <2> QED
      BY <1>5, <2>1
  <1>9. Within(z, Line)
    <2>1. Within(fr, Buffered)
      BY <1>2, <1>6, WithinLonger DEF Buffered
    <2>2. Within(rest, data \o wire)
      BY <1>4, <1>6
    <2> QED
      BY <1>2, <1>5, <1>7, <2>1, <2>2, WithinBoth DEF Line
  <1> HIDE DEF z
  <1>10. /\ LineOK(z, sent, sound)
         /\ \A i \in 1 .. Len(z) : \E j \in 1 .. Len(Line) : z[i] = Line[j]
    <2>1. LineOK(Line, sent, sound)
      BY DEF QueueOK
    <2>2. z \in Seq(Cell) /\ Line \in Seq(Cell) /\ sent \in Int
      BY <1>2, <1>8
    <2> QED
      BY ONLY <1>9, <2>1, <2>2, LineWithin
  <1>11. /\ 5 \in 1 .. Len(z) /\ 6 \in 1 .. Len(z) /\ 7 \in 1 .. Len(z) /\ 8 \in 1 .. Len(z)
         /\ z[5] = Byte(f, 1) /\ z[6] = F5 /\ z[7] = X55 /\ z[8] = Byte(f, 2)
    <2>1. \A i \in 5 .. 8 : i \in 1 .. 8 + Len(rest) /\ i <= 8
      BY <1>7
    <2>2. \A i \in 5 .. 8 : i \in 1 .. Len(z) /\ z[i] = fr[i]
      BY <1>8, <2>1
    <2>3. 5 \in 5 .. 8 /\ 6 \in 5 .. 8 /\ 7 \in 5 .. 8 /\ 8 \in 5 .. 8
      OBVIOUS
    <2> QED
      BY ONLY <1>5, <2>2, <2>3
  <1>12. /\ IsByte(z[5]) /\ IsByte(z[8]) /\ z[5].f = f /\ z[8].f = f /\ z[8].i = 2
    BY <1>11 DEF Byte, IsByte
  <1>13. f \in sound
    <2>1. Whole(z, 5, 6, 7, 8)
      BY <1>11, <1>12 DEF Whole
    <2> QED
      BY <1>10, <1>11, <1>12, <2>1 DEF LineOK, Genuine
  <1>14. /\ \A j \in 1 .. Len(Recs) : Recs[j].f < f
         /\ \A c \in Given : c.f < f
    <2>1. PICK l \in 1 .. Len(Line) : z[5] = Line[l]
      BY <1>10, <1>11
    <2> QED
      BY <1>12, <2>1 DEF QueueOK, Behind
  <1>15. /\ RecsOK(Recs', sound)
         /\ \A j \in 1 .. Len(Recs') :
              (\E i \in 1 .. Len(Recs) : Recs'[j] = Recs[i]) \/ Recs'[j].f = f
    BY <1>1, <1>2, <1>13, <1>14, ConvertRecs DEF QueueOK
  <1>16. ASSUME NEW l \in 1 .. Len(rest)
         PROVE  /\ \E j \in 1 .. Len(Line) : rest[l] = Line[j]
                /\ IsByte(rest[l]) => f < rest[l].f
    <2>1. 8 + l \in 1 .. Len(z) /\ z[8 + l] = rest[l] /\ 8 < 8 + l
      <3>1. 8 + l \in 1 .. 8 + Len(rest) /\ ~(8 + l <= 8) /\ (8 + l) - 8 = l
        BY <1>7
      <3>2. z[8 + l] = rest[(8 + l) - 8]
        BY <1>8, <3>1
      <3> QED
        BY <1>8, <3>1, <3>2
    <2>2. ASSUME IsByte(rest[l]) PROVE f < rest[l].f
      <3>1. z[8].f < z[8 + l].f \/ (z[8].f = z[8 + l].f /\ z[8].i < z[8 + l].i)
        BY <1>10, <1>11, <1>12, <2>1, <2>2 DEF LineOK, Rising
      <3>2. z[8 + l].i \in 1 .. 2
        BY <1>10, <2>1, <2>2 DEF LineOK, UpTo
      <3> QED
        BY <1>12, <2>1, <3>1, <3>2
    <2> QED
      BY <1>10, <2>1, <2>2
  <1>17. LineOK(Line', sent, sound)
    <2>1. Within(rest, z)
      BY <1>5, <1>7, WithinLonger DEF z
    <2> QED
      BY <1>2, <1>6, <1>7, <1>8, <1>10, <2>1, LineWithin
  <1>18. Behind'
    <2>1. ASSUME NEW c \in Given, NEW j \in 1 .. Len(Recs')
          PROVE  Before(c, Recs'[j])
      <3>1. CASE \E i \in 1 .. Len(Recs) : Recs'[j] = Recs[i]
        BY <3>1 DEF QueueOK, Behind
      <3>2. CASE Recs'[j].f = f
        BY <1>14, <3>2 DEF Before
      <3> QED
        BY <1>15, <3>1, <3>2
    <2>2. ASSUME NEW l \in 1 .. Len(rest), IsByte(rest[l])
          PROVE  /\ \A j \in 1 .. Len(Recs') : Recs'[j].f < rest[l].f
                 /\ \A c \in Given : c.f < rest[l].f
      <3>1. PICK i \in 1 .. Len(Line) : rest[l] = Line[i]
        BY <1>16
      <3>2. /\ \A j \in 1 .. Len(Recs) : Recs[j].f < rest[l].f
            /\ \A c \in Given : c.f < rest[l].f
        BY <2>2, <3>1 DEF QueueOK, Behind
      <3> QED
        BY <1>15, <1>16, <2>2, <3>2
    <2>3. \A c \in Given', j \in 1 .. Len(Recs') : Before(c, Recs'[j])
      BY <2>1
    <2>4. \A l \in 1 .. Len(Line') : IsByte(Line'[l]) =>
            /\ \A j \in 1 .. Len(Recs') : Recs'[j].f < Line'[l].f
            /\ \A c \in Given' : c.f < Line'[l].f
      BY <1>6, <2>2
    <2> QED
      BY <2>3, <2>4 DEF Behind, Before, IsByte
  <1> QED
    BY <1>15, <1>17, <1>18 DEF QueueOK

LEMMA FrameDone ==
  ASSUME Tight, Types', FrameDataHandle, UNCHANGED <<sent, sound, dataup, up>>,
         Within(data' \o wire', data \o wire)
  PROVE  HandedOK' /\ (overrun' \/ QueueOK')
  <1>1. Types /\ HandedOK' /\ Given' = Given /\ HandedOK
    BY HandedSame DEF Tight
  <1>2. wordstate' = 0 /\ (overrun => overrun')
    BY <1>1, FrameTypes
  <1>3. ASSUME ~overrun' PROVE QueueOK'
    <2>1. QueueOK
      BY <1>2, <1>3 DEF Tight, QueueOK
    <2>2. CASE Refuse
      <3>1. Recs' = Recs /\ Within(Raw', Raw)
        BY <1>1, <2>2, RefuseKeeps
      <3>2. Within(Line', Line)
        BY <1>1, <1>2, <3>1, ShorterBuffer, LineStep
      <3> QED
        BY <1>1, <2>1, <3>1, <3>2, LeftOut
    <2>3. CASE Accept
      BY <1>1, <1>2, <1>3, <2>1, <2>3, AcceptStep
    <2> QED
      BY <2>2, <2>3 DEF FrameDataHandle
  <1> QED
    BY <1>1, <1>3

LEMMA EndFrameStep ==
  ASSUME Tight, RevDataWrFifo, data # <<>>, EndFrame
  PROVE  Tight'
  <1> USE DEF RevDataWrFifo, EndFrame
  <1>1. Types
    BY DEF Tight
  <1>2. /\ data' \in {<<>>, Tail(data)} /\ data' \in Seq(Cell)
        /\ pc' = IF data' = <<>> THEN "app" ELSE "loop"
        /\ pc' \in {"app", "cmd", "timer", "recv", "loop"}
    BY <1>1, LeftIs
  <1>3. /\ q' \in Seq(Cell) /\ Len(q') <= REVFIFOLEN /\ offset' \in 0 .. Len(q')
        /\ datastate' \in {"REVHEAD", "REVDATA"} /\ wordstate' = 0
        /\ overrun' \in BOOLEAN
    BY <1>1, FrameTypes
  <1>4. UNCHANGED <<wire, sent, intact, sound, running, flag, dataup, up, rushed>>
    BY DEF device
  <1>5. Types'
    <2>1. wordstate' \in 0 .. HEADNUMER - 1
      BY <1>3 DEF HEADNUMER
    <2> QED
      BY ONLY <1>1, <1>2, <1>3, <1>4, <2>1 DEF Types
  <1>6. Between'
    BY <1>2 DEF Between
  <1>7. Within(data' \o wire', data \o wire)
    BY <1>1, <1>2, <1>4, RestOf
  <1>8. HandedOK' /\ (overrun' \/ QueueOK')
    BY <1>4, <1>5, <1>7, FrameDone
  <1> QED
    BY <1>5, <1>6, <1>8 DEF Tight, QueueOK

LEMMA RevTimerHandleStep ==
  ASSUME Tight, RevTimerHandle
  PROVE  Tight'
  <1> USE DEF RevTimerHandle, device
  <1>1. Types
    BY DEF Tight
  <1>2. Between'
    BY DEF Tight, Between
  <1>3. CASE flag
    <2>1. FrameDataHandle /\ running' = FALSE /\ flag' = FALSE
      BY <1>3
    <2>2. /\ q' \in Seq(Cell) /\ Len(q') <= REVFIFOLEN /\ offset' \in 0 .. Len(q')
          /\ datastate' \in {"REVHEAD", "REVDATA"} /\ wordstate' = 0
          /\ overrun' \in BOOLEAN
      BY <1>1, <2>1, FrameTypes
    <2>3. UNCHANGED <<wire, data, sent, intact, sound, dataup, up, rushed>>
      OBVIOUS
    <2>4. Types'
      <3>1. wordstate' \in 0 .. HEADNUMER - 1
        BY <2>2 DEF HEADNUMER
      <3>2. running' \in BOOLEAN /\ flag' \in BOOLEAN
        BY ONLY <2>1, Zenon
      <3>3. pc' \in {"app", "cmd", "timer", "recv", "loop"}
        OBVIOUS
      <3> QED
        BY ONLY <1>1, <2>2, <2>3, <3>1, <3>2, <3>3 DEF Types
    <2>5. Within(data' \o wire', data \o wire)
      <3>1. data \o wire \in Seq(Cell)
        BY <1>1, Typed DEF LineTypes
      <3> QED
        BY <2>3, <3>1, WithinSelf
    <2>6. HandedOK' /\ (overrun' \/ QueueOK')
      BY <2>1, <2>3, <2>4, <2>5, FrameDone
    <2> QED
      BY <1>2, <2>4, <2>6 DEF Tight, QueueOK
  <1>4. CASE ~flag
    <2>1. UNCHANGED <<q, offset, datastate, wordstate, overrun, running, device, data, dataup, up, rushed>>
      BY <1>4 DEF parser
    <2>2. Types'
      <3>1. flag' = FALSE /\ pc' \in {"app", "cmd", "timer", "recv", "loop"}
        OBVIOUS
      <3>2. flag' \in BOOLEAN
        BY ONLY <3>1, Zenon
      <3>3. UNCHANGED <<wire, sent, intact, sound>>
        BY <2>1
      <3> QED
        BY ONLY <1>1, <2>1, <3>1, <3>2, <3>3 DEF Types
    <2>3. HandedOK' /\ Given' = Given
      BY <2>1, HandedSame DEF Tight
    <2>4. ASSUME ~overrun PROVE QueueOK'
      BY <2>1, <2>2, <2>3, <2>4, Still, LeftOut DEF Tight, QueueOK
    <2> QED
      BY <1>2, <2>1, <2>2, <2>3, <2>4 DEF Tight, QueueOK
  <1> QED
    BY <1>3, <1>4

-----------------------------------------------------------------------------
(* A record is handed up; a frame is sent. *)

\* Before an overrun a record begins at the head of the buffer, and it is whole.
LEMMA RecordAtHead ==
  ASSUME Types, QueueOK, offset # 0
  PROVE  /\ AtRecord
         /\ Len(Record(q[1].k, q[1].f)) \in 1 .. offset
         /\ (offset - Len(Record(q[1].k, q[1].f))) % U16 = offset - Len(Record(q[1].k, q[1].f))
  <1> DEFINE n == Len(Record(q[1].k, q[1].f))
  <1>1. /\ q \in Seq(Cell) /\ offset \in 1 .. Len(q) /\ Len(q) \in Nat /\ Len(q) <= REVFIFOLEN
        /\ REVFIFOLEN \in Nat /\ sound \in SUBSET (1 .. Frames)
    BY UpLinkAssumption DEF Types
  <1>2. Recs \in Seq(Cell) /\ Len(Recs) = offset /\ Recs[1] = q[1] /\ RecsOK(Recs, sound)
    <2>1. offset \in 0 .. Len(q) /\ 1 \in 1 .. offset
      BY <1>1
    <2> QED
      BY <1>1, <2>1, StartOf DEF Recs, QueueOK
  <1>3. 1 \in 1 .. Len(Recs) /\ Len(Recs) > 0 /\ q # <<>>
    BY <1>1, <1>2
  <1>4. AtRecord
    BY <1>2, <1>3 DEF AtRecord, RecsOK, Known
  <1>5. n \in 1 .. offset
    BY <1>1, <1>2, <1>3, RecsTake
  <1> HIDE DEF n
  <1>6. offset - n \in 0 .. REVFIFOLEN
    BY <1>1, <1>5
  <1>7. (offset - n) % U16 = offset - n
    BY <1>6, ModOffset
  <1> QED
    BY <1>4, <1>5, <1>7 DEF n

LEMMA RevCmdHandleStep ==
  ASSUME Tight, ~overrun, RevCmdHandle
  PROVE  Tight'
  <1>1. Types /\ HandedOK /\ ~overrun /\ QueueOK /\ ~overrun'
    BY DEF Tight, QueueOK, RevCmdHandle
  <1>0. ASSUME ~(offset = 0 \/ dataup # NULL)
        PROVE  /\ q' = SubSeq(q, Len(Record(q[1].k, q[1].f)) + 1, Len(q))
               /\ offset' = offset - Len(Record(q[1].k, q[1].f))
               /\ dataup' = q[1] /\ dataup = NULL /\ pc' = "timer"
    <2>1. /\ AtRecord
          /\ (offset - Len(Record(q[1].k, q[1].f))) % U16 = offset - Len(Record(q[1].k, q[1].f))
      BY <1>0, <1>1, RecordAtHead
    <2>2. TakeRecord
      BY <1>0, <2>1 DEF RevCmdHandle, TakeAny
    <2> QED
      BY <1>0, <2>1, <2>2 DEF TakeRecord, TakeOff
  <1>2. UNCHANGED <<wire, sent, intact, sound, data, datastate, wordstate, overrun,
                    running, flag, up, rushed>>
    BY DEF RevCmdHandle, device, timer
  <1>3. pc' = "timer" /\ pc' \in {"app", "cmd", "timer", "recv", "loop"}
    BY <1>0 DEF RevCmdHandle
  <1>4. Between'
    BY <1>2, <1>3 DEF Tight, Between, RevCmdHandle
  <1>5. CASE offset = 0 \/ dataup # NULL
    <2>1. UNCHANGED <<q, offset, dataup>>
      BY <1>5 DEF RevCmdHandle
    <2>2. Types'
      BY ONLY <1>1, <1>2, <1>3, <2>1 DEF Types
    <2>3. HandedOK' /\ Given' = Given
      BY <1>1, <1>2, <2>1, HandedSame
    <2>4. QueueOK'
      BY <1>1, <1>2, <2>1, <2>2, <2>3, Still, LeftOut
    <2> QED
      BY <1>4, <2>2, <2>3, <2>4 DEF Tight, QueueOK
  <1>6. CASE ~(offset = 0 \/ dataup # NULL)
    <2> DEFINE n == Len(Record(q[1].k, q[1].f))
    <2>1. q' = SubSeq(q, n + 1, Len(q)) /\ offset' = offset - n /\ dataup' = q[1] /\ dataup = NULL
      BY <1>0, <1>6
    <2>2. /\ q \in Seq(Cell) /\ offset \in 1 .. Len(q) /\ Len(q) \in Nat /\ Len(q) <= REVFIFOLEN
          /\ REVFIFOLEN \in Nat /\ sound \in SUBSET (1 .. Frames)
      BY <1>1, <1>6, UpLinkAssumption DEF Types
    <2>3. Recs \in Seq(Cell) /\ Len(Recs) = offset /\ Recs[1] = q[1] /\ RecsOK(Recs, sound)
      <3>1. offset \in 0 .. Len(q) /\ 1 \in 1 .. offset
        BY <2>2
      <3> QED
        BY <1>1, <2>2, <3>1, StartOf DEF Recs, QueueOK
    <2>4. n = Len(Record(Recs[1].k, Recs[1].f))
      BY <2>3
    <2> HIDE DEF n
    <2>5. /\ n \in 1 .. Len(Recs)
          /\ RecsOK(SubSeq(Recs, n + 1, Len(Recs)), sound)
          /\ \A j \in n + 1 .. Len(Recs) : Before(Recs[1], Recs[j])
      <3>1. Len(Recs) > 0
        BY <2>2, <2>3
      <3> QED
        BY <2>2, <2>3, <2>4, <3>1, RecsTake
    <2>6. n \in 1 .. offset /\ offset \in Nat
      BY <2>2, <2>3, <2>5
    <2>7. /\ q' \in Seq(Cell) /\ Len(q') = Len(q) - n
          /\ Recs' = SubSeq(Recs, n + 1, Len(Recs)) /\ Raw' = Raw
      <3>1. n \in 0 .. offset /\ offset \in 0 .. Len(q)
        BY <2>2, <2>6
      <3>2. /\ SubSeq(q, n + 1, Len(q)) \in Seq(Cell) /\ Len(SubSeq(q, n + 1, Len(q))) = Len(q) - n
            /\ SubSeq(SubSeq(q, n + 1, Len(q)), 1, offset - n) = SubSeq(SubSeq(q, 1, offset), n + 1, offset)
            /\ SubSeq(SubSeq(q, n + 1, Len(q)), (offset - n) + 1, Len(q) - n) = SubSeq(q, offset + 1, Len(q))
        BY <2>2, <3>1, RawStays
      <3> QED
        BY <2>1, <2>3, <3>2 DEF Recs, Raw
    <2>8. q[1] \in Cell /\ Known(q[1], sound) /\ q[1] # NULL
      <3>1. 1 \in 1 .. Len(q) /\ 1 \in 1 .. Len(Recs)
        BY <2>2, <2>3
      <3>2. Known(Recs[1], sound)
        BY <2>3, <3>1 DEF RecsOK
      <3>3. q[1] \in Cell
        BY <2>2, <3>1, ElementOfSeq
      <3> QED
        BY <2>3, <3>2, <3>3 DEF Known, IsRecord, NULL
    <2>9. Types'
      <3>1. Len(q') <= REVFIFOLEN /\ offset' \in 0 .. Len(q')
        BY <2>1, <2>2, <2>6, <2>7
      <3>2. dataup' \in Cell
        BY <2>1, <2>8
      <3> QED
        BY ONLY <1>1, <1>2, <1>3, <2>7, <3>1, <3>2 DEF Types
    <2>10. Given' = Given \cup {q[1]}
      BY <1>2, <2>1, <2>8 DEF Given
    <2>11. \A c \in Given, j \in 1 .. Len(Recs) : Before(c, Recs[j])
      BY <1>1 DEF QueueOK, Behind
    <2>12. HandedOK'
      <3>1. \A j \in 1 .. Len(up) : Before(up[j], q[1])
        <4>1. 1 \in 1 .. Len(Recs)
          BY <2>2, <2>3
        <4> QED
          BY <2>3, <2>11, <4>1 DEF Given
      <3>2. \A c \in Given' : Known(c, sound)
        BY <1>1, <2>8, <2>10 DEF HandedOK
      <3>3. \A j \in 1 .. Len(up') : Before(up'[j], dataup')
        BY <1>2, <2>1, <3>1
      <3>4. \A c \in Given' : Known(c, sound')
        BY <1>2, <3>2
      <3> QED
        BY <1>1, <1>2, <3>3, <3>4 DEF HandedOK, Before, Known, IsRecord
    <2>13. \A j \in 1 .. Len(Recs') : n + j \in n + 1 .. Len(Recs) /\ n + j \in 1 .. Len(Recs)
                                     /\ Recs'[j] = Recs[n + j]
      <3>1. n \in 0 .. Len(Recs) /\ Len(Recs) \in Nat /\ n \in Nat
        BY <2>3, <2>6
      <3>2. /\ Len(Recs') = Len(Recs) - n
            /\ \A j \in 1 .. Len(Recs) - n : Recs'[j] = Recs[n + j]
        BY <2>3, <2>7, <3>1, PartOf
      <3> QED
        BY <3>1, <3>2
    <2>14. Line' = Line
      BY <1>2, <2>7 DEF Line, Buffered
    <2>15. Behind'
      <3>1. ASSUME NEW c \in Given', NEW j \in 1 .. Len(Recs')
            PROVE  Before(c, Recs'[j])
        <4>1. CASE c \in Given
          BY <2>11, <2>13, <4>1
        <4>2. CASE c = q[1]
          BY <2>3, <2>5, <2>13, <4>2
        <4> QED
          BY <2>10, <4>1, <4>2
      <3>2. ASSUME NEW l \in 1 .. Len(Line), IsByte(Line[l])
            PROVE  /\ \A j \in 1 .. Len(Recs') : Recs'[j].f < Line[l].f
                   /\ \A c \in Given' : c.f < Line[l].f
        <4>1. /\ \A j \in 1 .. Len(Recs) : Recs[j].f < Line[l].f
              /\ \A c \in Given : c.f < Line[l].f
          BY <1>1, <3>2 DEF QueueOK, Behind
        <4>2. q[1].f < Line[l].f
          <5>1. 1 \in 1 .. Len(Recs)
            BY <2>2, <2>3
          <5> QED
            BY <2>3, <4>1, <5>1
        <4> QED
          BY <2>10, <2>13, <4>1, <4>2
      <3>3. \A l \in 1 .. Len(Line') : IsByte(Line'[l]) =>
              /\ \A j \in 1 .. Len(Recs') : Recs'[j].f < Line'[l].f
              /\ \A c \in Given' : c.f < Line'[l].f
        BY <2>14, <3>2
      <3> QED
        BY <3>1, <3>3 DEF Behind, Before, IsByte
    <2>16. QueueOK'
      <3>1. RecsOK(Recs', sound')
        BY <1>2, <2>5, <2>7
      <3>2. LineOK(Line', sent', sound')
        BY <1>1, <1>2, <2>14 DEF QueueOK
      <3> QED
        BY <2>15, <3>1, <3>2 DEF QueueOK
    <2> QED
      BY <1>4, <2>9, <2>12, <2>16 DEF Tight, QueueOK
  <1> QED
    BY <1>5, <1>6

\* What Send puts on the wire.
LEMMA SendAdds ==
  ASSUME Send, sent \in Nat, sent + 1 \in 1 .. Frames
  PROVE  \E s \in Seq(Cell) : wire' = wire \o s /\ OneFrame(s, sent + 1, sound')
  <1>1. sent + 1 \in 1 .. Frames
    OBVIOUS
  <1> DEFINE n == sent + 1
  <1>3. Frame(n) \in Seq(Cell) /\ Len(Frame(n)) = 8 /\ DOMAIN Frame(n) = 1 .. 8
    <2>1. Frame(n) \in Seq(Cell) /\ Len(Frame(n)) = 8
      BY <1>1, FrameIs
    <2> QED
      BY <2>1, LenProperties
  <1>4. \E s \in Seq(Cell) : wire' = wire \o s /\ OneFrame(s, n, sound')
    <2>1. CASE wire' = wire \o Frame(n) /\ sound' = sound \cup {n}
      <3>1. n \in sound'
        BY <2>1
      <3>2. OneFrame(Frame(n), n, sound')
        BY <1>1, <3>1, FrameOneFrame
      <3> QED
        BY <1>3, <2>1, <3>2
    <2>2. CASE \E i \in 1 .. 8 :
                 /\ \/ wire' = wire \o RemoveAt(Frame(n), i)
                    \/ \E c \in {F5, X55} :
                         Frame(n)[i] # c /\ wire' = wire \o [Frame(n) EXCEPT ![i] = c]
                 /\ sound' = IF i <= HEADNUMER THEN sound \cup {n} ELSE sound
      <3>1. PICK i \in 1 .. 8 :
                 /\ \/ wire' = wire \o RemoveAt(Frame(n), i)
                    \/ \E c \in {F5, X55} :
                         Frame(n)[i] # c /\ wire' = wire \o [Frame(n) EXCEPT ![i] = c]
                 /\ sound' = IF i <= HEADNUMER THEN sound \cup {n} ELSE sound
        BY <2>2
      <3>2. i <= HEADNUMER => n \in sound'
        BY <3>1
      <3>3. CASE wire' = wire \o RemoveAt(Frame(n), i)
        <4>1. RemoveAt(Frame(n), i) \in Seq(Cell) /\ OneFrame(RemoveAt(Frame(n), i), n, sound')
          BY <1>1, <3>2, ShortIs
        <4> QED
          BY <3>3, <4>1
      <3>4. CASE \E c \in {F5, X55} :
                   Frame(n)[i] # c /\ wire' = wire \o [Frame(n) EXCEPT ![i] = c]
        <4>1. PICK c \in {F5, X55} :
                Frame(n)[i] # c /\ wire' = wire \o [Frame(n) EXCEPT ![i] = c]
          BY <3>4
        <4>2. /\ [Frame(n) EXCEPT ![i] = c] \in Seq(Cell)
              /\ OneFrame([Frame(n) EXCEPT ![i] = c], n, sound')
          BY <1>1, <3>2, <4>1, TurnedIs
        <4> QED
          BY <4>1, <4>2
      <3> QED
        BY <3>1, <3>3, <3>4
    <2>3. CASE \E x \in Noise : wire' = wire \o (Frame(n) \o x) /\ sound' = sound \cup {n}
      <3>1. PICK x \in Noise : wire' = wire \o (Frame(n) \o x) /\ sound' = sound \cup {n}
        BY <2>3
      <3>2. Frame(n) \o x \in Seq(Cell) /\ OneFrame(Frame(n) \o x, n, sound')
        BY <1>1, <3>1, NoisyIs
      <3> QED
        BY <3>1, <3>2
    <2> QED
      BY <1>3, <2>1, <2>2, <2>3 DEF Send
  <1> QED
    BY <1>4

LEMMA SendStep ==
  ASSUME Tight, Send
  PROVE  Tight'
  <1>1. Types /\ HandedOK /\ sent \in Nat /\ sent' = sent + 1 /\ sent + 1 \in 1 .. Frames
    <2>1. Types /\ HandedOK /\ sent < Frames /\ sent' = sent + 1 /\ sent \in 0 .. Frames
      BY DEF Tight, Send, Types
    <2> QED
      BY <2>1, UpLinkAssumption
  <1>2. UNCHANGED <<data, q, offset, datastate, wordstate, overrun, running, flag, dataup, up, pc>>
    BY DEF Send, parser, timer
  <1> DEFINE n == sent + 1
  <1>4. \E s \in Seq(Cell) : wire' = wire \o s /\ OneFrame(s, n, sound')
    BY <1>1, SendAdds
  <1>5. sound \subseteq sound' /\ sound' \subseteq 1 .. sent + 1 /\ intact' \subseteq sound'
    <2>1. sound \subseteq 1 .. sent /\ intact \subseteq sound
      BY <1>1 DEF HandedOK, Types
    <2>2. \/ sound' = sound \cup {n} /\ intact' = intact \cup {n}
          \/ sound' \in {sound, sound \cup {n}} /\ intact' = intact
      BY DEF Send
    <2>3. n \in 1 .. n /\ 1 .. sent \subseteq 1 .. n
      BY <1>1
    <2>4. sound \subseteq 1 .. n /\ sound' \subseteq sound \cup {n}
      BY <2>1, <2>2, <2>3
    <2>5. sound \subseteq sound' /\ intact' \subseteq sound'
      BY <2>1, <2>2
    <2> QED
      BY <2>3, <2>4, <2>5
  <1>6. PICK s \in Seq(Cell) : wire' = wire \o s /\ OneFrame(s, n, sound')
    BY <1>4
  <1> HIDE DEF n
  <1>7. Types'
    <2>1. wire' \in Seq(Cell)
      <3>1. wire \in Seq(Cell)
        BY <1>1 DEF Types
      <3> QED
        BY <1>6, <3>1, ConcatProperties
    <2>2. sent' \in 0 .. Frames /\ sound' \subseteq 1 .. Frames
      BY <1>1, <1>5, UpLinkAssumption
    <2>3. rushed' \in BOOLEAN
      <3>1. rushed' = (rushed \/ ~Quiet) \/ rushed' = TRUE
        BY DEF Send
      <3> QED
        BY ONLY <3>1, Zenon
    <2> QED
      BY ONLY <1>1, <1>2, <1>5, <2>1, <2>2, <2>3 DEF Types
  <1>8. Between'
    BY <1>2 DEF Tight, Between
  <1>9. HandedOK' /\ Given' = Given
    <2>1. Given' = Given
      BY <1>2 DEF Given
    <2>2. \A c \in Given : Known(c, sound')
      BY <1>1, <1>5 DEF HandedOK, Known
    <2>3. /\ \A i, j \in 1 .. Len(up') : i < j => Before(up'[i], up'[j])
          /\ dataup' # NULL => \A j \in 1 .. Len(up') : Before(up'[j], dataup')
      BY <1>1, <1>2 DEF HandedOK
    <2> QED
      BY <1>1, <1>5, <2>1, <2>2, <2>3 DEF HandedOK, Known, IsRecord, Before
  <1>10. ASSUME ~overrun PROVE QueueOK'
    <2>1. QueueOK
      BY <1>10 DEF Tight, QueueOK
    <2>2. /\ Recs \in Seq(Cell) /\ Buffered \in Seq(Cell) /\ data \o wire \in Seq(Cell)
          /\ Line \in Seq(Cell) /\ sound \in SUBSET (1 .. Frames)
          /\ data \in Seq(Cell) /\ wire \in Seq(Cell)
      BY <1>1, Typed DEF LineTypes, Types
    <2>3. Recs' = Recs /\ Buffered' = Buffered
      BY <1>2 DEF Recs, Buffered, Raw
    <2>4. Line' = Line \o s
      <3>1. data \o (wire \o s) = (data \o wire) \o s
        <4>1. data \in Seq(Cell) /\ wire \in Seq(Cell) /\ s \in Seq(Cell)
          BY <2>2
        <4>2. (data \o wire) \o s = data \o (wire \o s)
          BY ONLY <4>1, Associative, Zenon
        <4> QED
          BY <4>2
      <3>2. Buffered \o ((data \o wire) \o s) = (Buffered \o (data \o wire)) \o s
        <4> DEFINE x == data \o wire
        <4>1. x \in Seq(Cell) /\ Buffered \in Seq(Cell) /\ s \in Seq(Cell)
          BY <2>2
        <4> HIDE DEF x
        <4>2. (Buffered \o x) \o s = Buffered \o (x \o s)
          BY ONLY <4>1, Associative, Zenon
        <4> QED
          BY <4>2 DEF x
      <3> QED
        BY <1>2, <1>6, <2>3, <3>1, <3>2 DEF Line
    <2>5. LineOK(Line', sent', sound')
      <3>1. LineOK(Line, sent, sound) /\ OneFrame(s, sent + 1, sound')
        BY <1>6, <2>1 DEF QueueOK, n
      <3>2. LineOK(Line \o s, sent + 1, sound')
        BY <1>1, <1>5, <2>2, <3>1, LineGrows
      <3> QED
        BY <1>1, <2>4, <3>2
    <2>6. RecsOK(Recs', sound')
      BY <1>5, <2>1, <2>2, <2>3, RecsGrow DEF QueueOK
    <2>7. Behind'
      <3>1. /\ Len(Line') = Len(Line) + Len(s) /\ Len(Line) \in Nat /\ Len(s) \in Nat
            /\ \A l \in 1 .. Len(Line) + Len(s) :
                 Line'[l] = IF l <= Len(Line) THEN Line[l] ELSE s[l - Len(Line)]
        BY <2>2, <2>4, ConcatProperties
      <3>2. ASSUME NEW l \in 1 .. Len(Line'), IsByte(Line'[l])
            PROVE  /\ \A j \in 1 .. Len(Recs) : Recs[j].f < Line'[l].f
                   /\ \A c \in Given : c.f < Line'[l].f
        <4>1. CASE l <= Len(Line)
          <5>1. l \in 1 .. Len(Line) /\ Line'[l] = Line[l]
            BY <3>1, <4>1
          <5> QED
            BY <2>1, <3>2, <5>1 DEF QueueOK, Behind
        <4>2. CASE ~(l <= Len(Line))
          <5>1. l - Len(Line) \in 1 .. Len(s) /\ Line'[l] = s[l - Len(Line)]
            BY <3>1, <4>2
          <5>2. Line'[l].f = sent + 1
            BY <1>6, <3>2, <5>1 DEF OneFrame, n
          <5>3. /\ \A j \in 1 .. Len(Recs) : Recs[j].f \in sound
                /\ \A c \in Given : c.f \in sound
            BY <1>1, <2>1 DEF QueueOK, RecsOK, Known, HandedOK
          <5>4. \A f \in sound : f < sent + 1
            BY <1>1 DEF HandedOK
          <5> QED
            BY <5>2, <5>3, <5>4
        <4> QED
          BY <4>1, <4>2
      <3>3. \A c \in Given', j \in 1 .. Len(Recs') : Before(c, Recs'[j])
        BY <1>9, <2>1, <2>3 DEF QueueOK, Behind
      <3>4. \A l \in 1 .. Len(Line') : IsByte(Line'[l]) =>
              /\ \A j \in 1 .. Len(Recs') : Recs'[j].f < Line'[l].f
              /\ \A c \in Given' : c.f < Line'[l].f
        BY <1>9, <2>3, <3>2
      <3> QED
        BY <3>3, <3>4 DEF Behind, Before, IsByte
    <2> QED
      BY <2>5, <2>6, <2>7 DEF QueueOK
  <1> QED
    BY <1>2, <1>7, <1>8, <1>9, <1>10 DEF Tight, QueueOK

-----------------------------------------------------------------------------
(* After an overrun. *)

LEMMA HandedSound ==
  ASSUME Types, HandedOK
  PROVE  OnlySound
  <1>1. up \in Seq(Cell) /\ Len(up) \in Nat /\ DOMAIN up = 1 .. Len(up)
    BY LenProperties DEF Types
  <1>2. ASSUME NEW j \in DOMAIN up
        PROVE  up[j].f \in sound /\ (up[j].k = "alarm" => up[j].f \in Alarms)
    <2>1. up[j] \in Given
      BY <1>1 DEF Given
    <2> QED
      BY <2>1 DEF HandedOK, Known
  <1>3. ASSUME NEW j \in 1 .. Len(up) - 1
        PROVE  Before(up[j], up[j + 1])
    <2>1. j \in 1 .. Len(up) /\ j + 1 \in 1 .. Len(up) /\ j < j + 1
      BY <1>1
    <2> QED
      BY <2>1 DEF HandedOK
  <1> QED
    BY <1>2, <1>3 DEF OnlySound

LEMMA TightLoose == Tight => Loose
  <1> SUFFICES ASSUME Tight PROVE Loose
    OBVIOUS
  <1>1. OnlySound
    BY HandedSound DEF Tight
  <1>2. TypeOK
    <2>1. offset \in 0 .. U16 - 1 /\ offset <= Len(q)
      <3>1. offset \in 0 .. Len(q) /\ Len(q) <= REVFIFOLEN /\ q \in Seq(Cell) /\ Len(q) \in Nat
        BY DEF Tight, Types
      <3> QED
        BY ONLY <3>1, UpLinkAssumption
    <2>2. overrun \/ offset <= Len(q)
      BY <2>1
    <2>3. pc \in {"app", "cmd", "timer", "recv", "loop", "lost"}
      BY DEF Tight, Types
    <2>4. Types
      BY DEF Tight
    <2> QED
      BY ONLY <2>1, <2>2, <2>3, <2>4 DEF Types, TypeOK
  <1> QED
    BY <1>1, <1>2 DEF Loose, Tight

\* A part of the buffer is no longer than it.
LEMMA PartIs ==
  ASSUME NEW b \in Seq(Cell), NEW m \in Nat
  PROVE  /\ SubSeq(b, m + 1, Len(b)) \in Seq(Cell) /\ Len(SubSeq(b, m + 1, Len(b))) <= Len(b)
         /\ SubSeq(b, 1, Len(b) - m) \in Seq(Cell) /\ Len(SubSeq(b, 1, Len(b) - m)) <= Len(b)
  <1>1. Len(b) \in Nat /\ Len(b) - m \in Int /\ m + 1 \in Nat \ {0} /\ Len(b) - m <= Len(b)
    OBVIOUS
  <1>2. /\ \A i \in m + 1 .. Len(b) : b[i] \in Cell
        /\ \A i \in 1 .. Len(b) - m : b[i] \in Cell
    BY <1>1, ElementOfSeq
  <1>3. /\ SubSeq(b, m + 1, Len(b)) \in Seq(Cell)
        /\ Len(SubSeq(b, m + 1, Len(b))) =
             IF m + 1 <= Len(b) THEN Len(b) - (m + 1) + 1 ELSE 0
    BY <1>1, <1>2, SubSeqProperties
  <1>4. /\ SubSeq(b, 1, Len(b) - m) \in Seq(Cell)
        /\ Len(SubSeq(b, 1, Len(b) - m)) = IF 1 <= Len(b) - m THEN Len(b) - m - 1 + 1 ELSE 0
    BY <1>1, <1>2, SubSeqProperties
  <1> QED
    BY <1>1, <1>3, <1>4

\* What the buffer is after a frame, wherever `offset` points.
LEMMA LooseFrame ==
  ASSUME TypeOK, overrun, FrameDataHandle
  PROVE  /\ q' \in Seq(Cell) /\ Len(q') <= REVFIFOLEN /\ offset' \in 0 .. U16 - 1
         /\ datastate' \in {"REVHEAD", "REVDATA"} /\ wordstate' \in 0 .. HEADNUMER - 1
         /\ overrun'
  <1>1. /\ q \in Seq(Cell) /\ offset \in 0 .. U16 - 1 /\ Len(q) \in Nat /\ Len(q) <= REVFIFOLEN
        /\ REVFIFOLEN \in Nat /\ U8 \in Nat \ {0} /\ U16 \in Nat /\ REVFIFOLEN < U16
    BY UpLinkAssumption DEF TypeOK
  <1>2. templen \in Nat
    <2>1. Len(q) - offset \in Int
      BY <1>1
    <2> QED
      BY ONLY <1>1, <2>1 DEF templen
  <1>3. Emptied \in Seq(Cell) /\ Len(Emptied) <= REVFIFOLEN /\ Len(Emptied) \in Nat
    <2>1. Emptied = SubSeq(q, 1, Len(q) - templen)
      BY DEF Emptied, DeletHead
    <2>2. SubSeq(q, 1, Len(q) - templen) \in Seq(Cell) /\ Len(SubSeq(q, 1, Len(q) - templen)) <= Len(q)
      BY <1>1, <1>2, PartIs
    <2>3. Len(Emptied) \in Nat
      BY <2>1, <2>2
    <2> QED
      BY <1>1, <2>1, <2>2, <2>3
  <1>4. datastate' \in {"REVHEAD", "REVDATA"} /\ wordstate' \in 0 .. HEADNUMER - 1
    BY DEF FrameDataHandle, FrameRevInit, HEADNUMER
  <1>5. CASE Refuse
    BY <1>1, <1>3, <1>4, <1>5 DEF Refuse
  <1>6. CASE Accept
    <2>1. PICK f \in Good :
            /\ q' = Convert(Emptied, f)
            /\ offset' = (offset + (Len(q') - Len(Emptied))) % U16
            /\ overrun' = (overrun \/ Len(q) - offset >= U8)
      BY <1>6 DEF Accept
    <2>2. q' \in Seq(Cell) /\ Len(q') \in Len(Emptied) .. REVFIFOLEN
      BY <1>3, <2>1, ConvertIs DEF Good
    <2>3. Len(q') \in Nat /\ Len(q') <= REVFIFOLEN
      BY <1>3, <2>2
    <2>4. offset' \in 0 .. U16 - 1
      <3>1. offset + (Len(q') - Len(Emptied)) \in Int
        BY <1>1, <1>3, <2>3
      <3> QED
        BY <1>1, <2>1, <3>1
    <2> QED
      BY <1>4, <2>1, <2>2, <2>3, <2>4
  <1> QED
    BY <1>5, <1>6 DEF FrameDataHandle

\* What is pushed.
LEMMA LoosePush ==
  ASSUME NEW b \in Seq(Cell), Len(b) <= REVFIFOLEN, NEW x \in Seq(Cell)
  PROVE  Push(b, x) \in Seq(Cell) /\ Len(Push(b, x)) <= REVFIFOLEN
  <1>1. PICK m \in 0 .. Len(x) :
           /\ Push(b, x) = b \o SubSeq(x, 1, m)
           /\ SubSeq(x, 1, m) \in Seq(Cell) /\ Len(SubSeq(x, 1, m)) = m
           /\ Len(b) + m <= REVFIFOLEN
    BY PushIs
  <1> QED
    BY <1>1, ConcatProperties

-----------------------------------------------------------------------------
(* The theorems. *)

LEMMA InvInit == Init => Inv
  <1> SUFFICES ASSUME Init PROVE ~overrun /\ Tight
    BY DEF Inv
  <1> USE DEF Init
  <1>1. Types
    <2>1. <<>> \in Seq(Cell) /\ NULL \in Cell
      BY CellTypes
    <2>2. wire \in Seq(Cell) /\ data \in Seq(Cell) /\ q \in Seq(Cell) /\ up \in Seq(Cell)
      BY <2>1
    <2>3. /\ sent \in 0 .. Frames /\ intact \subseteq sound /\ sound \subseteq 1 .. Frames
          /\ Len(q) <= REVFIFOLEN /\ offset \in 0 .. Len(q)
      BY UpLinkAssumption
    <2>4. /\ datastate \in {"REVHEAD", "REVDATA"} /\ wordstate \in 0 .. HEADNUMER - 1
          /\ dataup \in Cell /\ pc \in {"app", "cmd", "timer", "recv", "loop"}
      BY <2>1 DEF HEADNUMER
    <2>5. running \in BOOLEAN /\ flag \in BOOLEAN /\ rushed \in BOOLEAN /\ overrun \in BOOLEAN
      BY Zenon
    <2> QED
      BY ONLY <2>2, <2>3, <2>4, <2>5 DEF Types
  <1>2. Between
    BY DEF Between
  <1>3. HandedOK /\ Given = {}
    BY DEF HandedOK, Given
  <1>4. Recs = <<>> /\ Line = <<>>
    <2>1. Recs \in Seq(Cell) /\ Len(Recs) = 0
      BY <1>1, Typed DEF LineTypes
    <2>2. Raw \in Seq(Cell) /\ Len(Raw) = 0
      BY PartOf DEF Raw
    <2>3. Recs = <<>> /\ Raw = <<>> /\ Heads(wordstate) = <<>>
      BY <2>1, <2>2, EmptySeq DEF Heads
    <2>4. <<>> \in Seq(Cell) /\ <<>> \o <<>> = <<>>
      BY EmptyAround
    <2> QED
      BY <2>3, <2>4 DEF Line, Buffered
  <1>5. RecsOK(Recs, sound) /\ LineOK(Line, sent, sound) /\ Behind
    BY <1>3, <1>4 DEF RecsOK, LineOK, Rising, Genuine, UpTo, Bytes, Behind
  <1> QED
    BY <1>1, <1>2, <1>3, <1>5 DEF Tight

\* A byte of the chunk is looked at.
LEMMA LooseByte ==
  ASSUME TypeOK, Between, overrun, RevDataWrFifo
  PROVE  TypeOK' /\ Between' /\ overrun'
  <1>1. /\ UNCHANGED <<wire, sent, intact, sound, flag, dataup, up, rushed>>
        /\ CountHead \/ BeginFrame \/ NoHead \/ EndFrame \/ BreakFrame \/ DataByte
    BY DEF RevDataWrFifo, device
  <1>2. /\ data \in Seq(Cell) /\ data # <<>> /\ data[1] \in Cell /\ Tail(data) \in Seq(Cell)
        /\ <<>> \in Seq(Cell)
    <2>1. data \in Seq(Cell) /\ data # <<>>
      BY DEF TypeOK, Between, RevDataWrFifo
    <2> QED
      BY <2>1, HeadTailProperties
  <1>3. Left(<<>>) \/ Left(Tail(data))
    BY <1>1 DEF CountHead, BeginFrame, NoHead, EndFrame, BreakFrame, DataByte
  <1>4. /\ data' \in Seq(Cell) /\ pc' = IF data' = <<>> THEN "app" ELSE "loop"
        /\ pc' \in {"app", "cmd", "timer", "recv", "loop", "lost"}
    BY <1>2, <1>3 DEF Left
  <1>5. /\ q \in Seq(Cell) /\ Len(q) <= REVFIFOLEN /\ offset \in 0 .. U16 - 1 /\ Len(q) \in Nat
        /\ wordstate \in 0 .. HEADNUMER - 1 /\ wordstate \in Nat
        /\ datastate \in {"REVHEAD", "REVDATA"}
    BY DEF TypeOK, HEADNUMER
  <1>6. /\ q' \in Seq(Cell) /\ Len(q') <= REVFIFOLEN /\ offset' \in 0 .. U16 - 1
        /\ datastate' \in {"REVHEAD", "REVDATA"} /\ wordstate' \in 0 .. HEADNUMER - 1
        /\ overrun'
    <2>1. CASE CountHead
      BY <1>5, <2>1 DEF CountHead, HEADNUMER
    <2>2. CASE BeginFrame
      <3>1. Header \in Seq(Cell)
        BY HeadsAre DEF Header, HEADNUMER
      <3>2. Push(q, Header) \in Seq(Cell) /\ Len(Push(q, Header)) <= REVFIFOLEN
        BY <1>5, <3>1, LoosePush
      <3> QED
        BY <1>5, <2>2, <3>2 DEF BeginFrame, HEADNUMER
    <2>3. CASE NoHead
      BY <1>5, <2>3 DEF NoHead, HEADNUMER
    <2>4. CASE EndFrame
      BY <2>4, LooseFrame DEF EndFrame
    <2>5. CASE BreakFrame
      <3> DEFINE m == (Len(q) - offset) % U16
      <3>1. m \in Nat
        <4>1. Len(q) - offset \in Int /\ U16 \in Nat \ {0}
          BY <1>5, UpLinkAssumption
        <4> QED
          BY ONLY <4>1
      <3> HIDE DEF m
      <3>2. /\ SubSeq(q, 1, Len(q) - m) \in Seq(Cell) /\ Len(SubSeq(q, 1, Len(q) - m)) <= Len(q)
        BY <1>5, <3>1, PartIs
      <3>3. q' = SubSeq(q, 1, Len(q) - m)
        BY <2>5 DEF BreakFrame, DeletHead, m
      <3>4. Len(q') \in Nat /\ REVFIFOLEN \in Nat /\ Len(q') <= REVFIFOLEN
        BY <1>5, <3>2, <3>3, UpLinkAssumption
      <3>5. q' \in Seq(Cell)
        BY <3>2, <3>3
      <3>6. offset' = offset /\ overrun' = overrun /\ datastate' = "REVHEAD" /\ wordstate' = 0
        BY <2>5 DEF BreakFrame, FrameRevInit
      <3> QED
        BY ONLY overrun, <1>5, <3>4, <3>5, <3>6 DEF HEADNUMER
    <2>6. CASE DataByte
      <3> DEFINE x == Heads(wordstate) \o <<data[1]>>
      <3>1. Heads(wordstate) \in Seq(Cell) /\ <<data[1]>> \in Seq(Cell)
        BY <1>2, <1>5, HeadsAre
      <3>2. x \in Seq(Cell)
        BY <3>1, ConcatProperties
      <3>3. q' = Push(q, x)
        BY <2>6 DEF DataByte
      <3> HIDE DEF x
      <3>4. q' \in Seq(Cell) /\ Len(q') <= REVFIFOLEN
        BY <1>5, <3>2, <3>3, LoosePush
      <3> QED
        BY <1>5, <2>6, <3>4 DEF DataByte, HEADNUMER
    <2> QED
      BY <1>1, <2>1, <2>2, <2>3, <2>4, <2>5, <2>6
  <1>7. running' \in BOOLEAN
    <2>1. running' = running \/ running' = FALSE
      BY <1>1 DEF CountHead, BeginFrame, NoHead, EndFrame, BreakFrame, DataByte
    <2>2. running \in BOOLEAN
      BY DEF TypeOK
    <2> QED
      BY ONLY <2>1, <2>2, Zenon
  <1>8. overrun' \in BOOLEAN /\ (overrun' \/ offset' <= Len(q'))
    BY ONLY <1>6, Zenon
  <1>9. TypeOK'
    BY ONLY TypeOK, <1>1, <1>4, <1>6, <1>7, <1>8 DEF TypeOK
  <1>10. Between'
    BY <1>4 DEF Between
  <1> QED
    BY <1>6, <1>9, <1>10

\* The oldest bytes are taken off, wherever `offset` points.
LEMMA LooseCmd ==
  ASSUME TypeOK, Between, overrun, RevCmdHandle
  PROVE  TypeOK' /\ Between' /\ overrun'
  <1>1. /\ UNCHANGED <<wire, sent, intact, sound, data, datastate, wordstate, overrun, running, flag,
                       up, rushed>>
        /\ pc = "cmd"
    BY DEF RevCmdHandle, device, timer
  <1>2. /\ q \in Seq(Cell) /\ Len(q) <= REVFIFOLEN /\ offset \in 0 .. U16 - 1 /\ Len(q) \in Nat
        /\ dataup \in Cell /\ U16 \in Nat \ {0} /\ U8 \in Nat \ {0} /\ REVFIFOLEN \in Nat
        /\ DATAUPLEN \in Nat
    BY UpLinkAssumption DEF TypeOK
  <1>3. ASSUME NEW n \in Nat, TakeOff(n)
        PROVE  q' \in Seq(Cell) /\ Len(q') <= REVFIFOLEN /\ offset' \in 0 .. U16 - 1
    <2>1. SubSeq(q, n + 1, Len(q)) \in Seq(Cell) /\ Len(SubSeq(q, n + 1, Len(q))) <= Len(q)
      BY <1>2, PartIs
    <2>2. q' = SubSeq(q, n + 1, Len(q)) /\ offset' = (offset - n) % U16
      BY <1>3 DEF TakeOff
    <2>3. offset - n \in Int
      BY <1>2
    <2>4. offset' \in 0 .. U16 - 1
      BY ONLY <1>2, <2>2, <2>3
    <2>5. Len(q') \in Nat
      BY <2>1, <2>2
    <2> QED
      BY <1>2, <2>1, <2>2, <2>4, <2>5
  <1>4. q # <<>> => q[1] \in Cell
    BY <1>2, HeadTailProperties
  <1>5. /\ q' \in Seq(Cell) /\ Len(q') <= REVFIFOLEN /\ offset' \in 0 .. U16 - 1
        /\ dataup' \in Cell /\ pc' \in {"timer", "lost"}
    <2>1. CASE offset = 0 \/ dataup # NULL
      BY <1>2, <2>1 DEF RevCmdHandle
    <2>2. CASE TakeRecord
      <3>1. q # <<>> /\ dataup' = q[1] /\ pc' = "timer"
        BY <2>2 DEF TakeRecord, AtRecord
      <3>2. /\ Len(Record(q[1].k, q[1].f)) \in Nat
            /\ TakeOff(Len(Record(q[1].k, q[1].f)))
        <4>1. q[1].k \in {"alarm", "state"}
          BY <2>2 DEF TakeRecord, AtRecord, IsRecord
        <4>2. Record(q[1].k, q[1].f) \in
                Seq({[k |-> q[1].k, f |-> q[1].f, i |-> i] : i \in 1 .. 3})
          BY DEF Record
        <4> QED
          BY <2>2, <4>2 DEF TakeRecord
      <3>3. q' \in Seq(Cell) /\ Len(q') <= REVFIFOLEN /\ offset' \in 0 .. U16 - 1
        BY <1>3, <3>2
      <3> QED
        BY <1>4, <3>1, <3>3
    <2>3. CASE TakeAny
      <3>1. PICK n \in 0 .. U8 - 1 :
              /\ TakeOff(n)
              /\ \/ dataup' = NULL /\ pc' = "timer"
                 \/ /\ q # <<>> /\ dataup' = q[1]
                    /\ pc' = IF Len(q) - Len(q') > DATAUPLEN THEN "lost" ELSE "timer"
        BY <2>3 DEF TakeAny
      <3>2. n \in Nat
        BY <1>2
      <3>3. q' \in Seq(Cell) /\ Len(q') <= REVFIFOLEN /\ offset' \in 0 .. U16 - 1
        BY <1>3, <3>1, <3>2
      <3> QED
        BY <1>4, <3>1, <3>3, CellTypes
    <2> QED
      BY <2>1, <2>2, <2>3 DEF RevCmdHandle
  <1>6. pc' \in {"app", "cmd", "timer", "recv", "loop", "lost"} /\ pc' # "loop"
    BY <1>5
  <1>7. TypeOK'
    BY ONLY TypeOK, overrun, <1>1, <1>5, <1>6 DEF TypeOK
  <1>8. Between'
    BY <1>1, <1>6 DEF Between
  <1> QED
    BY <1>1, <1>7, <1>8

LEMMA LooseTypes ==
  ASSUME TypeOK, Between, overrun, [Next]_vars
  PROVE  TypeOK' /\ Between' /\ overrun'
  <1>1. CASE Send
    <2>1. /\ UNCHANGED <<data, q, offset, datastate, wordstate, overrun, running, flag, dataup, up, pc>>
          /\ sent < Frames /\ sent' = sent + 1
      BY <1>1 DEF Send, parser, timer
    <2>2. /\ wire \in Seq(Cell) /\ sent \in 0 .. Frames /\ sent' \in 0 .. Frames
          /\ sent + 1 \in 1 .. Frames /\ intact \subseteq sound /\ sound \subseteq 1 .. Frames
      BY <2>1, UpLinkAssumption DEF TypeOK
    <2>3. \E s \in Seq(Cell) : wire' = wire \o s
      <3>1. sent \in Nat
        BY <2>2, UpLinkAssumption
      <3> QED
        BY <1>1, <2>2, <3>1, SendAdds
    <2>4. wire' \in Seq(Cell)
      BY <2>2, <2>3, ConcatProperties
    <2>5. \/ sound' = sound \cup {sent + 1} /\ intact' \in {intact, intact \cup {sent + 1}}
          \/ sound' = sound /\ intact' = intact
      BY <1>1 DEF Send
    <2>6. intact' \subseteq sound' /\ sound' \subseteq 1 .. Frames
      BY <2>2, <2>5
    <2>7. rushed' \in BOOLEAN
      <3>1. rushed' = (rushed \/ ~Quiet) \/ rushed' = TRUE
        BY <1>1 DEF Send
      <3> QED
        BY ONLY <3>1, Zenon
    <2>8. TypeOK'
      BY ONLY TypeOK, overrun, <2>1, <2>2, <2>4, <2>6, <2>7 DEF TypeOK
    <2> QED
      BY <2>1, <2>8 DEF Between
  <1>2. CASE RevTimerUp
    <2>1. UNCHANGED <<wire, sent, intact, sound, data, q, offset, datastate, wordstate, overrun, running,
                      dataup, up, pc>>
      BY <1>2 DEF RevTimerUp, device, parser
    <2>2. flag' \in BOOLEAN /\ rushed' \in BOOLEAN
      <3>1. flag' = TRUE /\ rushed' = (rushed \/ wire # <<>>)
        BY <1>2 DEF RevTimerUp
      <3> QED
        BY ONLY <3>1, Zenon
    <2>3. TypeOK'
      BY ONLY TypeOK, overrun, <2>1, <2>2 DEF TypeOK
    <2> QED
      BY <2>1, <2>3 DEF Between
  <1>3. CASE App
    <2>1. /\ UNCHANGED <<wire, sent, intact, sound, data, q, offset, datastate, wordstate, overrun,
                         running, flag, up, rushed>>
          /\ dataup' = NULL /\ pc = "app" /\ pc' = "cmd"
      BY <1>3 DEF App, device, parser, timer
    <2>2. dataup' \in Cell /\ pc' \in {"app", "cmd", "timer", "recv", "loop", "lost"}
      BY <2>1, CellTypes
    <2>3. TypeOK'
      BY ONLY TypeOK, overrun, <2>1, <2>2 DEF TypeOK
    <2> QED
      BY <2>1, <2>3 DEF Between
  <1>4. CASE RevCmdHandle
    BY <1>4, LooseCmd
  <1>5. CASE RevTimerHandle
    <2>1. /\ UNCHANGED <<wire, sent, intact, sound, data, dataup, up, rushed>>
          /\ pc = "timer" /\ pc' = "recv" /\ flag' = FALSE
          /\ running' = running \/ running' = FALSE
      BY <1>5 DEF RevTimerHandle, device
    <2>2. /\ q' \in Seq(Cell) /\ Len(q') <= REVFIFOLEN /\ offset' \in 0 .. U16 - 1
          /\ datastate' \in {"REVHEAD", "REVDATA"} /\ wordstate' \in 0 .. HEADNUMER - 1
          /\ overrun'
      <3>1. CASE flag
        BY <1>5, <3>1, LooseFrame DEF RevTimerHandle
      <3>2. CASE ~flag
        BY <1>5, <3>2 DEF RevTimerHandle, parser, TypeOK
      <3> QED
        BY <3>1, <3>2
    <2>3. pc' \in {"app", "cmd", "timer", "recv", "loop", "lost"}
      BY <2>1
    <2>4. running' \in BOOLEAN /\ flag' \in BOOLEAN
      <3>1. running \in BOOLEAN
        BY DEF TypeOK
      <3> QED
        BY ONLY <2>1, <3>1, Zenon
    <2>5. overrun' \in BOOLEAN /\ (overrun' \/ offset' <= Len(q'))
      BY ONLY <2>2, Zenon
    <2>6. TypeOK'
      BY ONLY TypeOK, <2>1, <2>2, <2>3, <2>4, <2>5 DEF TypeOK
    <2> QED
      BY <2>1, <2>2, <2>6 DEF Between
  <1>6. CASE Receive
    <2>1. /\ UNCHANGED <<sent, intact, sound, q, offset, datastate, wordstate, overrun, flag, dataup, up,
                         rushed>>
          /\ pc = "recv" /\ running' = TRUE
      BY <1>6 DEF Receive, parser
    <2>2. wire \in Seq(Cell)
      BY DEF TypeOK
    <2>3. PICK n \in 1 .. Len(wire) :
            /\ Left(SubSeq(wire, 1, n % U8))
            /\ wire' = SubSeq(wire, n + 1, Len(wire))
      BY <1>6 DEF Receive
    <2> DEFINE m == n % U8
    <2>4. m \in 0 .. n
      BY <2>2, ModBelow
    <2>5. data' = SubSeq(wire, 1, m) /\ pc' = IF data' = <<>> THEN "app" ELSE "loop"
      BY <2>3 DEF Left
    <2> HIDE DEF m
    <2>6. data' \in Seq(Cell) /\ wire' \in Seq(Cell)
      BY <2>2, <2>3, <2>4, <2>5, TakenFrom
    <2>7. pc' \in {"app", "cmd", "timer", "recv", "loop", "lost"}
      BY <2>5
    <2>8. running' \in BOOLEAN
      BY ONLY <2>1, Zenon
    <2>9. TypeOK'
      BY ONLY TypeOK, overrun, <2>1, <2>6, <2>7, <2>8 DEF TypeOK
    <2> QED
      BY <2>1, <2>5, <2>9 DEF Between
  <1>7. CASE NoBytes
    <2>1. /\ UNCHANGED <<wire, sent, intact, sound, data, q, offset, datastate, wordstate, overrun,
                         running, flag, dataup, up, rushed>>
          /\ pc = "recv" /\ pc' = "app"
      BY <1>7 DEF NoBytes, device, parser, timer
    <2>2. pc' \in {"app", "cmd", "timer", "recv", "loop", "lost"}
      BY <2>1
    <2>3. TypeOK'
      BY ONLY TypeOK, overrun, <2>1, <2>2 DEF TypeOK
    <2> QED
      BY <2>1, <2>3 DEF Between
  <1>8. CASE RevDataWrFifo
    BY <1>8, LooseByte
  <1>9. CASE Lost \/ UNCHANGED vars
    <2>1. UNCHANGED <<wire, sent, intact, sound, data, q, offset, datastate, wordstate, overrun,
                      running, flag, dataup, up, rushed, pc>>
      BY <1>9 DEF Lost, vars, device, parser, timer
    <2>2. TypeOK'
      BY ONLY TypeOK, overrun, <2>1 DEF TypeOK
    <2> QED
      BY <2>1, <2>2 DEF Between
  <1> QED
    BY <1>1, <1>2, <1>3, <1>4, <1>5, <1>6, <1>7, <1>8, <1>9 DEF Next, UartNext

LEMMA TightStep ==
  ASSUME Tight, ~overrun, [Next]_vars
  PROVE  Tight'
  <1>1. CASE Send
    BY <1>1, SendStep
  <1>2. CASE RevTimerUp
    BY <1>2, RevTimerUpStep
  <1>3. CASE App
    BY <1>3, AppStep
  <1>4. CASE RevCmdHandle
    BY <1>4, RevCmdHandleStep
  <1>5. CASE RevTimerHandle
    BY <1>5, RevTimerHandleStep
  <1>6. CASE Receive
    BY <1>6, ReceiveStep
  <1>7. CASE NoBytes
    BY <1>7, NoBytesStep
  <1>8. CASE RevDataWrFifo
    <2>1. data # <<>>
      BY <1>8 DEF Tight, Between, RevDataWrFifo
    <2>2. CountHead \/ BeginFrame \/ NoHead \/ EndFrame \/ BreakFrame \/ DataByte
      BY <1>8 DEF RevDataWrFifo
    <2> QED
      BY <1>8, <2>1, <2>2, CountHeadStep, BeginFrameStep, NoHeadStep, EndFrameStep,
         BreakFrameStep, DataByteStep
  <1>9. CASE UNCHANGED vars
    <2>1. UNCHANGED <<wire, sent, intact, sound, data, q, offset, datastate, wordstate, overrun,
                      running, flag, dataup, up, rushed, pc>>
      BY <1>9 DEF vars, device, parser, timer
    <2>2. Types /\ Types' /\ Between'
      BY <2>1 DEF Tight, Types, Between
    <2>3. HandedOK' /\ Given' = Given
      BY <2>1, HandedSame DEF Tight
    <2>4. ASSUME ~overrun PROVE QueueOK'
      BY <2>1, <2>2, <2>3, <2>4, Still, LeftOut DEF Tight, QueueOK
    <2> QED
      BY <2>1, <2>2, <2>3, <2>4 DEF Tight, QueueOK
  <1> QED
    BY <1>1, <1>2, <1>3, <1>4, <1>5, <1>6, <1>7, <1>8, <1>9 DEF Next, UartNext, Lost

\* What the application took before an overrun does not change after it.
LEMMA LooseStep ==
  ASSUME Loose, overrun, [Next]_vars
  PROVE  Loose' /\ overrun'
  <1>1. TypeOK' /\ Between' /\ overrun'
    BY LooseTypes DEF Loose
  <1>2. up' = up /\ sound \subseteq sound'
    BY DEF Next, UartNext, Send, RevTimerUp, App, RevCmdHandle, RevTimerHandle, Receive, NoBytes,
           RevDataWrFifo, Lost, vars, device, parser, timer
  <1>3. OnlySound'
    BY <1>2 DEF Loose, OnlySound, Before
  <1> QED
    BY <1>1, <1>3 DEF Loose

LEMMA InvNext == Inv /\ [Next]_vars => Inv'
  <1> SUFFICES ASSUME Inv, [Next]_vars PROVE Inv'
    OBVIOUS
  <1>1. CASE overrun
    BY <1>1, LooseStep DEF Inv
  <1>2. CASE ~overrun
    <2>1. Tight'
      BY <1>2, TightStep DEF Inv
    <2>2. Loose' /\ overrun' \in BOOLEAN
      <3>1. Tight => Loose
        BY TightLoose
      <3>2. Tight' => Loose'
        BY TightLoose, PTL
      <3> QED
        BY <2>1, <3>2 DEF Tight, Types
    <2> QED
      BY <2>1, <2>2 DEF Inv
  <1> QED
    BY <1>1, <1>2

LEMMA InvAlways == Spec => []Inv
  BY InvInit, InvNext, PTL DEF Spec

\* The buffer is never over-full and the count of header bytes stays below four,
\* for any capacity; `offset` lies within the buffer until a frame is converted out
\* of U8 raw bytes or more (256 in the source), after which RevCmdHandle
\* (devproanaly.c:343-344, 407) may take it anywhere in an u16.
THEOREM TypeCorrect == Spec => []TypeOK
  <1>1. Inv => TypeOK
    BY TightLoose DEF Inv, Loose
  <1> QED
    BY <1>1, InvAlways, PTL

LEMMA InvAligned == Inv => Aligned
  <1> SUFFICES ASSUME Inv, ~overrun PROVE Aligned
    BY DEF Aligned
  <1>1. /\ q \in Seq(Cell) /\ offset \in 0 .. Len(q) /\ Len(q) \in Nat /\ offset \in Nat
        /\ sound \in SUBSET (1 .. Frames) /\ RecsOK(Recs, sound) /\ Bytes(Line) /\ LineTypes
    BY Typed DEF Inv, Tight, Types, LineOK
  <1>2. Recs \in Seq(Cell) /\ Len(Recs) = offset /\ \A j \in 1 .. offset : Recs[j] = q[j]
    BY <1>1, StartOf DEF Recs
  <1>3. /\ Raw \in Seq(Cell) /\ Len(Raw) = Len(q) - offset
        /\ \A j \in 1 .. Len(q) - offset : Raw[j] = q[offset + j]
    BY <1>1, PartOf DEF Raw
  <1>4. ASSUME NEW j \in 1 .. Len(Raw)
        PROVE  ~IsRecord(Raw[j])
    <2>1. Within(Raw, Line)
      <3>1. Within(Raw, Buffered) /\ Within(Buffered, Line)
        BY <1>1, WithinLonger DEF LineTypes, Buffered, Line
      <3> QED
        BY <1>1, <3>1, WithinWithin DEF LineTypes
    <2>2. PICK h \in [1 .. Len(Raw) -> 1 .. Len(Line)] : Chosen(h, Raw, Line)
      BY <2>1 DEF Within
    <2>3. h[j] \in 1 .. Len(Line) /\ Raw[j] = Line[h[j]]
      BY <2>2 DEF Chosen
    <2> QED
      BY <1>1, <2>3 DEF Bytes
  <1>5. ASSUME NEW j \in 1 .. Len(q)
        PROVE  IsRecord(q[j]) <=> j <= offset
    <2>1. CASE j <= offset
      <3>1. j \in 1 .. Len(Recs) /\ Recs[j] = q[j]
        BY <1>1, <1>2, <2>1
      <3> QED
        BY <1>1, <2>1, <3>1 DEF RecsOK, Known
    <2>2. CASE ~(j <= offset)
      <3>1. j - offset \in 1 .. Len(q) - offset /\ offset + (j - offset) = j
        BY <1>1, <2>2
      <3>2. Raw[j - offset] = q[j] /\ j - offset \in 1 .. Len(Raw)
        BY <1>3, <3>1
      <3> QED
        BY <1>4, <2>2, <3>2
    <2> QED
      BY <2>1, <2>2
  <1>6. ASSUME NEW j \in 1 .. offset
        PROVE  LET r == Record(q[j].k, q[j].f) IN
               /\ j = 1 => q[j].i = 1
               /\ q[j].i < Len(r) => j < offset /\ q[j + 1] = r[q[j].i + 1]
               /\ q[j].i = Len(r) /\ j < offset => q[j + 1].i = 1
    <2> DEFINE k == q[j].k
               f == q[j].f
               i == q[j].i
               r == Record(k, f)
    <2>1. j \in 1 .. Len(Recs) /\ Recs[j] = q[j]
      BY <1>2
    <2>2. Known(q[j], sound) /\ i \in 1 .. RecordLen(k)
      BY <1>1, <2>1 DEF RecsOK
    <2>3. /\ Len(r) = RecordLen(k) /\ RecordLen(k) \in {2, 3}
          /\ \A x \in 1 .. RecordLen(k) : r[x] = [k |-> k, f |-> f, i |-> x]
      <3>1. k \in {"alarm", "state"} /\ f \in 1 .. Frames
        BY <1>1, <2>2 DEF Known, IsRecord
      <3> QED
        BY <3>1, RecordIs
    <2>4. /\ i < RecordLen(k) => j < Len(Recs) /\ Recs[j + 1] = [k |-> k, f |-> f, i |-> i + 1]
          /\ i = RecordLen(k) /\ j < Len(Recs) => Recs[j + 1].i = 1
      BY <1>1, <2>1 DEF RecsOK
    <2>5. j < offset => Recs[j + 1] = q[j + 1]
      <3>1. ASSUME j < offset PROVE j + 1 \in 1 .. offset
        BY <1>1, <3>1
      <3> QED
        BY <1>2, <3>1
    <2>6. j = 1 => i = 1
      <3>1. ASSUME j = 1 PROVE Recs[1].i = 1 /\ Recs[1] = q[1]
        <4>1. Len(Recs) > 0
          BY <1>1, <1>2
        <4> QED
          BY <1>1, <2>1, <3>1, <4>1 DEF RecsOK
      <3> QED
        BY <3>1
    <2> HIDE DEF r
    <2>7. i < Len(r) => j < offset /\ q[j + 1] = r[i + 1]
      <3>1. ASSUME i < Len(r) PROVE j < offset /\ q[j + 1] = r[i + 1]
        <4>1. i < RecordLen(k) /\ i + 1 \in 1 .. RecordLen(k)
          BY <2>2, <2>3, <3>1
        <4>2. r[i + 1] = [k |-> k, f |-> f, i |-> i + 1]
          BY <2>3, <4>1
        <4> QED
          BY <1>2, <2>4, <2>5, <4>1, <4>2
      <3> QED
        BY <3>1
    <2>8. i = Len(r) /\ j < offset => q[j + 1].i = 1
      BY <1>2, <2>3, <2>4, <2>5
    <2> QED
      BY <2>6, <2>7, <2>8 DEF r
  <1> QED
    BY <1>5, <1>6 DEF Aligned

\* However full the buffer was and however often a frame was cut off, broken or
\* refused, RevCmdHandle finds a whole record at its head, until a frame is
\* converted out of U8 raw bytes or more (256 in the source).
THEOREM AlwaysAligned == Spec => []Aligned
  BY InvAligned, InvAlways, PTL

LEMMA InvOnlySound == Inv => OnlySound
  BY TightLoose DEF Inv, Loose

\* What AppHandleCallback is given by way of RevCmdHandle was sent by the device
\* undamaged behind its header, and comes once and in the order of the frames,
\* whatever was lost on the line, in the buffer or by a timeout, until a frame is
\* converted out of U8 raw bytes or more: after that nothing is said of what it is
\* given.
THEOREM OnlySoundGiven == Spec => []OnlySound
  BY InvOnlySound, InvAlways, PTL
=============================================================================
