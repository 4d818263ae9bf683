----------------------------- MODULE FifoProofs -----------------------------
(***************************************************************************)
(* Proofs about Fifo, for every array length and every set of byte values: *)
(* the counters stay in range, no call leaves the array, and the buffer    *)
(* implements the bounded queue of ByteQueue.                              *)
(***************************************************************************)
EXTENDS Fifo, SequenceTheorems, TLAPS

\* Reducing an index below twice the length of the array.
LEMMA ModOnce ==
  ASSUME NEW L \in Nat \ {0}, NEW x \in Nat, x < 2 * L
  PROVE  x % L = IF x < L THEN x ELSE x - L
<1>1. CASE x < L  BY <1>1, SMT
<1>2. CASE x >= L
  <2>1. x - L \in 0 .. L - 1  BY <1>2
  <2>2. x = (x - L) + L  OBVIOUS
  <2> QED BY <1>2, <2>1, SMTT(20)
<1> QED BY <1>1, <1>2

\* What a legal request can store: the sums of the write operations do not wrap.
LEMMA SumsFit ==
  ASSUME TypeOK, NEW n \in 0 .. MaxLen
  PROVE  /\ (Datalen + n) % U16 = Datalen + n
         /\ (Datalen + FifoOffset) % U16 = Datalen + FifoOffset
         /\ Datalen + FifoOffset + n \in Nat
         /\ Datalen + FifoOffset + n < 2 * U16
BY FifoAssumption, SMT DEF TypeOK, U16

LEMMA StringType ==
  ASSUME NEW s \in Strings
  PROVE  /\ Len(s) \in 0 .. MaxLen
         /\ s \in [1 .. Len(s) -> Byte]
         /\ s \in Seq(Byte)
<1>1. PICK n \in 0 .. MaxLen : s \in [1 .. n -> Byte]  BY DEF Strings
<1>2. n \in Nat  BY FifoAssumption
<1>3. s \in Seq(Byte)  BY <1>1, <1>2
<1>4. Len(s) = n  BY <1>1, <1>2, <1>3
<1> QED BY <1>1, <1>3, <1>4

\* A memcpy whose source holds the bytes it needs leaves an array of bytes.
LEMMA MemcpyType ==
  ASSUME NEW m \in [Index -> Byte], NEW a \in Nat, NEW from \in Nat, NEW n \in Nat,
         NEW k \in Nat, NEW s \in [1 .. k -> Byte], from + n <= k
  PROVE  Memcpy(m, a, s, from, n) \in [Index -> Byte]
<1> SUFFICES ASSUME NEW x \in Index
             PROVE  (IF a <= x /\ x < a + n THEN s[from + (x - a) + 1] ELSE m[x]) \in Byte
  BY DEF Memcpy
<1>1. x \in Nat  BY FifoAssumption DEF Index
<1>2. CASE a <= x /\ x < a + n
  <2>1. from + (x - a) + 1 \in 1 .. k  BY <1>1, <1>2
  <2> QED BY <1>2, <2>1
<1>3. CASE ~(a <= x /\ x < a + n)  BY <1>3
<1> QED BY <1>2, <1>3

\* Where the first byte of a write goes.
LEMMA HeadInArray ==
  ASSUME TypeOK
  PROVE  /\ (Datalen + FifoOffset) % FifoLen \in Index
         /\ (Datalen + FifoOffset) % FifoLen \in Nat
         /\ Datalen + FifoOffset < 2 * FifoLen =>
              (Datalen + FifoOffset) % FifoLen =
                IF Datalen + FifoOffset < FifoLen
                  THEN Datalen + FifoOffset ELSE Datalen + FifoOffset - FifoLen
<1>1. Datalen \in Nat /\ FifoOffset \in Nat /\ FifoLen \in Nat \ {0}
  BY FifoAssumption DEF TypeOK
<1>2. Datalen + FifoOffset \in Nat  BY <1>1
<1>3. (Datalen + FifoOffset) % FifoLen \in 0 .. FifoLen - 1
  <2> DEFINE x == Datalen + FifoOffset
  <2>1. x \in Nat /\ FifoLen \in Nat \ {0}  BY <1>1, <1>2
  <2> HIDE DEF x
  <2>2. x % FifoLen \in 0 .. FifoLen - 1  BY <2>1
  <2> QED BY <2>2 DEF x
<1>4. ASSUME Datalen + FifoOffset < 2 * FifoLen
      PROVE  (Datalen + FifoOffset) % FifoLen =
               IF Datalen + FifoOffset < FifoLen
                 THEN Datalen + FifoOffset ELSE Datalen + FifoOffset - FifoLen
  <2> DEFINE x == Datalen + FifoOffset
  <2>1. x \in Nat /\ x < 2 * FifoLen  BY <1>2, <1>4
  <2> HIDE DEF x
  <2>2. x % FifoLen = IF x < FifoLen THEN x ELSE x - FifoLen  BY <1>1, <2>1, ModOnce
  <2> QED BY <1>1, <1>2, <2>2 DEF x
<1> QED BY <1>3, <1>4 DEF Index

-----------------------------------------------------------------------------
(* The write operations, with their u16 sums and remainders simplified. *)

LEMMA PushFacts ==
  ASSUME TypeOK, NEW b \in Byte, FifoPushOneByte(b)
  PROVE  /\ TypeOK'
         /\ touched' \subseteq Index
<1> DEFINE head == ((Datalen + FifoOffset) % U16) % FifoLen
<1>1. head = (Datalen + FifoOffset) % FifoLen /\ head \in Index /\ head \in Nat
  BY SumsFit, HeadInArray, FifoAssumption
<1>2. CASE Datalen < FifoLen
  <2>1. Datalen' = (Datalen + 1) % U16 /\ mem' = Memcpy(mem, head, <<b>>, 0, 1)
        /\ touched' = {head} /\ ret' = 1 /\ FifoOffset' = FifoOffset
    BY <1>2 DEF FifoPushOneByte
  <2>2. Datalen' = Datalen + 1  BY <1>2, <2>1, FifoAssumption, SMT DEF TypeOK, U16
  <2>3. mem' \in [Index -> Byte]
    <3>1. <<b>> \in [1 .. 1 -> Byte]  OBVIOUS
    <3> HIDE DEF head
    <3>2. mem \in [Index -> Byte]  BY DEF TypeOK
    <3>3. 0 + 1 <= 1 /\ 0 \in Nat /\ 1 \in Nat  OBVIOUS
    <3>4. Memcpy(mem, head, <<b>>, 0, 1) \in [Index -> Byte]
      BY <1>1, <3>1, <3>2, <3>3, MemcpyType
    <3> QED BY <2>1, <3>4
  <2> HIDE DEF head
  <2> QED BY <1>1, <1>2, <2>1, <2>2, <2>3, FifoAssumption DEF TypeOK
<1>3. CASE ~(Datalen < FifoLen)
  BY <1>3 DEF FifoPushOneByte, TypeOK
<1> QED BY <1>2, <1>3

LEMMA InputFacts ==
  ASSUME TypeOK, NEW s \in Strings, FifoInput(s)
  PROVE  /\ TypeOK'
         /\ touched' \subseteq Index
<1> DEFINE len   == Len(s)
           start == Datalen + FifoOffset
           wrap  == start % FifoLen
           temp  == FifoLen - start
<1>1. len \in Nat /\ len \in 0 .. MaxLen /\ s \in [1 .. len -> Byte]
  BY StringType, FifoAssumption
<1>2. /\ Datalen \in Nat /\ FifoOffset \in Nat /\ FifoLen \in Nat /\ FifoLen > 0
      /\ Datalen <= FifoLen /\ FifoOffset <= FifoLen /\ mem \in [Index -> Byte]
      /\ start \in Nat
  BY FifoAssumption DEF TypeOK
<1>3. (Datalen + len) % U16 = Datalen + len /\ (Datalen + FifoOffset) % U16 = start
  BY <1>1, SumsFit
<1>4. Datalen + len <= FifoLen => (start + len) % U16 = start + len
  BY <1>1, <1>2, FifoAssumption, SMT DEF U16
<1>5. /\ wrap \in Nat /\ wrap \in Index
      /\ start < 2 * FifoLen => wrap = IF start < FifoLen THEN start ELSE start - FifoLen
  BY <1>2, HeadInArray
<1>6. CASE Datalen + len <= FifoLen /\ (start >= FifoLen \/ start + len <= FifoLen)
  <2>1. /\ mem' = Memcpy(mem, wrap, s, 0, len) /\ touched' = Block(wrap, len)
        /\ Datalen' = Datalen + len /\ ret' = 1 /\ FifoOffset' = FifoOffset
    <3> HIDE DEF len, start
    <3> QED BY <1>1, <1>2, <1>3, <1>4, <1>6 DEF FifoInput, start, len
  <2>2. wrap + len <= FifoLen
    <3>1. CASE start < 2 * FifoLen
      <4> HIDE DEF wrap
      <4> QED BY <1>1, <1>2, <1>5, <1>6, <3>1
    <3>2. CASE start >= 2 * FifoLen
      <4>1. len = 0  BY <1>1, <1>2, <1>6, <3>2
      <4> HIDE DEF wrap, len
      <4> QED BY <1>5, <4>1, <1>2 DEF Index
    <3> QED BY <1>2, <3>1, <3>2
  <2> HIDE DEF wrap, len
  <2>3. mem' \in [Index -> Byte]  BY <1>1, <1>2, <1>5, <2>1, MemcpyType
  <2>4. touched' \subseteq Index  BY <1>1, <1>2, <1>5, <2>1, <2>2 DEF Block, Index
  <2> QED BY <1>1, <1>2, <1>6, <2>1, <2>3, <2>4 DEF TypeOK
<1>7. CASE Datalen + len <= FifoLen /\ start < FifoLen /\ start + len > FifoLen
  <2>1. /\ mem' = Memcpy(Memcpy(mem, start, s, 0, temp), 0, s, temp, len - temp)
        /\ touched' = Block(start, temp) \cup Block(0, len - temp)
        /\ Datalen' = Datalen + len /\ ret' = 1 /\ FifoOffset' = FifoOffset
    <3> HIDE DEF len, start
    <3> QED BY <1>1, <1>2, <1>3, <1>4, <1>7 DEF FifoInput, start, len
  <2>2. temp \in Nat /\ temp <= len /\ len - temp \in Nat /\ len - temp <= FifoLen
    BY <1>1, <1>2, <1>7
  <2> HIDE DEF temp, len
  <2>3. Memcpy(mem, start, s, 0, temp) \in [Index -> Byte]
    BY <1>1, <1>2, <2>2, MemcpyType
  <2>4. mem' \in [Index -> Byte]
    <3> DEFINE m == Memcpy(mem, start, s, 0, temp)
    <3>1. m \in [Index -> Byte]  BY <2>3
    <3>2. temp + (len - temp) <= len /\ 0 \in Nat  BY <1>1, <2>2
    <3> HIDE DEF m
    <3>3. Memcpy(m, 0, s, temp, len - temp) \in [Index -> Byte]
      BY <1>1, <2>2, <3>1, <3>2, MemcpyType
    <3> QED BY <2>1, <3>3 DEF m
  <2>5. touched' \subseteq Index
    BY <1>1, <1>2, <2>1, <2>2 DEF Block, Index, temp
  <2> QED BY <1>1, <1>2, <1>7, <2>1, <2>4, <2>5 DEF TypeOK
<1>8. CASE Datalen + len > FifoLen
  BY <1>1, <1>2, <1>3, <1>8 DEF FifoInput, TypeOK
<1> QED BY <1>1, <1>2, <1>6, <1>7, <1>8

-----------------------------------------------------------------------------
(* The read and delete operations. *)

LEMMA FetchedInArray ==
  ASSUME NEW a \in 0 .. FifoLen, NEW n \in 0 .. FifoLen
  PROVE  Fetched(a, n) \subseteq Index
BY FifoAssumption DEF Fetched, Block, Index

LEMMA LeastFacts ==
  ASSUME NEW a \in Nat, NEW b \in Nat
  PROVE  Least(a, b) \in Nat /\ Least(a, b) <= a /\ Least(a, b) <= b
BY DEF Least

LEMMA OutputFacts ==
  ASSUME TypeOK, NEW len \in 0 .. MaxLen, FifoOutput(len)
  PROVE  /\ TypeOK'
         /\ touched' \subseteq Index
<1> DEFINE n == Least(len, Datalen)
<1>1. n \in Nat /\ n <= Datalen  BY FifoAssumption DEF TypeOK, Least
<1>2. /\ touched' = Fetched(FifoOffset, n) /\ FifoOffset' = Advance(n)
      /\ Datalen' = Datalen - n /\ ret' = n /\ mem' = mem
  BY DEF FifoOutput
<1> HIDE DEF n
<1>3. touched' \subseteq Index
  BY <1>1, <1>2, FetchedInArray, FifoAssumption DEF TypeOK
<1> QED BY <1>1, <1>2, <1>3, FifoAssumption DEF TypeOK, Advance

LEMMA CopyFacts ==
  ASSUME TypeOK, NEW offset \in 0 .. MaxLen, NEW len \in 0 .. MaxLen, FifoCopy(offset, len)
  PROVE  /\ TypeOK'
         /\ touched' \subseteq Index
<1> DEFINE n == IF offset <= Datalen THEN Least(len, Datalen - offset) ELSE 0
           x == FifoOffset + offset
<1>1. n \in Nat /\ n <= Datalen
  <2>1. CASE offset <= Datalen
    <3>1. Datalen - offset \in Nat /\ len \in Nat
      BY <2>1, FifoAssumption DEF TypeOK
    <3>2. n = Least(len, Datalen - offset)  BY <2>1
    <3>3. Datalen - offset <= Datalen  BY FifoAssumption DEF TypeOK
    <3> HIDE DEF n
    <3> QED BY <3>1, <3>2, <3>3, LeastFacts, FifoAssumption DEF TypeOK
  <2>2. CASE ~(offset <= Datalen)  BY <2>2, FifoAssumption DEF TypeOK
  <2> QED BY <2>1, <2>2
<1>2. x \in Nat  BY FifoAssumption DEF TypeOK
<1>3. /\ touched' = Fetched(x % FifoLen, n) /\ ret' = n
      /\ mem' = mem /\ Datalen' = Datalen /\ FifoOffset' = FifoOffset
  BY DEF FifoCopy
<1> HIDE DEF n, x
<1>4. x % FifoLen \in 0 .. FifoLen - 1  BY <1>2, FifoAssumption
<1> DEFINE a == x % FifoLen
<1>5. a \in 0 .. FifoLen  BY <1>4, FifoAssumption
<1>6. touched' = Fetched(a, n)  BY <1>3
<1> HIDE DEF a
<1>7. n \in 0 .. FifoLen  BY <1>1, FifoAssumption DEF TypeOK
<1>8. touched' \subseteq Index  BY <1>5, <1>6, <1>7, FetchedInArray
<1> QED BY <1>1, <1>3, <1>8 DEF TypeOK

LEMMA DeletFacts ==
  ASSUME TypeOK, NEW len \in 0 .. MaxLen, FifoDeletHead(len) \/ FifoDeletTail(len)
  PROVE  /\ TypeOK'
         /\ touched' \subseteq Index
<1> DEFINE n == Least(len, Datalen)
<1>1. n \in Nat /\ n <= Datalen  BY FifoAssumption DEF TypeOK, Least
<1>2. /\ Datalen' = Datalen - n /\ ret' = n /\ touched' = {} /\ mem' = mem
      /\ FifoOffset' \in {FifoOffset, IF n <= FifoLen - FifoOffset
                                        THEN FifoOffset + n ELSE FifoOffset - (FifoLen - n)}
  BY DEF FifoDeletHead, FifoDeletTail
<1> HIDE DEF n
<1> QED BY <1>1, <1>2, FifoAssumption DEF TypeOK

-----------------------------------------------------------------------------
(* The invariants. *)

LEMMA StepFacts ==
  ASSUME TypeOK, InBounds, [Next]_vars
  PROVE  TypeOK' /\ InBounds'
<1>1. CASE \E b \in Byte : FifoPushOneByte(b)  BY <1>1, PushFacts DEF InBounds, Index
<1>2. CASE \E s \in Strings : FifoInput(s)  BY <1>2, InputFacts DEF InBounds, Index
<1>3. CASE \E len \in 0 .. MaxLen : FifoOutput(len)  BY <1>3, OutputFacts DEF InBounds, Index
<1>4. CASE \E offset, len \in 0 .. MaxLen : FifoCopy(offset, len)
  BY <1>4, CopyFacts DEF InBounds, Index
<1>5. CASE \E len \in 0 .. MaxLen : FifoDeletHead(len) \/ FifoDeletTail(len)
  BY <1>5, DeletFacts DEF InBounds, Index
<1>6. CASE UNCHANGED vars  BY <1>6 DEF vars, TypeOK, InBounds, Index
<1> QED BY <1>1, <1>2, <1>3, <1>4, <1>5, <1>6 DEF Next

LEMMA InitFacts == Init => TypeOK /\ InBounds
BY FifoAssumption DEF Init, FifoInit, TypeOK, InBounds

\* Datalen and FifoOffset of FifoTyp stay within the buffer, for every buffer
\* length the u16 fields can describe.
THEOREM TypeCorrect == Spec => []TypeOK
<1>1. TypeOK /\ InBounds /\ [Next]_vars => (TypeOK /\ InBounds)'  BY StepFacts
<1> QED BY InitFacts, <1>1, PTL DEF Spec

\* No call of common.c reads or writes outside the array of the buffer.
THEOREM MemorySafe == Spec => []InBounds
<1>1. TypeOK /\ InBounds /\ [Next]_vars => (TypeOK /\ InBounds)'  BY StepFacts
<1> QED BY InitFacts, <1>1, PTL DEF Spec
-----------------------------------------------------------------------------
(* The circular buffer implements the bounded queue: every step of Fifo is, *)
(* on the bytes held, a step of ByteQueue.                                  *)

\* Index of the i-th oldest byte of a buffer whose oldest byte is at o.
Slot(o, i) == IF o + i - 1 < FifoLen THEN o + i - 1 ELSE o + i - 1 - FifoLen

LEMMA SlotIs ==
  ASSUME NEW o \in 0 .. FifoLen, NEW i \in 1 .. FifoLen
  PROVE  (o + i - 1) % FifoLen = Slot(o, i) /\ Slot(o, i) \in Index
<1> DEFINE x == o + i - 1
<1>1. /\ x \in Nat /\ x < 2 * FifoLen /\ FifoLen \in Nat \ {0}
  BY FifoAssumption
<1>2. o \in Nat /\ i \in Nat  BY FifoAssumption
<1> HIDE DEF x
<1>3. x % FifoLen = IF x < FifoLen THEN x ELSE x - FifoLen  BY <1>1, ModOnce
<1>4. (o + i - 1) % FifoLen = Slot(o, i)  BY <1>1, <1>2, <1>3 DEF x, Slot
<1>5. Slot(o, i) \in Index  BY <1>1, <1>2 DEF Slot, Index
<1> QED BY <1>4, <1>5

\* The bytes held as a sequence.
Held(m, o, d) == [i \in 1 .. d |-> m[Slot(o, i)]]

LEMMA ContentsIs ==
  ASSUME NEW m \in [Index -> Byte], NEW o \in 0 .. FifoLen, NEW d \in 0 .. FifoLen
  PROVE  /\ [i \in 1 .. d |-> m[(o + i - 1) % FifoLen]] = Held(m, o, d)
         /\ Held(m, o, d) \in Seq(Byte)
         /\ Len(Held(m, o, d)) = d
         /\ \A i \in 1 .. d : Held(m, o, d)[i] = m[Slot(o, i)]
<1>1. d \in Nat /\ 1 .. d \subseteq 1 .. FifoLen  BY FifoAssumption
<1>2. \A i \in 1 .. d : /\ m[(o + i - 1) % FifoLen] = m[Slot(o, i)]
                        /\ m[Slot(o, i)] \in Byte
  BY <1>1, SlotIs
<1>3. Held(m, o, d) \in [1 .. d -> Byte]  BY <1>2 DEF Held
<1>4. Held(m, o, d) \in Seq(Byte) /\ Len(Held(m, o, d)) = d  BY <1>1, <1>3
<1> QED BY <1>2, <1>4 DEF Held

\* Removing the n oldest bytes.
LEMMA DropOldestHeld ==
  ASSUME NEW m \in [Index -> Byte], NEW o \in 0 .. FifoLen, NEW d \in 0 .. FifoLen,
         NEW n \in 0 .. d
  PROVE  LET o2 == IF n <= FifoLen - o THEN o + n ELSE n - (FifoLen - o) IN
         /\ o2 \in 0 .. FifoLen
         /\ Held(m, o2, d - n) = SubSeq(Held(m, o, d), n + 1, d)
<1> DEFINE o2 == IF n <= FifoLen - o THEN o + n ELSE n - (FifoLen - o)
           a  == Held(m, o2, d - n)
           b  == SubSeq(Held(m, o, d), n + 1, d)
<1>1. /\ o \in Nat /\ d \in Nat /\ n \in Nat /\ FifoLen \in Nat /\ d - n \in Nat
      /\ o2 \in 0 .. FifoLen /\ d - n \in 0 .. FifoLen
  BY FifoAssumption
<1>2. a \in Seq(Byte) /\ Len(a) = d - n /\ \A i \in 1 .. d - n : a[i] = m[Slot(o2, i)]
  <2> HIDE DEF o2
  <2> QED BY <1>1, ContentsIs
<1>3. \A i \in 1 .. d - n : Slot(o2, i) = Slot(o, i + n)
  BY <1>1 DEF Slot
<1>4. b = [i \in 1 .. d - n |-> m[Slot(o, i + n)]]
  <2> DEFINE h == Held(m, o, d)
  <2>1. h \in Seq(Byte) /\ Len(h) = d /\ \A i \in 1 .. d : h[i] = m[Slot(o, i)]
    BY ContentsIs
  <2> HIDE DEF h
  <2>2. SubSeq(h, n + 1, d) = [i \in 1 .. d - n |-> h[i + n]]
    BY <1>1, <2>1, SubSeqProperties
  <2>3. \A i \in 1 .. d - n : h[i + n] = m[Slot(o, i + n)]
    BY <1>1, <2>1
  <2> QED BY <2>2, <2>3 DEF h
<1>5. a = [i \in 1 .. d - n |-> m[Slot(o, i + n)]]
  <2> HIDE DEF o2
  <2> QED BY <1>1, <1>3 DEF Held
<1> QED BY <1>1, <1>4, <1>5

\* Removing the n newest bytes.
LEMMA DropNewestHeld ==
  ASSUME NEW m \in [Index -> Byte], NEW o \in 0 .. FifoLen, NEW d \in 0 .. FifoLen,
         NEW n \in 0 .. d
  PROVE  Held(m, o, d - n) = SubSeq(Held(m, o, d), 1, d - n)
<1> DEFINE h == Held(m, o, d)
<1>1. h \in Seq(Byte) /\ Len(h) = d /\ \A i \in 1 .. d : h[i] = m[Slot(o, i)]
  BY ContentsIs
<1>2. d \in Nat /\ n \in Nat /\ d - n \in Nat  BY FifoAssumption
<1> HIDE DEF h
<1>3. SubSeq(h, 1, d - n) = [i \in 1 .. d - n |-> h[i]]  BY <1>1, <1>2
<1>4. \A i \in 1 .. d - n : h[i] = m[Slot(o, i)]  BY <1>1, <1>2
<1> QED BY <1>3, <1>4 DEF h, Held

\* What the two memcpy calls of a read deliver.
LEMMA FetchHeld ==
  ASSUME TypeOK, NEW off \in 0 .. Datalen, NEW n \in 0 .. (Datalen - off),
         NEW a \in 0 .. FifoLen,
         n > 0 => a \in {FifoOffset + off, FifoOffset + off - FifoLen}
  PROVE  Fetch(a, n) = SubSeq(Held(mem, FifoOffset, Datalen), off + 1, off + n)
<1> DEFINE h == Held(mem, FifoOffset, Datalen)
<1>1. /\ h \in Seq(Byte) /\ Len(h) = Datalen
      /\ \A i \in 1 .. Datalen : h[i] = mem[Slot(FifoOffset, i)]
  BY ContentsIs DEF TypeOK
<1>2. /\ Datalen \in Nat /\ FifoOffset \in Nat /\ FifoLen \in Nat /\ off \in Nat
      /\ n \in Nat /\ a \in Nat /\ Datalen <= FifoLen /\ FifoOffset <= FifoLen
      /\ off + n <= Datalen
  BY FifoAssumption DEF TypeOK
<1> HIDE DEF h
<1>3. SubSeq(h, off + 1, off + n) = [i \in 1 .. n |-> h[i + off]]
  BY <1>1, <1>2, SubSeqProperties
<1>4. \A i \in 1 .. n : h[i + off] = mem[Slot(FifoOffset, i + off)]  BY <1>1, <1>2
<1>5. \A i \in 1 .. n :
        (IF i <= FifoLen - a THEN mem[a + i - 1] ELSE mem[i - (FifoLen - a) - 1])
          = mem[Slot(FifoOffset, i + off)]
  BY <1>2 DEF Slot
<1>6. Fetch(a, n) = [i \in 1 .. n |-> mem[Slot(FifoOffset, i + off)]]
  BY <1>5 DEF Fetch
<1> QED BY <1>3, <1>4, <1>6 DEF h

\* Memory m2 is m with s written behind the d bytes held.
Written(m2, m, o, d, s) ==
  /\ \A i \in 1 .. d : m2[Slot(o, i)] = m[Slot(o, i)]
  /\ \A i \in 1 .. Len(s) : m2[Slot(o, d + i)] = s[i]

\* What a write adds, whether or not it wraps round the end of the array.
LEMMA AppendHeld ==
  ASSUME NEW m \in [Index -> Byte], NEW m2 \in [Index -> Byte],
         NEW o \in 0 .. FifoLen, NEW d \in 0 .. FifoLen,
         NEW s \in Seq(Byte), d + Len(s) <= FifoLen, Written(m2, m, o, d, s)
  PROVE  Held(m2, o, d + Len(s)) = Held(m, o, d) \o s
<1> DEFINE n == Len(s)
           h == Held(m, o, d)
           g == Held(m2, o, d + n)
<1>1. n \in Nat /\ d \in Nat /\ d + n \in 0 .. FifoLen  BY FifoAssumption
<1>2. h \in Seq(Byte) /\ Len(h) = d /\ \A i \in 1 .. d : h[i] = m[Slot(o, i)]
  BY ContentsIs
<1>3. g \in Seq(Byte) /\ Len(g) = d + n /\ \A i \in 1 .. d + n : g[i] = m2[Slot(o, i)]
  <2> HIDE DEF n
  <2> QED BY <1>1, ContentsIs
<1>4. /\ h \o s \in Seq(Byte) /\ Len(h \o s) = d + n
      /\ \A i \in 1 .. d + n : (h \o s)[i] = IF i <= d THEN h[i] ELSE s[i - d]
  <2> HIDE DEF h
  <2> QED BY <1>2, ConcatProperties
<1>5. \A i \in 1 .. n : m2[Slot(o, d + i)] = s[i]  BY DEF Written
<1> HIDE DEF h, g, n
<1>6. \A i \in 1 .. d + n : g[i] = (h \o s)[i]
  <2> TAKE i \in 1 .. d + n
  <2>1. CASE i <= d
    <3>1. i \in 1 .. d  BY <1>1, <2>1
    <3>2. g[i] = m2[Slot(o, i)] /\ h[i] = m[Slot(o, i)] /\ (h \o s)[i] = h[i]
      BY <1>1, <1>2, <1>3, <1>4, <2>1, <3>1
    <3>3. m2[Slot(o, i)] = m[Slot(o, i)]  BY <3>1 DEF Written
    <3> QED BY <3>2, <3>3
  <2>2. CASE i > d
    <3>1. i - d \in 1 .. n /\ d + (i - d) = i  BY <1>1, <2>2
    <3>2. m2[Slot(o, d + (i - d))] = s[i - d]  BY <1>5, <3>1
    <3>3. g[i] = m2[Slot(o, i)] /\ (h \o s)[i] = s[i - d]  BY <1>1, <1>3, <1>4, <2>2
    <3> QED BY <3>1, <3>2, <3>3
  <2>3. i <= d \/ i > d  BY <1>1
  <2> QED BY <2>1, <2>2, <2>3
<1>7. g = h \o s  BY <1>3, <1>4, <1>6, SeqEqual
<1> QED BY <1>7 DEF g, h, n

-----------------------------------------------------------------------------
(* The steps. *)

LEMMA ContentsHeld ==
  ASSUME TypeOK
  PROVE  /\ Contents = Held(mem, FifoOffset, Datalen)
         /\ Contents \in Seq(Byte)
         /\ Len(Contents) = Datalen
<1> DEFINE h == Held(mem, FifoOffset, Datalen)
<1>1. /\ [i \in 1 .. Datalen |-> mem[(FifoOffset + i - 1) % FifoLen]] = h
      /\ h \in Seq(Byte) /\ Len(h) = Datalen
  BY ContentsIs DEF TypeOK
<1>2. Contents = h  BY <1>1 DEF Contents
<1> HIDE DEF h
<1>3. Len(Contents) = Datalen /\ Contents \in Seq(Byte)  BY <1>1, <1>2
<1> QED BY <1>2, <1>3 DEF h

LEMMA ContentsHeldNext ==
  ASSUME TypeOK'
  PROVE  Contents' = Held(mem', FifoOffset', Datalen')
BY ContentsIs DEF TypeOK, Contents

LEMMA OutputStep ==
  ASSUME TypeOK, NEW len \in 0 .. MaxLen, FifoOutput(len)
  PROVE  Queue!Get(len)
<1> DEFINE n == Least(len, Datalen)
<1>1. n \in 0 .. Datalen  BY FifoAssumption DEF TypeOK, Least
<1>2. /\ out' = Fetch(FifoOffset, n) /\ FifoOffset' = Advance(n)
      /\ Datalen' = Datalen - n /\ ret' = n /\ mem' = mem
  BY DEF FifoOutput
<1>3. Queue!Least(len, Datalen) = n  BY DEF Queue!Least, Least
<1> HIDE DEF n
<1>4. out' = SubSeq(Contents, 1, n)
  <2>1. FifoOffset \in 0 .. FifoLen /\ n \in 0 .. (Datalen - 0) /\ 0 \in 0 .. Datalen
        /\ FifoOffset = FifoOffset + 0
    BY <1>1, FifoAssumption DEF TypeOK
  <2>2. Fetch(FifoOffset, n) = SubSeq(Held(mem, FifoOffset, Datalen), 0 + 1, 0 + n)
    BY <2>1, FetchHeld
  <2>3. 0 + n = n /\ 0 + 1 = 1  BY <1>1, FifoAssumption DEF TypeOK
  <2> QED BY <1>2, <2>2, <2>3, ContentsHeld
<1>5. Contents' = SubSeq(Contents, n + 1, Datalen)
  <2>1. Held(mem, Advance(n), Datalen - n) = SubSeq(Held(mem, FifoOffset, Datalen), n + 1, Datalen)
    BY <1>1, DropOldestHeld DEF TypeOK, Advance
  <2>2. TypeOK'  BY OutputFacts
  <2>3. Contents' = Held(mem', FifoOffset', Datalen')  BY <2>2, ContentsHeldNext
  <2> QED BY <1>2, <2>1, <2>3, ContentsHeld
<1> QED BY <1>2, <1>3, <1>4, <1>5, ContentsHeld DEF Queue!Get

LEMMA DeletTailStep ==
  ASSUME TypeOK, NEW len \in 0 .. MaxLen, FifoDeletTail(len)
  PROVE  Queue!DropOldest(len)
<1> DEFINE n == Least(len, Datalen)
<1>1. n \in 0 .. Datalen  BY FifoAssumption DEF TypeOK, Least
<1>2. /\ FifoOffset' = IF n <= FifoLen - FifoOffset THEN FifoOffset + n
                                                    ELSE FifoOffset - (FifoLen - n)
      /\ Datalen' = Datalen - n /\ out' = <<>> /\ ret' = n /\ mem' = mem
  BY DEF FifoDeletTail
<1>3. Queue!Least(len, Datalen) = n  BY DEF Queue!Least, Least
<1> HIDE DEF n
<1>4. Contents' = SubSeq(Contents, n + 1, Datalen)
  <2> DEFINE o2 == IF n <= FifoLen - FifoOffset THEN FifoOffset + n
                                                ELSE n - (FifoLen - FifoOffset)
  <2>1. Held(mem, o2, Datalen - n) = SubSeq(Held(mem, FifoOffset, Datalen), n + 1, Datalen)
    BY <1>1, DropOldestHeld DEF TypeOK
  <2>2. TypeOK'  BY DeletFacts
  <2>3. Contents' = Held(mem', FifoOffset', Datalen')  BY <2>2, ContentsHeldNext
  <2>4. FifoOffset' = o2  BY <1>1, <1>2, FifoAssumption DEF TypeOK
  <2> HIDE DEF o2
  <2> QED BY <1>2, <2>1, <2>3, <2>4, ContentsHeld
<1> QED BY <1>2, <1>3, <1>4, ContentsHeld DEF Queue!DropOldest

LEMMA DeletHeadStep ==
  ASSUME TypeOK, NEW len \in 0 .. MaxLen, FifoDeletHead(len)
  PROVE  Queue!DropNewest(len)
<1> DEFINE n == Least(len, Datalen)
<1>1. n \in 0 .. Datalen  BY FifoAssumption DEF TypeOK, Least
<1>2. /\ FifoOffset' = FifoOffset /\ Datalen' = Datalen - n
      /\ out' = <<>> /\ ret' = n /\ mem' = mem
  BY DEF FifoDeletHead
<1>3. Queue!Least(len, Datalen) = n  BY DEF Queue!Least, Least
<1> HIDE DEF n
<1>4. Contents' = SubSeq(Contents, 1, Datalen - n)
  <2>1. Held(mem, FifoOffset, Datalen - n) = SubSeq(Held(mem, FifoOffset, Datalen), 1, Datalen - n)
    BY <1>1, DropNewestHeld DEF TypeOK
  <2>2. TypeOK'  BY DeletFacts
  <2>3. Contents' = Held(mem', FifoOffset', Datalen')  BY <2>2, ContentsHeldNext
  <2> QED BY <1>2, <2>1, <2>3, ContentsHeld
<1> QED BY <1>2, <1>3, <1>4, ContentsHeld DEF Queue!DropNewest

LEMMA CopyStep ==
  ASSUME TypeOK, NEW offset \in 0 .. MaxLen, NEW len \in 0 .. MaxLen, FifoCopy(offset, len)
  PROVE  Queue!Peek(offset, len)
<1> DEFINE n == IF offset <= Datalen THEN Least(len, Datalen - offset) ELSE 0
           x == FifoOffset + offset
           a == x % FifoLen
<1>1. /\ Datalen \in Nat /\ FifoOffset \in Nat /\ FifoLen \in Nat \ {0} /\ offset \in Nat
      /\ len \in Nat /\ Datalen <= FifoLen /\ FifoOffset <= FifoLen /\ x \in Nat
  BY FifoAssumption DEF TypeOK
<1>2. n = IF offset <= Datalen THEN Queue!Least(len, Datalen - offset) ELSE 0
  BY DEF Queue!Least, Least
<1>3. /\ out' = Fetch(a, n) /\ ret' = n
      /\ mem' = mem /\ Datalen' = Datalen /\ FifoOffset' = FifoOffset
  BY DEF FifoCopy
<1>4. /\ n \in Nat
      /\ offset <= Datalen => n \in 0 .. (Datalen - offset)
      /\ offset > Datalen => n = 0
  BY <1>1 DEF Least
<1>5. Contents' = Contents  BY <1>3 DEF Contents
<1> HIDE DEF n
<1>6. a \in 0 .. FifoLen
  <2> HIDE DEF x
  <2> QED BY <1>1
<1>7. x < 2 * FifoLen => a \in {x, x - FifoLen}
  <2> HIDE DEF x
  <2> QED BY <1>1, ModOnce
<1>8. out' = SubSeq(Contents, offset + 1, offset + n)
  <2>1. CASE n > 0
    <3>1. offset \in 0 .. Datalen /\ n \in 0 .. (Datalen - offset) /\ x < 2 * FifoLen
      BY <1>1, <1>4, <2>1
    <3>2. a \in {FifoOffset + offset, FifoOffset + offset - FifoLen}  BY <1>1, <1>7, <3>1
    <3> HIDE DEF a
    <3>3. Fetch(a, n) = SubSeq(Held(mem, FifoOffset, Datalen), offset + 1, offset + n)
      BY <1>6, <3>1, <3>2, FetchHeld
    <3> QED BY <1>3, <3>3, ContentsHeld
  <2>2. CASE n = 0
    <3> HIDE DEF a
    <3>1. Fetch(a, n) = <<>>  BY <2>2 DEF Fetch
    <3>2. SubSeq(Contents, offset + 1, offset + n) = <<>>  BY <1>1, <2>2, SubSeqEmpty
    <3> QED BY <1>3, <3>1, <3>2
  <2>3. n > 0 \/ n = 0  BY <1>4
  <2> QED BY <2>1, <2>2, <2>3
<1> QED BY <1>2, <1>3, <1>5, <1>8, ContentsHeld DEF Queue!Peek

LEMMA PushStep ==
  ASSUME TypeOK, NEW b \in Byte, FifoPushOneByte(b)
  PROVE  Queue!Put(<<b>>)
<1> DEFINE start == Datalen + FifoOffset
           head  == start % FifoLen
           s     == <<b>>
<1>1. /\ Datalen \in Nat /\ FifoOffset \in Nat /\ FifoLen \in Nat \ {0}
      /\ Datalen <= FifoLen /\ FifoOffset <= FifoLen /\ mem \in [Index -> Byte]
  BY FifoAssumption DEF TypeOK
<1>2. s \in Seq(Byte) /\ Len(s) = 1 /\ s[1] = b  OBVIOUS
<1>3. start % U16 = start  BY SumsFit, FifoAssumption
<1> HIDE DEF s
<1>4. CASE Datalen < FifoLen
  <2>1. /\ mem' = Memcpy(mem, head, <<b>>, 0, 1) /\ Datalen' = (Datalen + 1) % U16
        /\ ret' = 1 /\ out' = <<>> /\ FifoOffset' = FifoOffset
    BY <1>3, <1>4 DEF FifoPushOneByte
  <2>2. Datalen' = Datalen + 1  BY <1>1, <1>4, <2>1, FifoAssumption, SMT DEF U16
  <2>3. TypeOK'  BY PushFacts
  <2>4. head = Slot(FifoOffset, Datalen + 1)
    <3>1. start < 2 * FifoLen  BY <1>1, <1>4
    <3>2. head = IF start < FifoLen THEN start ELSE start - FifoLen  BY <1>1, <3>1, HeadInArray
    <3> HIDE DEF head
    <3> QED BY <1>1, <3>2 DEF Slot
  <2> HIDE DEF head
  <2>5. \A y \in Index : mem'[y] = IF y = head THEN b ELSE mem[y]
    <3>1. head \in Int /\ \A y \in Index : y \in Int
      BY <1>1, <2>4 DEF Slot, Index
    <3>2. \A y \in Index : mem'[y] = IF head <= y /\ y < head + 1
                                       THEN <<b>>[0 + (y - head) + 1] ELSE mem[y]
      BY <2>1 DEF Memcpy
    <3> QED BY <3>1, <3>2
  <2>6. \A i \in 1 .. Datalen : mem'[Slot(FifoOffset, i)] = mem[Slot(FifoOffset, i)]
    BY <1>1, <1>4, <2>4, <2>5 DEF Slot, Index
  <2>7. \A i \in 1 .. Len(s) : mem'[Slot(FifoOffset, Datalen + i)] = s[i]
    BY <1>1, <1>2, <1>4, <2>4, <2>5 DEF Slot, Index
  <2>8. Held(mem', FifoOffset, Datalen + Len(s)) = Held(mem, FifoOffset, Datalen) \o s
    <3>1. /\ mem' \in [Index -> Byte] /\ Datalen \in 0 .. FifoLen /\ FifoOffset \in 0 .. FifoLen
          /\ Datalen + Len(s) <= FifoLen
      BY <1>1, <1>2, <1>4, <2>3 DEF TypeOK
    <3>2. Written(mem', mem, FifoOffset, Datalen, s)  BY <2>6, <2>7 DEF Written
    <3> QED BY <1>1, <1>2, <3>1, <3>2, AppendHeld
  <2>9. Contents' = Contents \o s
    BY <1>2, <2>1, <2>2, <2>3, <2>8, ContentsHeld, ContentsHeldNext
  <2> QED BY <1>1, <1>2, <1>4, <2>1, <2>9, ContentsHeld DEF Queue!Put, s
<1>5. CASE ~(Datalen < FifoLen)
  <2>1. mem' = mem /\ Datalen' = Datalen /\ FifoOffset' = FifoOffset /\ ret' = 0 /\ out' = <<>>
    BY <1>5 DEF FifoPushOneByte
  <2>2. Contents' = Contents  BY <2>1 DEF Contents
  <2>3. ~(Len(Contents) + Len(s) <= FifoLen)  BY <1>1, <1>2, <1>5, ContentsHeld
  <2> QED BY <2>1, <2>2, <2>3 DEF Queue!Put, s
<1> QED BY <1>4, <1>5

\* Both ways of writing a string put it behind the bytes held.
LEMMA InputWrites ==
  ASSUME TypeOK, NEW s \in Strings, FifoInput(s), Datalen + Len(s) <= FifoLen
  PROVE  Written(mem', mem, FifoOffset, Datalen, s)
<1> DEFINE len   == Len(s)
           start == Datalen + FifoOffset
           wrap  == start % FifoLen
           temp  == FifoLen - start
<1>1. /\ Datalen \in Nat /\ FifoOffset \in Nat /\ FifoLen \in Nat \ {0}
      /\ Datalen <= FifoLen /\ FifoOffset <= FifoLen /\ start \in Nat /\ len \in Nat
      /\ Datalen + len <= FifoLen
  BY StringType, FifoAssumption DEF TypeOK
<1>2. /\ (Datalen + len) % U16 = Datalen + len /\ (Datalen + FifoOffset) % U16 = start
      /\ (start + len) % U16 = start + len
  <2>1. len \in 0 .. MaxLen  BY StringType
  <2>2. (start + len) % U16 = start + len  BY <1>1, FifoAssumption, SMT DEF U16
  <2> QED BY <2>1, <2>2, SumsFit
<1>3. CASE start >= FifoLen \/ start + len <= FifoLen
  <2>1. mem' = Memcpy(mem, wrap, s, 0, len)
    <3>1. ((Datalen + FifoOffset) % U16) % FifoLen = wrap  BY <1>2
    <3> HIDE DEF len, start, wrap
    <3> QED BY <1>1, <1>2, <1>3, <3>1 DEF FifoInput, start, len
  <2>2. wrap \in Nat /\ (len > 0 => wrap = IF start < FifoLen THEN start ELSE start - FifoLen)
    <3>1. wrap \in Nat  BY HeadInArray
    <3>2. len > 0 => start < 2 * FifoLen  BY <1>1
    <3>3. start < 2 * FifoLen => wrap = IF start < FifoLen THEN start ELSE start - FifoLen
      BY <1>1, HeadInArray
    <3> HIDE DEF wrap, start
    <3> QED BY <3>1, <3>2, <3>3
  <2> HIDE DEF wrap, len
  <2>3. \A y \in Index : mem'[y] = IF wrap <= y /\ y < wrap + len
                                     THEN s[0 + (y - wrap) + 1] ELSE mem[y]
    BY <2>1 DEF Memcpy
  <2>4. \A i \in 1 .. Datalen : mem'[Slot(FifoOffset, i)] = mem[Slot(FifoOffset, i)]
    <3> TAKE i \in 1 .. Datalen
    <3> DEFINE y == Slot(FifoOffset, i)
    <3>1. y \in Index /\ i \in Int  BY <1>1 DEF Slot, Index
    <3>2. ~(wrap <= y /\ y < wrap + len)  BY <1>1, <1>3, <2>2 DEF Slot
    <3> HIDE DEF y
    <3> QED BY <2>3, <3>1, <3>2 DEF y
  <2>5. \A i \in 1 .. len : mem'[Slot(FifoOffset, Datalen + i)] = s[i]
    <3> TAKE i \in 1 .. len
    <3> DEFINE y == Slot(FifoOffset, Datalen + i)
    <3>1. y \in Index /\ wrap <= y /\ y < wrap + len /\ 0 + (y - wrap) + 1 = i
      BY <1>1, <1>3, <2>2 DEF Slot, Index
    <3> HIDE DEF y
    <3> QED BY <2>3, <3>1 DEF y
  <2> QED BY <2>4, <2>5 DEF Written, len
<1>4. CASE start < FifoLen /\ start + len > FifoLen
  <2>1. mem' = Memcpy(Memcpy(mem, start, s, 0, temp), 0, s, temp, len - temp)
    <3> HIDE DEF len, start
    <3> QED BY <1>1, <1>2, <1>4 DEF FifoInput, start, len
  <2> HIDE DEF len
  <2>2. \A y \in Index : mem'[y] = IF y < len - temp THEN s[temp + y + 1]
                                   ELSE IF start <= y THEN s[y - start + 1] ELSE mem[y]
    <3> TAKE y \in Index
    <3>1. y \in Int /\ 0 <= y /\ y < FifoLen  BY <1>1 DEF Index
    <3>2. mem'[y] = IF 0 <= y /\ y < 0 + (len - temp) THEN s[temp + (y - 0) + 1]
                    ELSE IF start <= y /\ y < start + temp
                      THEN s[0 + (y - start) + 1] ELSE mem[y]
      BY <2>1 DEF Memcpy
    <3>3. /\ 0 + (len - temp) = len - temp /\ temp + (y - 0) + 1 = temp + y + 1
          /\ 0 + (y - start) + 1 = y - start + 1 /\ y < start + temp /\ 0 <= y
      BY <1>1, <3>1
    <3> HIDE DEF start, temp
    <3> QED BY <3>2, <3>3
  <2>3. \A i \in 1 .. Datalen : mem'[Slot(FifoOffset, i)] = mem[Slot(FifoOffset, i)]
    <3> TAKE i \in 1 .. Datalen
    <3> DEFINE y == Slot(FifoOffset, i)
    <3>1. y \in Index /\ ~(y < len - temp) /\ ~(start <= y)
      BY <1>1, <1>4 DEF Slot, Index
    <3> HIDE DEF y
    <3> QED BY <2>2, <3>1 DEF y
  <2>4. \A i \in 1 .. len : mem'[Slot(FifoOffset, Datalen + i)] = s[i]
    <3> TAKE i \in 1 .. len
    <3> DEFINE y == Slot(FifoOffset, Datalen + i)
    <3>1. /\ y \in Index /\ i \in Int
          /\ y < len - temp => temp + y + 1 = i
          /\ ~(y < len - temp) => start <= y /\ y - start + 1 = i
      BY <1>1, <1>4 DEF Slot, Index
    <3>2. temp + y + 1 \in Int /\ y \in Int  BY <1>1, <3>1 DEF Index
    <3> HIDE DEF y, temp, start
    <3>3. CASE y < len - temp
      BY <2>2, <3>1, <3>3 DEF y
    <3>4. CASE ~(y < len - temp)
      BY <2>2, <3>1, <3>4 DEF y
    <3> QED BY <3>3, <3>4
  <2> QED BY <2>3, <2>4 DEF Written, len
<1> QED BY <1>1, <1>3, <1>4

LEMMA InputStep ==
  ASSUME TypeOK, NEW s \in Strings, FifoInput(s)
  PROVE  Queue!Put(s)
<1>1. /\ Datalen \in Nat /\ FifoOffset \in Nat /\ FifoLen \in Nat
      /\ Len(s) \in Nat /\ Len(s) \in 0 .. MaxLen /\ s \in Seq(Byte)
  BY StringType, FifoAssumption DEF TypeOK
<1>2. (Datalen + Len(s)) % U16 = Datalen + Len(s)  BY <1>1, SumsFit
<1>3. TypeOK'  BY InputFacts
<1>4. out' = <<>> /\ FifoOffset' = FifoOffset  BY DEF FifoInput
<1>5. CASE Datalen + Len(s) <= FifoLen
  <2>1. Datalen' = Datalen + Len(s) /\ ret' = 1  BY <1>1, <1>2, <1>5 DEF FifoInput
  <2>2. Written(mem', mem, FifoOffset, Datalen, s)  BY <1>5, InputWrites
  <2>3. mem \in [Index -> Byte] /\ mem' \in [Index -> Byte]
        /\ Datalen \in 0 .. FifoLen /\ FifoOffset \in 0 .. FifoLen
    BY <1>3 DEF TypeOK, Index
  <2>4. Held(mem', FifoOffset, Datalen + Len(s)) = Held(mem, FifoOffset, Datalen) \o s
    BY <1>1, <1>5, <2>2, <2>3, AppendHeld
  <2>5. Contents' = Contents \o s
    BY <1>3, <1>4, <2>1, <2>4, ContentsHeld, ContentsHeldNext
  <2> QED BY <1>1, <1>4, <1>5, <2>1, <2>5, ContentsHeld DEF Queue!Put
<1>6. CASE Datalen + Len(s) > FifoLen
  <2>1. mem' = mem /\ Datalen' = Datalen /\ ret' = 0  BY <1>1, <1>2, <1>6 DEF FifoInput
  <2>2. Contents' = Contents  BY <1>4, <2>1 DEF Contents
  <2>3. ~(Len(Contents) + Len(s) <= FifoLen)  BY <1>1, <1>6, ContentsHeld
  <2> QED BY <1>4, <2>1, <2>2, <2>3 DEF Queue!Put
<1> QED BY <1>1, <1>5, <1>6

-----------------------------------------------------------------------------
\* FifoInit, FifoPushOneByte, FifoInput, FifoOutput, FifoCopy, FifoDeletHead
\* and FifoDeletTail together behave as a bounded queue, for every length of
\* the array, every set of byte values and every sequence of calls.
THEOREM Refinement == Spec => IsQueue
<1>1. Init => Queue!Init
  <2> SUFFICES ASSUME Init PROVE Queue!Init
    OBVIOUS
  <2>1. TypeOK /\ Datalen = 0 /\ out = <<>> /\ ret = 0
    BY InitFacts DEF Init, FifoInit
  <2>2. Contents = <<>>  BY <2>1, ContentsHeld
  <2> QED BY <2>1, <2>2 DEF Queue!Init
<1>2. TypeOK /\ [Next]_vars => [Queue!Next]_(Queue!vars)
  <2> SUFFICES ASSUME TypeOK, [Next]_vars PROVE [Queue!Next]_(Queue!vars)
    OBVIOUS
  <2>0. Queue!Strings = Strings  BY DEF Queue!Strings, Strings
  <2>1. CASE \E b \in Byte : FifoPushOneByte(b)  BY <2>1, PushStep DEF Queue!Next
  <2>2. CASE \E s \in Strings : FifoInput(s)  BY <2>0, <2>2, InputStep DEF Queue!Next
  <2>3. CASE \E len \in 0 .. MaxLen : FifoOutput(len)  BY <2>3, OutputStep DEF Queue!Next
  <2>4. CASE \E offset, len \in 0 .. MaxLen : FifoCopy(offset, len)
    BY <2>4, CopyStep DEF Queue!Next
  <2>5. CASE \E len \in 0 .. MaxLen : FifoDeletHead(len)
    BY <2>5, DeletHeadStep DEF Queue!Next
  <2>6. CASE \E len \in 0 .. MaxLen : FifoDeletTail(len)
    BY <2>6, DeletTailStep DEF Queue!Next
  <2>7. CASE UNCHANGED vars  BY <2>7 DEF vars, Queue!vars, Contents
  <2> QED BY <2>1, <2>2, <2>3, <2>4, <2>5, <2>6, <2>7 DEF Next
<1> QED BY <1>1, <1>2, TypeCorrect, PTL DEF Spec, IsQueue, Queue!Spec

\* Every call has the effect its own queue operation promises.
THEOREM CallsRefine == Spec => CallsAsQueue
<1> DEFINE Calls ==
      /\ \A b \in Byte : FifoPushOneByte(b) => Queue!Put(<<b>>)
      /\ \A s \in Strings : FifoInput(s) => Queue!Put(s)
      /\ \A len \in 0 .. MaxLen :
           /\ FifoOutput(len) => Queue!Get(len)
           /\ FifoDeletHead(len) => Queue!DropNewest(len)
           /\ FifoDeletTail(len) => Queue!DropOldest(len)
      /\ \A offset, len \in 0 .. MaxLen :
           FifoCopy(offset, len) => Queue!Peek(offset, len)
<1>1. TypeOK => Calls
  BY PushStep, InputStep, OutputStep, DeletHeadStep, DeletTailStep, CopyStep
<1> QED BY <1>1, TypeCorrect, PTL DEF CallsAsQueue
=============================================================================
