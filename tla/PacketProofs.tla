---------------------------- MODULE PacketProofs ----------------------------
(***************************************************************************)
(* What is done to packets, for every input.  Of Codec: base64, the        *)
(* framing of datagrams, byte order and hex strings are undone by their    *)
(* inverses, the text of a datagram fits its buffer, what the test of a    *)
(* time-out answers before and after its clock wraps.  Of Cbc: a message   *)
(* sealed in chained blocks is opened to what it was.  Of JoinPacket, for  *)
(* every table and every sequence of parts: the count of the parts never   *)
(* moves, so no message is put together, and no entry of the table is      *)
(* given back.  JoinAssumption is a hypothesis of each result on the table.*)
(***************************************************************************)
EXTENDS Cbc, JoinPacket, SequenceTheorems, FiniteSetTheorems, WellFoundedInduction, TLAPS

(***************************************************************************)
(* Arithmetic of a group: three bytes, four characters, and back.          *)
(***************************************************************************)
LEMMA FirstBack ==
  ASSUME NEW x \in 0 .. 255, NEW y \in 0 .. 255
  PROVE  ((4 * (x \div 4)) % 256) + (((16 * (x % 4) + y \div 16) \div 16) % 4) = x
  OBVIOUS

LEMMA ThirdBack ==
  ASSUME NEW y \in 0 .. 255, NEW z \in 0 .. 255
  PROVE  ((64 * (4 * (y % 16) + z \div 64)) % 256) + ((z % 64) % 64) = z
  OBVIOUS

LEMMA ValueOf ==
  ASSUME NEW c \in 0 .. 63
  PROVE  Value(c) = c
  BY DEF Value

LEMMA GroupsBounds ==
  ASSUME NEW n \in Nat
  PROVE  /\ Groups(n) \in Nat
         /\ 3 * Groups(n) >= n
         /\ 3 * Groups(n) <= n + 2
  BY DEF Groups

LEMMA ByteInType ==
  ASSUME NEW s \in Seq(Byte), NEW g \in Nat, NEW k \in 1 .. 3
  PROVE  ByteIn(s, g, k) \in 0 .. 255
<1>1. CASE 3 * g + k > Len(s)
  BY <1>1 DEF ByteIn
<1>2. CASE ~(3 * g + k > Len(s))
  <2>1. Len(s) \in Nat
    OBVIOUS
  <2>2. 3 * g + k \in 1 .. Len(s)
    BY <1>2, <2>1
  <2>3. s[3 * g + k] \in Byte
    BY <2>2
  <2>4. QED
    BY <1>2, <2>3 DEF ByteIn, Byte
<1>3. QED
  BY <1>1, <1>2

(***************************************************************************)
(* base64                                                                  *)
(***************************************************************************)

\* The encoded text has four characters for each group.
LEMMA EncodedShape ==
  ASSUME NEW s \in Seq(Byte)
  PROVE  /\ Len(s) \in Nat
         /\ Groups(Len(s)) \in Nat
         /\ Len(iotBase64encode(s)) = 4 * Groups(Len(s))
         /\ iotBase64encode(s) \in Seq(0 .. 64)
         /\ \A g \in 0 .. Groups(Len(s)) - 1, k \in 1 .. 4 :
              iotBase64encode(s)[4 * g + k] = Symbol(s, g, k)
<1> DEFINE N == 4 * Groups(Len(s))
<1>1. Len(s) \in Nat
  OBVIOUS
<1>2. Groups(Len(s)) \in Nat
  BY <1>1, GroupsBounds
<1>3. iotBase64encode(s)
        = [j \in 1 .. N |-> Symbol(s, (j - 1) \div 4, 1 + ((j - 1) % 4))]
  BY DEF iotBase64encode
<1>4. ASSUME NEW g \in Nat, NEW k \in 1 .. 4
      PROVE  Symbol(s, g, k) \in 0 .. 64
  <2> DEFINE x == ByteIn(s, g, 1)
             y == ByteIn(s, g, 2)
             z == ByteIn(s, g, 3)
  <2>1. /\ x \in 0 .. 255
        /\ y \in 0 .. 255
        /\ z \in 0 .. 255
    BY ByteInType
  <2> HIDE DEF x, y, z
  <2>2. /\ x \div 4 \in 0 .. 63
        /\ 16 * (x % 4) + y \div 16 \in 0 .. 63
        /\ 4 * (y % 16) + z \div 64 \in 0 .. 63
        /\ z % 64 \in 0 .. 63
    BY <2>1
  <2>3. CASE k = 1
    BY <2>2, <2>3 DEF Symbol, x, y, z
  <2>4. CASE k = 2
    BY <2>2, <2>4 DEF Symbol, x, y, z
  <2>5. CASE k = 3
    BY <2>2, <2>5 DEF Symbol, Pad, x, y, z
  <2>6. CASE k = 4
    BY <2>2, <2>6 DEF Symbol, Pad, x, y, z
  <2>7. QED
    BY <2>3, <2>4, <2>5, <2>6
<1>5. iotBase64encode(s) \in [1 .. N -> 0 .. 64]
  <2>1. \A j \in 1 .. N : /\ (j - 1) \div 4 \in Nat
                          /\ 1 + ((j - 1) % 4) \in 1 .. 4
    BY <1>2
  <2>2. \A j \in 1 .. N : Symbol(s, (j - 1) \div 4, 1 + ((j - 1) % 4)) \in 0 .. 64
    BY <1>4, <2>1
  <2>3. QED
    BY <1>3, <2>2
<1>6. N \in Nat
  BY <1>2
<1> HIDE DEF N
<1>7. /\ Len(iotBase64encode(s)) = N
      /\ iotBase64encode(s) \in Seq(0 .. 64)
  BY <1>5, <1>6
<1>8. ASSUME NEW g \in 0 .. Groups(Len(s)) - 1, NEW k \in 1 .. 4
      PROVE  iotBase64encode(s)[4 * g + k] = Symbol(s, g, k)
  <2>1. /\ 4 * g + k \in 1 .. N
        /\ (4 * g + k - 1) \div 4 = g
        /\ 1 + ((4 * g + k - 1) % 4) = k
    BY <1>2 DEF N
  <2>2. QED
    BY <1>3, <2>1
<1>9. QED
  BY <1>1, <1>2, <1>7, <1>8 DEF N

\* '=' stands exactly where a byte is missing.
LEMMA Padding ==
  ASSUME NEW s \in Seq(Byte), NEW g \in Nat
  PROVE  /\ Symbol(s, g, 3) = Pad <=> 3 * g + 2 > Len(s)
         /\ Symbol(s, g, 4) = Pad <=> 3 * g + 3 > Len(s)
<1> DEFINE y == ByteIn(s, g, 2)
           z == ByteIn(s, g, 3)
<1>1. /\ y \in 0 .. 255
      /\ z \in 0 .. 255
  BY ByteInType
<1> HIDE DEF y, z
<1>2. /\ 4 * (y % 16) + z \div 64 # 64
      /\ z % 64 # 64
  BY <1>1
<1>3. QED
  BY <1>2 DEF Symbol, Pad, y, z

\* Decoding ends with the last group, or in it, after as many bytes as went in.
LEMMA DecodedLength ==
  ASSUME NEW s \in Seq(Byte)
  PROVE  DecodedLen(iotBase64encode(s)) = Len(s)
<1> DEFINE t == iotBase64encode(s)
           n == Len(s)
           G == Groups(n)
<1>1. /\ n \in Nat
      /\ G \in Nat
      /\ 3 * G >= n
      /\ 3 * G <= n + 2
      /\ Len(t) = 4 * G
  BY EncodedShape, GroupsBounds
<1>2. ASSUME NEW g \in 0 .. G - 1
      PROVE  /\ t[4 * g + 3] = Pad <=> 3 * g + 2 > n
             /\ t[4 * g + 4] = Pad <=> 3 * g + 3 > n
  <2>1. g \in Nat
    BY <1>1
  <2>2. /\ t[4 * g + 3] = Symbol(s, g, 3)
        /\ t[4 * g + 4] = Symbol(s, g, 4)
    BY EncodedShape
  <2>3. QED
    BY <2>1, <2>2, Padding
<1> HIDE DEF t, n, G
<1>3. Len(t) \div 4 = G
  BY <1>1
<1>4. Ends(t) = {g \in 0 .. G - 1 : 3 * g + 3 > n}
  <2>1. \A g \in 0 .. G - 1 :
          (t[4 * g + 3] = Pad \/ t[4 * g + 4] = Pad) <=> 3 * g + 3 > n
    BY <1>1, <1>2
  <2>2. QED
    BY <1>3, <2>1 DEF Ends
<1>5. CASE n = 3 * G
  <2>1. Ends(t) = {}
    BY <1>1, <1>4, <1>5
  <2>2. QED
    BY <1>3, <1>5, <2>1 DEF DecodedLen, t, n
<1>6. CASE n # 3 * G
  <2>1. /\ G - 1 \in 0 .. G - 1
        /\ 3 * (G - 1) < n
    BY <1>1, <1>6
  <2>2. Ends(t) = {G - 1}
    BY <1>1, <1>4, <1>6, <2>1
  <2>3. FirstEnd(t) = G - 1
    BY <2>1, <2>2 DEF FirstEnd
  <2>4. t[4 * (G - 1) + 3] = Pad <=> 3 * (G - 1) + 2 > n
    BY <1>2, <2>1
  <2>5. DecodedLen(t) = 3 * (G - 1) + IF 3 * (G - 1) + 2 > n THEN 1 ELSE 2
    BY <2>2, <2>3, <2>4 DEF DecodedLen
  <2>6. DecodedLen(t) = n
    BY <1>1, <1>6, <2>1, <2>5
  <2>7. QED
    BY <2>6 DEF t, n
<1>7. QED
  BY <1>5, <1>6

\* Each byte is put together again from its two characters.
LEMMA DecodedByte ==
  ASSUME NEW s \in Seq(Byte), NEW g \in Nat, NEW k \in 1 .. 3,
         3 * g + k <= Len(s)
  PROVE  Octet(iotBase64encode(s), g, k) = s[3 * g + k]
<1> DEFINE t == iotBase64encode(s)
           x == ByteIn(s, g, 1)
           y == ByteIn(s, g, 2)
           z == ByteIn(s, g, 3)
<1>1. /\ x \in 0 .. 255
      /\ y \in 0 .. 255
      /\ z \in 0 .. 255
  BY ByteInType
<1>2. /\ Len(s) \in Nat
      /\ g \in 0 .. Groups(Len(s)) - 1
  <2>1. Len(s) \in Nat
    OBVIOUS
  <2>2. /\ Groups(Len(s)) \in Nat
        /\ 3 * Groups(Len(s)) >= Len(s)
    BY <2>1, GroupsBounds
  <2>3. QED
    BY <2>1, <2>2
<1>3. \A i \in 1 .. 4 : t[4 * g + i] = Symbol(s, g, i)
  BY <1>2, EncodedShape
<1>4. ByteIn(s, g, k) = s[3 * g + k]
  BY <1>2 DEF ByteIn
<1> HIDE DEF x, y, z, t
<1>5. /\ x \div 4 \in 0 .. 63
      /\ 16 * (x % 4) + y \div 16 \in 0 .. 63
      /\ 4 * (y % 16) + z \div 64 \in 0 .. 63
      /\ z % 64 \in 0 .. 63
  BY <1>1
<1>6. /\ Value(t[4 * g + 1]) = x \div 4
      /\ Value(t[4 * g + 2]) = 16 * (x % 4) + y \div 16
  <2>1. /\ t[4 * g + 1] = x \div 4
        /\ t[4 * g + 2] = 16 * (x % 4) + y \div 16
    BY <1>3 DEF Symbol, x, y, Pad
  <2>2. QED
    BY <1>5, <2>1, ValueOf
<1>7. ASSUME k >= 2
      PROVE  Value(t[4 * g + 3]) = 4 * (y % 16) + z \div 64
  <2>1. ~(3 * g + 2 > Len(s))
    BY <1>2, <1>7
  <2>2. t[4 * g + 3] = 4 * (y % 16) + z \div 64
    BY <1>3, <2>1 DEF Symbol, y, z
  <2>3. QED
    BY <1>5, <2>2, ValueOf
<1>8. ASSUME k = 3
      PROVE  Value(t[4 * g + 4]) = z % 64
  <2>1. ~(3 * g + 3 > Len(s))
    BY <1>2, <1>8
  <2>2. t[4 * g + 4] = z % 64
    BY <1>3, <2>1 DEF Symbol, z
  <2>3. QED
    BY <1>5, <2>2, ValueOf
<1>9. CASE k = 1
  <2>1. Octet(t, g, 1) = ((4 * (x \div 4)) % 256) + (((16 * (x % 4) + y \div 16) \div 16) % 4)
    BY <1>6 DEF Octet
  <2>2. Octet(t, g, 1) = x
    BY <1>1, <2>1, FirstBack
  <2>3. QED
    BY <1>4, <1>9, <2>2 DEF t, x
<1>10. CASE k = 2
  <2>1. Octet(t, g, 2) = ((16 * (16 * (x % 4) + y \div 16)) % 256)
                           + (((4 * (y % 16) + z \div 64) \div 4) % 16)
    BY <1>6, <1>7, <1>10 DEF Octet
  <2>2. ((16 * (16 * (x % 4) + y \div 16)) % 256)
          + (((4 * (y % 16) + z \div 64) \div 4) % 16) = y
    BY <1>1
  <2>3. QED
    BY <1>4, <1>10, <2>1, <2>2 DEF t, y
<1>11. CASE k = 3
  <2>1. Octet(t, g, 3) = ((64 * (4 * (y % 16) + z \div 64)) % 256) + ((z % 64) % 64)
    BY <1>7, <1>8, <1>11 DEF Octet
  <2>2. Octet(t, g, 3) = z
    BY <1>1, <2>1, ThirdBack
  <2>3. QED
    BY <1>4, <1>11, <2>2 DEF t, z
<1>12. QED
  BY <1>9, <1>10, <1>11

\* Decoding undoes encoding (geniot.c:57-198), whatever the bytes and their
\* number: this is what a datagram relies on in both directions.
THEOREM Base64RoundTrip ==
  \A s \in Seq(Byte) : iotBase64decode(iotBase64encode(s)) = s
<1>1. SUFFICES ASSUME NEW s \in Seq(Byte)
               PROVE  iotBase64decode(iotBase64encode(s)) = s
  OBVIOUS
<1> DEFINE t == iotBase64encode(s)
           n == Len(s)
<1>2. n \in Nat
  OBVIOUS
<1>3. iotBase64decode(t) = [j \in 1 .. n |-> Octet(t, (j - 1) \div 3, 1 + ((j - 1) % 3))]
  BY DecodedLength DEF iotBase64decode
<1>4. ASSUME NEW j \in 1 .. n
      PROVE  Octet(t, (j - 1) \div 3, 1 + ((j - 1) % 3)) = s[j]
  <2> DEFINE g == (j - 1) \div 3
             k == 1 + ((j - 1) % 3)
  <2>1. /\ g \in Nat
        /\ k \in 1 .. 3
        /\ 3 * g + k = j
        /\ j <= n
    BY <1>2
  <2> HIDE DEF g, k
  <2>2. Octet(t, g, k) = s[3 * g + k]
    BY <2>1, DecodedByte
  <2>3. QED
    BY <2>1, <2>2 DEF g, k
<1>5. iotBase64decode(t) = [j \in 1 .. n |-> s[j]]
  BY <1>3, <1>4
<1>6. s = [j \in 1 .. n |-> s[j]]
  OBVIOUS
<1>7. QED
  BY <1>5, <1>6

(***************************************************************************)
(* Datagrams: '^', the encoded bytes, '&'                                  *)
(***************************************************************************)

\* What iotDataToBase64 (geniot.c:448-461) accepts to encode fits the buffer it
\* is given, the two marks and the 0 at the end included: the slack of 12
\* characters makes up for the rounding of 4 * binlength / 3.
THEOREM DatagramFits ==
  ASSUME NEW s \in Seq(Byte), NEW base64len \in Nat,
         iotDataToBase64(s, base64len) # <<>>
  PROVE  Len(iotDataToBase64(s, base64len)) + 1 <= base64len
<1> DEFINE n == Len(s)
           t == iotBase64encode(s)
<1>1. /\ n \in Nat
      /\ Groups(n) \in Nat
      /\ 3 * Groups(n) <= n + 2
      /\ t \in Seq(0 .. 64)
      /\ Len(t) = 4 * Groups(n)
  BY EncodedShape, GroupsBounds
<1>2. /\ base64len >= ((4 * n) \div 3) + 12
      /\ iotDataToBase64(s, base64len) = <<Caret>> \o t \o <<Amp>>
  BY <1>1 DEF iotDataToBase64
<1> HIDE DEF t, n
<1>3. Len(<<Caret>> \o t \o <<Amp>>) = 4 * Groups(n) + 2
  BY <1>1 DEF Caret, Amp
<1>4. QED
  BY <1>1, <1>2, <1>3

\* What one side frames and encodes, the other side takes apart to the same bytes
\* (geniot.c:448-479), when both buffers are large enough.
THEOREM DatagramRoundTrip ==
  ASSUME NEW s \in Seq(Byte), NEW base64len \in Nat, NEW binlength \in Nat,
         iotDataToBase64(s, base64len) # <<>>,
         binlength >= Len(iotDataToBase64(s, base64len))
  PROVE  iotBase64ToData(iotDataToBase64(s, base64len), binlength) = s
<1> DEFINE t == iotBase64encode(s)
           d == iotDataToBase64(s, base64len)
<1>1. t \in Seq(0 .. 64)
  BY EncodedShape
<1>2. d = <<Caret>> \o t \o <<Amp>>
  BY DEF iotDataToBase64
<1> HIDE DEF t
<1>3. /\ Len(d) = Len(t) + 2
      /\ d[1] = Caret
      /\ d[Len(d)] = Amp
      /\ SubSeq(d, 2, Len(d) - 1) = t
  BY <1>1, <1>2 DEF Caret, Amp
<1>4. d # <<>> /\ binlength >= Len(d)
  OBVIOUS
<1> HIDE DEF d
<1>5. iotBase64ToData(d, binlength) = iotBase64decode(t)
  BY <1>3, <1>4 DEF iotBase64ToData
<1>6. QED
  BY <1>5, Base64RoundTrip DEF t, d

(***************************************************************************)
(* Byte order                                                              *)
(***************************************************************************)
LEMMA ShortSwapped ==
  ASSUME NEW h \in Nat, NEW l \in Nat, h < 256, l < 256
  PROVE  iot_htons(256 * h + l) = 256 * l + h
<1>1. /\ (256 * h + l) % 256 = l
      /\ (256 * h + l) \div 256 = h
  BY SMT
<1>2. QED
  BY <1>1, SMT DEF iot_htons

LEMMA LongSwapped ==
  ASSUME NEW h \in Nat, NEW l \in Nat, h < 65536, l < 65536
  PROVE  iot_htonl(65536 * h + l) = 65536 * iot_htons(l) + iot_htons(h)
<1>1. /\ (65536 * h + l) % 65536 = l
      /\ (65536 * h + l) \div 65536 = h
  BY SMT
<1>2. QED
  BY <1>1, SMT DEF iot_htonl, U16

\* A 16-bit field of a header or of a packet (geniot.c:15-32) is read as it was
\* written, for every value.
THEOREM ShortRoundTrip ==
  ASSUME NEW n \in Nat, n < U16
  PROVE  /\ iot_htons(n) \in Nat
         /\ iot_htons(n) < U16
         /\ iot_ntohs(iot_htons(n)) = n
<1> DEFINE h == n \div 256
           l == n % 256
<1>1. /\ h \in Nat
      /\ l \in Nat
      /\ h < 256
      /\ l < 256
      /\ n = 256 * h + l
  BY SMT DEF U16
<1> HIDE DEF h, l
<1>2. iot_htons(256 * h + l) = 256 * l + h
  BY <1>1, ShortSwapped
<1>3. iot_htons(256 * l + h) = 256 * h + l
  BY <1>1, ShortSwapped
<1>4. iot_htons(n) = 256 * l + h
  BY <1>1, <1>2
<1>5. iot_htons(iot_htons(n)) = n
  BY <1>1, <1>3, <1>4
<1>6. 256 * l + h \in Nat /\ 256 * l + h < 65536
  BY <1>1, SMT
<1>7. QED
  BY <1>4, <1>5, <1>6 DEF iot_ntohs, U16

\* The same for 32-bit fields (geniot.c:35-55): net ids, sequence numbers, the
\* numbers of a firmware packet.
THEOREM LongRoundTrip ==
  ASSUME NEW n \in Nat, n < U32
  PROVE  iot_ntohl(iot_htonl(n)) = n
<1> DEFINE h == n \div 65536
           l == n % 65536
<1>1. n < 4294967296
  BY SMT DEF U32
<1>2. /\ h \in Nat
      /\ l \in Nat
      /\ h < 65536
      /\ l < 65536
      /\ n = 65536 * h + l
  BY <1>1, SMT
<1> HIDE DEF h, l
<1> DEFINE sh == iot_htons(h)
           sl == iot_htons(l)
<1>3. /\ sh \in Nat
      /\ sl \in Nat
      /\ sh < 65536
      /\ sl < 65536
      /\ iot_htons(sh) = h
      /\ iot_htons(sl) = l
  BY <1>2, ShortRoundTrip DEF U16, iot_ntohs
<1>4. iot_htonl(65536 * h + l) = 65536 * sl + sh
  BY <1>2, LongSwapped
<1> HIDE DEF sh, sl
<1>5. iot_htonl(65536 * sl + sh) = 65536 * iot_htons(sh) + iot_htons(sl)
  BY <1>3, LongSwapped
<1>6. iot_htonl(n) = 65536 * sl + sh
  BY <1>2, <1>4
<1>7. iot_htonl(iot_htonl(n)) = 65536 * h + l
  BY <1>3, <1>5, <1>6
<1>8. QED
  BY <1>2, <1>7 DEF iot_ntohl

\* A command written into a header (geniot.c:256-291) is the command read from it.
THEOREM CommandRead ==
  ASSUME NEW h \in IotHead, NEW len \in Nat, len >= HS,
         NEW sn, NEW cmd \in Nat, cmd < U16, NEW datalen
  PROVE  iotGetHeadCmd(iotSetHeadCmd(h, len, sn, cmd, datalen), len) = cmd
<1>1. ~(len < HS)
  BY DEF HS
<1>2. iotSetHeadCmd(h, len, sn, cmd, datalen)
        = [h EXCEPT !.sn = iot_htonl(sn), !.cmd = iot_htons(cmd), !.len = iot_htons(datalen)]
  BY <1>1, Zenon DEF iotSetHeadCmd
<1>3. iotSetHeadCmd(h, len, sn, cmd, datalen).cmd = iot_htons(cmd)
  BY <1>2 DEF IotHead
<1>4. iotGetHeadCmd(iotSetHeadCmd(h, len, sn, cmd, datalen), len) = iot_ntohs(iot_htons(cmd))
  BY <1>1, <1>3, Zenon DEF iotGetHeadCmd
<1>5. QED
  BY <1>4, ShortRoundTrip

(***************************************************************************)
(* Hex strings                                                             *)
(***************************************************************************)
LEMMA HexDigits ==
  ASSUME NEW b \in 0 .. 255
  PROVE  /\ b \div 16 \in 0 .. 15
         /\ b % 16 \in 0 .. 15
         /\ 16 * (b \div 16) + (b % 16) = b
  OBVIOUS

\* A key in hex (joylink_utils.c:19-85) gives the same bytes again, when neither
\* buffer cuts it.
THEOREM HexRoundTrip ==
  ASSUME NEW s \in Seq(Byte), NEW dstLen \in Nat, NEW bufLen \in Nat,
         dstLen >= 2 * Len(s), bufLen >= Len(s)
  PROVE  joylink_util_hexStr2bytes(joylink_util_byte2hexstr(s, dstLen), bufLen) = s
<1> DEFINE n == Len(s)
           t == joylink_util_byte2hexstr(s, dstLen)
<1>1. n \in Nat
  OBVIOUS
<1>2. t = [j \in 1 .. 2 * n |->
             IF j % 2 = 1 THEN s[(j - 1) \div 2 + 1] \div 16
                          ELSE s[(j - 1) \div 2 + 1] % 16]
  BY <1>1 DEF joylink_util_byte2hexstr
<1>3. ASSUME NEW i \in 1 .. n
      PROVE  /\ t[2 * i - 1] = s[i] \div 16
             /\ t[2 * i] = s[i] % 16
  <2>1. /\ 2 * i - 1 \in 1 .. 2 * n
        /\ (2 * i - 1) % 2 = 1
        /\ (2 * i - 1 - 1) \div 2 + 1 = i
    BY <1>1
  <2>2. /\ 2 * i \in 1 .. 2 * n
        /\ (2 * i) % 2 = 0
        /\ (2 * i - 1) \div 2 + 1 = i
    BY <1>1
  <2>3. QED
    BY <1>2, <2>1, <2>2
<1>4. ASSUME NEW i \in 1 .. n
      PROVE  s[i] \in 0 .. 255
  <2>1. s[i] \in Byte
    OBVIOUS
  <2>2. QED
    BY <2>1 DEF Byte
<1>5. t \in [1 .. 2 * n -> 0 .. 15]
  <2>1. ASSUME NEW j \in 1 .. 2 * n
        PROVE  (j - 1) \div 2 + 1 \in 1 .. n
    BY <1>1
  <2>2. ASSUME NEW j \in 1 .. 2 * n
        PROVE  /\ s[(j - 1) \div 2 + 1] \div 16 \in 0 .. 15
               /\ s[(j - 1) \div 2 + 1] % 16 \in 0 .. 15
    BY <1>4, <2>1, HexDigits
  <2>3. QED
    BY <1>2, <2>2
<1>6. /\ Len(t) = 2 * n
      /\ Len(t) \div 2 = n
  <2>1. 2 * n \in Nat
    BY <1>1
  <2>2. Len(t) = 2 * n
    BY <1>5, <2>1
  <2>3. QED
    BY <1>1, <2>2
<1> HIDE DEF t
<1>7. ~ \E j \in 1 .. 2 * n : t[j] = NotHex
  <2>1. \A j \in 1 .. 2 * n : t[j] \in 0 .. 15
    BY <1>5
  <2>2. \A d \in 0 .. 15 : d # NotHex
    BY DEF NotHex
  <2>3. QED
    BY <2>1, <2>2
<1>8. joylink_util_hexStr2bytes(t, bufLen) = [i \in 1 .. n |-> 16 * t[2 * i - 1] + t[2 * i]]
  BY <1>1, <1>6, <1>7 DEF joylink_util_hexStr2bytes
<1>9. ASSUME NEW i \in 1 .. n
      PROVE  16 * t[2 * i - 1] + t[2 * i] = s[i]
  BY <1>3, <1>4, HexDigits
<1>10. joylink_util_hexStr2bytes(t, bufLen) = [i \in 1 .. n |-> s[i]]
  BY <1>8, <1>9
<1>11. s = [i \in 1 .. n |-> s[i]]
  OBVIOUS
<1>12. QED
  BY <1>10, <1>11 DEF t

(***************************************************************************)
(* Time-outs                                                               *)
(***************************************************************************)
LEMMA Int32Same ==
  ASSUME NEW d \in Int, d < 2147483648, d >= -2147483648
  PROVE  Int32(d) = d
  BY SMT DEF Int32, U32, Clock

LEMMA Int32Wraps ==
  ASSUME NEW d \in Int, d < 4294967296, d >= 2147483648
  PROVE  Int32(d) = d - 4294967296
  BY SMT DEF Int32, U32, Clock

\* The test of joylink_util_is_time_out (joylink_utils.c:161-166): exact as long as
\* the 31-bit clock has not wrapped since the timer was reset; when it has, the
\* answer is the opposite of what was asked: a time-out is reported at once, and
\* none any more when the time has passed.
THEOREM TimeOutAndWrap ==
  ASSUME NEW start \in Nat, start < Clock,
         NEW elapsed \in Nat, elapsed < Clock,
         NEW timeout \in Nat, timeout < Clock
  PROVE  joylink_util_is_time_out(start, timeout, joylink_util_getsys(start + elapsed))
           <=> IF start + elapsed < Clock THEN elapsed >= timeout
                                          ELSE elapsed <= timeout
<1>1. /\ start < 2147483648
      /\ elapsed < 2147483648
      /\ timeout < 2147483648
  BY SMT DEF Clock
<1> DEFINE now == joylink_util_getsys(start + elapsed)
<1>2. now = (start + elapsed) % 2147483648
  BY SMT DEF joylink_util_getsys, Clock
<1>3. CASE start + elapsed < 2147483648
  <2>1. now = start + elapsed
    BY <1>2, <1>3, SMT
  <2> HIDE DEF now
  <2>2. start + timeout - now = timeout - elapsed
    BY <2>1, SMT
  <2>3. Int32(timeout - elapsed) = timeout - elapsed
    BY <1>1, Int32Same, SMT
  <2>4. Int32(start + timeout - now) = timeout - elapsed
    BY <2>2, <2>3
  <2>5. joylink_util_is_time_out(start, timeout, now) <=> elapsed >= timeout
    BY <2>4, SMT DEF joylink_util_is_time_out
  <2>6. start + elapsed < Clock
    BY <1>3, SMT DEF Clock
  <2>7. QED
    BY <2>5, <2>6 DEF now
<1>4. CASE start + elapsed >= 2147483648
  <2>1. now = start + elapsed - 2147483648
    BY <1>1, <1>2, <1>4, SMT
  <2> HIDE DEF now
  <2>2. start + timeout - now = timeout - elapsed + 2147483648
    BY <2>1, SMT
  <2>3. Int32(timeout - elapsed + 2147483648) <= 0 <=> elapsed <= timeout
    <3>1. CASE elapsed <= timeout
      <4>1. Int32(timeout - elapsed + 2147483648) = timeout - elapsed + 2147483648 - 4294967296
        BY <1>1, <3>1, Int32Wraps, SMT
      <4>2. QED
        BY <1>1, <3>1, <4>1, SMT
    <3>2. CASE elapsed > timeout
      <4>1. Int32(timeout - elapsed + 2147483648) = timeout - elapsed + 2147483648
        BY <1>1, <3>2, Int32Same, SMT
      <4>2. QED
        BY <1>1, <3>2, <4>1, SMT
    <3>3. QED
      BY <3>1, <3>2, SMT
  <2>4. Int32(start + timeout - now) <= 0 <=> elapsed <= timeout
    BY <2>2, <2>3
  <2>5. joylink_util_is_time_out(start, timeout, now) <=> elapsed <= timeout
    BY <2>4 DEF joylink_util_is_time_out
  <2>6. ~(start + elapsed < Clock)
    BY <1>4, SMT DEF Clock
  <2>7. QED
    BY <2>5, <2>6 DEF now
<1>5. QED
  BY <1>3, <1>4, SMT

(***************************************************************************)
(* Chained blocks and padding.                                             *)
(***************************************************************************)

\* Decryption in chained blocks undoes encryption (aes.c:1169-1200), for any cipher of
\* blocks and any exclusive or that undo themselves.
THEOREM CbcUndone ==
  ASSUME NEW E \in [Block -> Block], NEW D \in [Block -> Block],
         NEW X \in [Block \X Block -> Block], NEW iv \in Block,
         NEW p \in Seq(Block), NEW c \in Seq(Block),
         \A b \in Block : D[E[b]] = b,
         \A a, b \in Block : X[<<X[<<a, b>>], b>>] = a,
         Chained(E, X, iv, p, c)
  PROVE  AesCbcDecrypt(D, X, iv, c) = p
<1> DEFINE Before(k) == IF k = 1 THEN iv ELSE c[k - 1]
           out == AesCbcDecrypt(D, X, iv, c)
<1>1. Len(c) = Len(p) /\ \A k \in 1 .. Len(p) : c[k] = E[X[<<p[k], Before(k)>>]]
  BY DEF Chained
<1>2. \A k \in 1 .. Len(p) : p[k] \in Block /\ c[k] \in Block
  BY <1>1, ElementOfSeq
<1>3. ASSUME NEW k \in 1 .. Len(p) PROVE out[k] = p[k]
  <2>1. Before(k) \in Block
    <3>1. CASE k = 1
      BY <3>1
    <3>2. CASE k # 1
      <4>1. k - 1 \in 1 .. Len(p)
        BY <3>2, LenProperties
      <4>2. QED
        BY <1>2, <3>2, <4>1
    <3>3. QED
      BY <3>1, <3>2
  <2>2. X[<<p[k], Before(k)>>] \in Block
    BY <1>2, <2>1
  <2>3. c[k] = E[X[<<p[k], Before(k)>>]]
    BY <1>1
  <2>4. out[k] = X[<<D[c[k]], Before(k)>>]
    BY <1>1 DEF AesCbcDecrypt
  <2> HIDE DEF Before, out
  <2>5. D[c[k]] = X[<<p[k], Before(k)>>]
    BY <2>2, <2>3
  <2>6. QED
    BY <1>2, <2>1, <2>4, <2>5
<1>4. /\ out = [k \in 1 .. Len(p) |-> out[k]]
      /\ Len(p) \in Nat
  BY <1>1 DEF AesCbcDecrypt
<1> HIDE DEF out, Before
<1>5. \A k \in 1 .. Len(p) : out[k] \in Block
  BY <1>2, <1>3
<1>6. out \in Seq(Block)
  BY <1>4, <1>5
<1>7. Len(out) = Len(p)
  BY <1>4, <1>6, LenProperties
<1>8. QED
  BY <1>3, <1>6, <1>7, SeqEqual DEF out

(***************************************************************************)
(* Blocks and bytes.                                                       *)
(***************************************************************************)
\* The number of a byte is that of its block and its place in it.
LEMMA Quotient ==
  ASSUME NEW k \in Nat, NEW i \in 1 .. 16
  PROVE  /\ (16 * k + i - 1) \div 16 = k
         /\ (16 * k + i - 1) % 16 = i - 1
  OBVIOUS

\* The block of a byte and its place in it, from its number.
LEMMA PlaceOf ==
  ASSUME NEW m \in Nat, NEW n \in 1 .. 16 * m
  PROVE  /\ ((n - 1) \div 16) + 1 \in 1 .. m
         /\ ((n - 1) % 16) + 1 \in 1 .. 16
         /\ 16 * ((n - 1) \div 16) + ((n - 1) % 16) = n - 1
<1>1. PICK q \in Int, r \in 0 .. 15 : n - 1 = 16 * q + r
  <2>1. n - 1 \in Int /\ n - 1 = 16 * ((n - 1) \div 16) + ((n - 1) % 16)
    OBVIOUS
  <2>2. (n - 1) \div 16 \in Int /\ (n - 1) % 16 \in 0 .. 15
    OBVIOUS
  <2>3. QED
    BY <2>1, <2>2
<1>2. q \in 0 .. m - 1
  BY <1>1
<1>3. (n - 1) \div 16 = q /\ (n - 1) % 16 = r
  BY <1>1
<1>4. QED
  BY <1>1, <1>2, <1>3

\* Blocks with the same bytes are the same.
LEMMA Extensional ==
  ASSUME NEW S, NEW f \in [1 .. 16 -> S], NEW g \in [1 .. 16 -> S], \A i \in 1 .. 16 : f[i] = g[i]
  PROVE  f = g
  OBVIOUS

\* The bytes of blocks: how many, and which is where.
LEMMA JoinedShape ==
  ASSUME NEW c \in Seq(Block)
  PROVE  /\ Joined(c) \in Seq(Byte)
         /\ Len(Joined(c)) = 16 * Len(c)
         /\ \A k \in 1 .. Len(c), i \in 1 .. 16 : Joined(c)[16 * (k - 1) + i] = c[k][i]
<1>1. Len(c) \in Nat /\ \A k \in 1 .. Len(c) : c[k] \in [1 .. 16 -> Byte]
  BY ElementOfSeq, LenProperties DEF Block, AES_BLOCK_SIZE
<1>2. Joined(c) = [n \in 1 .. 16 * Len(c) |-> c[((n - 1) \div 16) + 1][((n - 1) % 16) + 1]]
  BY DEF Joined, AES_BLOCK_SIZE
<1>3. ASSUME NEW n \in 1 .. 16 * Len(c)
      PROVE  c[((n - 1) \div 16) + 1][((n - 1) % 16) + 1] \in Byte
  <2>1. /\ ((n - 1) \div 16) + 1 \in 1 .. Len(c)
        /\ ((n - 1) % 16) + 1 \in 1 .. 16
    BY <1>1, PlaceOf
  <2>2. QED
    BY <1>1, <2>1
<1>4. Joined(c) \in Seq(Byte)
  BY <1>1, <1>2, <1>3
<1>5. Len(Joined(c)) = 16 * Len(c)
  BY <1>1, <1>2, <1>4, LenProperties
<1>6. ASSUME NEW k \in 1 .. Len(c), NEW i \in 1 .. 16
      PROVE  Joined(c)[16 * (k - 1) + i] = c[k][i]
  <2> DEFINE n == 16 * (k - 1) + i
  <2>1. n \in 1 .. 16 * Len(c)
    BY <1>1
  <2>2. (n - 1) \div 16 = k - 1 /\ (n - 1) % 16 = i - 1
    <3>1. k - 1 \in Nat
      BY <1>1
    <3>2. (16 * (k - 1) + i - 1) \div 16 = k - 1 /\ (16 * (k - 1) + i - 1) % 16 = i - 1
      BY <3>1, Quotient
    <3>3. QED
      BY <3>2
  <2> HIDE DEF n
  <2>3. Joined(c)[n] = c[((n - 1) \div 16) + 1][((n - 1) % 16) + 1]
    BY <1>2, <2>1
  <2>4. (k - 1) + 1 = k /\ (i - 1) + 1 = i
    BY <1>1
  <2>5. QED
    BY <2>2, <2>3, <2>4 DEF n
<1>7. QED
  BY <1>4, <1>5, <1>6

\* The blocks of a whole number of blocks of bytes.
LEMMA BlocksShape ==
  ASSUME NEW b \in Seq(Byte), NEW m \in Nat, Len(b) = 16 * m
  PROVE  /\ Blocks(b) \in Seq(Block)
         /\ Len(Blocks(b)) = m
         /\ \A k \in 1 .. m, i \in 1 .. 16 : Blocks(b)[k][i] = b[16 * (k - 1) + i]
<1>1. Len(b) \div 16 = m
  OBVIOUS
<1>2. Blocks(b) = [k \in 1 .. m |-> BlockOf(b, k)]
  BY <1>1 DEF Blocks, AES_BLOCK_SIZE
<1>3. ASSUME NEW k \in 1 .. m
      PROVE  /\ BlockOf(b, k) \in Block
             /\ \A i \in 1 .. 16 : BlockOf(b, k)[i] = b[16 * (k - 1) + i]
  <2>1. \A i \in 1 .. 16 : 16 * (k - 1) + i \in 1 .. Len(b)
    OBVIOUS
  <2>2. \A i \in 1 .. 16 : b[16 * (k - 1) + i] \in Byte
    BY <2>1, ElementOfSeq
  <2>3. BlockOf(b, k) = [i \in 1 .. 16 |-> b[16 * (k - 1) + i]]
    BY DEF BlockOf, AES_BLOCK_SIZE
  <2>4. QED
    BY <2>2, <2>3 DEF Block, AES_BLOCK_SIZE
<1>4. Blocks(b) \in Seq(Block)
  BY <1>2, <1>3
<1>5. Len(Blocks(b)) = m
  BY <1>2
<1>6. \A k \in 1 .. m : Blocks(b)[k] = BlockOf(b, k)
  BY <1>2
<1>7. ASSUME NEW k \in 1 .. m, NEW i \in 1 .. 16
      PROVE  Blocks(b)[k][i] = b[16 * (k - 1) + i]
  <2>1. BlockOf(b, k)[i] = b[16 * (k - 1) + i]
    BY <1>3
  <2>2. Blocks(b)[k] = BlockOf(b, k)
    BY <1>6
  <2>3. QED
    BY <2>1, <2>2
<1>8. QED
  BY <1>4, <1>5, <1>7

\* Bytes in blocks and blocks in bytes are the same data.
LEMMA BlocksJoined ==
  ASSUME NEW c \in Seq(Block)
  PROVE  Blocks(Joined(c)) = c
<1> DEFINE b == Joined(c)
<1>1. /\ Len(c) \in Nat
      /\ b \in Seq(Byte)
      /\ Len(b) = 16 * Len(c)
      /\ \A k \in 1 .. Len(c), i \in 1 .. 16 : b[16 * (k - 1) + i] = c[k][i]
  BY JoinedShape, LenProperties
<1> HIDE DEF b
<1>2. /\ Blocks(b) \in Seq(Block)
      /\ Len(Blocks(b)) = Len(c)
      /\ \A k \in 1 .. Len(c), i \in 1 .. 16 : Blocks(b)[k][i] = b[16 * (k - 1) + i]
  BY <1>1, BlocksShape
<1>3. ASSUME NEW k \in 1 .. Len(c) PROVE Blocks(b)[k] = c[k]
  <2>1. Blocks(b)[k] \in [1 .. 16 -> Byte] /\ c[k] \in [1 .. 16 -> Byte]
    BY <1>2, ElementOfSeq DEF Block, AES_BLOCK_SIZE
  <2>2. \A i \in 1 .. 16 : Blocks(b)[k][i] = c[k][i]
    BY <1>1, <1>2
  <2>3. QED
    BY <2>1, <2>2, Extensional
<1>4. Blocks(b) = c
  BY <1>2, <1>3, SeqEqual
<1>5. QED
  BY <1>4 DEF b

\* The same, from the bytes.
LEMMA JoinedBlocks ==
  ASSUME NEW b \in Seq(Byte), NEW m \in Nat, Len(b) = 16 * m
  PROVE  Joined(Blocks(b)) = b
<1> DEFINE c == Blocks(b)
<1>1. /\ c \in Seq(Block)
      /\ Len(c) = m
      /\ \A k \in 1 .. m, i \in 1 .. 16 : c[k][i] = b[16 * (k - 1) + i]
  BY BlocksShape
<1> HIDE DEF c
<1>2. /\ Joined(c) \in Seq(Byte)
      /\ Len(Joined(c)) = 16 * m
      /\ \A k \in 1 .. m, i \in 1 .. 16 : Joined(c)[16 * (k - 1) + i] = c[k][i]
  BY <1>1, JoinedShape
<1>3. ASSUME NEW n \in 1 .. 16 * m PROVE Joined(c)[n] = b[n]
  <2> DEFINE k == ((n - 1) \div 16) + 1
             i == ((n - 1) % 16) + 1
  <2>1. k \in 1 .. m /\ i \in 1 .. 16 /\ 16 * (k - 1) + i = n
    BY PlaceOf
  <2> HIDE DEF k, i
  <2>2. Joined(c)[16 * (k - 1) + i] = b[16 * (k - 1) + i]
    BY <1>1, <1>2, <2>1
  <2>3. QED
    BY <2>1, <2>2
<1>4. Joined(c) = b
  BY <1>2, <1>3, SeqEqual
<1>5. QED
  BY <1>4 DEF c

\* A padded message is whole blocks, begins with the message, and its last byte says
\* how many bytes were added.
LEMMA PaddedShape ==
  ASSUME NEW plain \in Seq(Byte)
  PROVE  LET q == Padded(plain)
             m == (Len(plain) \div 16) + 1
         IN  /\ m \in Nat
             /\ q \in Seq(Byte)
             /\ Len(q) = 16 * m
             /\ Len(q) - q[Len(q)] = Len(plain)
             /\ \A i \in 1 .. Len(plain) : q[i] = plain[i]
<1> DEFINE q == Padded(plain)
           n == Len(plain)
           pad == PadLen(n)
<1>1. n \in Nat /\ \A i \in 1 .. n : plain[i] \in Byte
  BY ElementOfSeq, LenProperties
<1>2. pad \in 1 .. 16 /\ n + pad = 16 * ((n \div 16) + 1)
  <2>1. pad = 16 - (n % 16)
    BY DEF PadLen, AES_BLOCK_SIZE
  <2> HIDE DEF n, pad
  <2>2. QED
    BY <1>1, <2>1
<1>3. q = [i \in 1 .. n + pad |-> IF i <= n THEN plain[i] ELSE pad]
  BY DEF Padded
<1> HIDE DEF n, pad, q
<1>4. pad \in Byte
  BY <1>2 DEF Byte
<1>5. \A i \in 1 .. n + pad : (IF i <= n THEN plain[i] ELSE pad) \in Byte
  BY <1>1, <1>4
<1>6. n + pad \in Nat
  BY <1>1, <1>2
<1>7. q \in Seq(Byte)
  BY <1>3, <1>5, <1>6
<1>8. Len(q) = n + pad
  BY <1>3, <1>6, <1>7, LenProperties
<1>9. q[n + pad] = pad
  BY <1>1, <1>2, <1>3
<1>10. \A i \in 1 .. n : q[i] = plain[i]
  BY <1>1, <1>2, <1>3
<1>11. QED
  BY <1>1, <1>2, <1>7, <1>8, <1>9, <1>10 DEF n, q

\* A message sealed in chained blocks is opened to what it was (aes.c:1205-1249), for
\* any cipher and any length, when there is room for it.
THEOREM MessageReturns ==
  ASSUME NEW E \in [Block -> Block], NEW D \in [Block -> Block],
         NEW X \in [Block \X Block -> Block], NEW iv \in Block,
         NEW plain \in Seq(Byte), NEW c \in Seq(Block), NEW maxOutLen \in Nat,
         \A b \in Block : D[E[b]] = b,
         \A a, b \in Block : X[<<X[<<a, b>>], b>>] = a,
         Chained(E, X, iv, Blocks(Padded(plain)), c),
         maxOutLen >= Len(Joined(c))
  PROVE  device_aes_decrypt(D, X, iv, Joined(c), maxOutLen) = plain
<1> DEFINE q == Padded(plain)
           m == (Len(plain) \div 16) + 1
           enc == Joined(c)
<1>1. /\ m \in Nat
      /\ q \in Seq(Byte)
      /\ Len(q) = 16 * m
      /\ Len(q) - q[Len(q)] = Len(plain)
      /\ \A i \in 1 .. Len(plain) : q[i] = plain[i]
  BY PaddedShape
<1>2. Len(plain) \in Nat /\ m > 0
  BY LenProperties
<1>3. Chained(E, X, iv, Blocks(q), c) /\ maxOutLen >= Len(enc)
  OBVIOUS
<1>4. Blocks(enc) = c
  BY BlocksJoined
<1>5. enc \in Seq(Byte) /\ Len(enc) = 16 * Len(c)
  BY JoinedShape
<1> HIDE DEF q, m, enc
<1>6. Blocks(q) \in Seq(Block) /\ Len(Blocks(q)) = m
  BY <1>1, BlocksShape
<1>7. Len(c) = m
  BY <1>3, <1>6 DEF Chained
<1>8. AesCbcDecrypt(D, X, iv, c) = Blocks(q)
  BY <1>3, <1>6, CbcUndone
<1>9. Joined(Blocks(q)) = q
  BY <1>1, JoinedBlocks
<1>10. SubSeq(enc, Len(q) + 1, Len(enc)) = <<>>
  BY <1>1, <1>2, <1>5, <1>7, SubSeqEmpty
<1>11. q \o SubSeq(enc, Len(q) + 1, Len(enc)) = q
  BY <1>1, <1>10, ConcatEmptySeq
<1>12. enc # <<>> /\ ~(maxOutLen < Len(enc))
  BY <1>2, <1>3, <1>5, <1>7
<1>13. device_aes_decrypt(D, X, iv, enc, maxOutLen) = SubSeq(q, 1, Len(plain))
  BY <1>1, <1>4, <1>8, <1>9, <1>11, <1>12 DEF device_aes_decrypt
<1>14. SubSeq(q, 1, Len(plain)) = plain
  <2>1. Len(plain) <= 16 * ((Len(plain) \div 16) + 1)
    BY <1>2
  <2>2. Len(plain) <= Len(q)
    BY <1>1, <2>1 DEF m
  <2>3. /\ SubSeq(q, 1, Len(plain)) \in Seq(Byte)
        /\ Len(SubSeq(q, 1, Len(plain))) = Len(plain)
        /\ \A i \in 1 .. Len(plain) : SubSeq(q, 1, Len(plain))[i] = q[i]
    BY <1>1, <1>2, <2>2
  <2>4. QED
    BY <1>1, <2>3, SeqEqual
<1>15. QED
  BY <1>13, <1>14 DEF enc

(***************************************************************************)
(* The table of JoinPacket.                                                *)
(***************************************************************************)
Unused == [is_run : {FALSE}]
Entry == [is_run : {TRUE}, name : Name, id : Id, total : 2 .. MaxTotal,
          current_count : {0}, parts : Seq(0 .. MaxTotal)]
TableOK == jps \in [Index -> Unused \cup Entry]
Inv == TableOK /\ NothingJoined

-----------------------------------------------------------------------------
(* The scans of the table. *)

\* A scan of the table in order of its indices stops at an element it looks for:
\* of the intervals before the elements one is smallest.
LEMMA FirstIn == 
  ASSUME JoinAssumption, NEW S \in SUBSET Index, S # {}
  PROVE  First(S) \in S
  <1> DEFINE Below(i) == 0 .. i - 1
             T == {Below(i) : i \in S}
  <1>1. S \subseteq Nat
    BY DEF Index, JoinAssumption
  <1>2. T \subseteq FiniteSubsetsOf(Nat)
    <2>1. ASSUME NEW i \in S PROVE Below(i) \in FiniteSubsetsOf(Nat)
      <3>1. IsFiniteSet(Below(i))
        BY <1>1, FS_Interval
      <3> QED
        BY <1>1, <3>1 DEF FiniteSubsetsOf
    <2> QED
      BY <2>1
  <1>3. PICK U \in T : \A V \in T : ~(<<V, U>> \in StrictSubsetOrdering(Nat))
    <2>1. T # {}
      OBVIOUS
    <2> HIDE DEF T
    <2> QED
      BY <1>2, <2>1, FS_StrictSubsetOrderingWellFounded, WFMin
  <1>4. PICK i \in S : U = Below(i)
    OBVIOUS
  <1>5. ASSUME NEW j \in S PROVE i <= j
    <2> SUFFICES ASSUME j < i PROVE FALSE
      BY <1>1
    <2>1. Below(j) \subseteq Below(i) /\ j \in Below(i) /\ j \notin Below(j)
      BY <1>1
    <2>2. <<Below(j), Below(i)>> \in StrictSubsetOrdering(Nat)
      BY <1>1, <2>1 DEF StrictSubsetOrdering
    <2> QED
      BY <1>3, <1>4, <2>2
  <1> QED
    BY <1>5 DEF First

LEMMA FoundIn ==
  ASSUME JoinAssumption, NEW name, NEW id, Found(name, id) # {}
  PROVE  First(Found(name, id)) \in Found(name, id)
  BY FirstIn DEF Found

LEMMA IdleIn == ASSUME JoinAssumption, Idle # {} PROVE First(Idle) \in Idle
  BY FirstIn DEF Idle

-----------------------------------------------------------------------------
(* One packet. *)

\* A part added to an entry leaves its count and its total, and so is answered
\* with E_RET_OK.
LEMMA AddNodeStep ==
  ASSUME TableOK, NEW i \in Index, jps[i].is_run, NEW h \in Head1, AddNode(i, h), Returns(i)
  PROVE  TableOK' /\ ret' = E_RET_OK
  <1>1. jps[i] \in Entry
    BY DEF TableOK, Unused
  <1>2. h.index \in 0 .. MaxTotal
    BY DEF Head1
  <1> DEFINE s == Append(jps[i].parts, h.index)
             e == [jps[i] EXCEPT !.parts = s]
  <1>3. s \in Seq(0 .. MaxTotal)
    <2>1. jps[i].parts \in Seq(0 .. MaxTotal)
      BY <1>1 DEF Entry
    <2> QED
      BY <1>2, <2>1
  <1>4. jps' = [jps EXCEPT ![i] = e]
    BY DEF AddNode
  <1> HIDE DEF s
  <1>5. e \in Entry
    BY <1>1, <1>3 DEF Entry
  <1>6. TableOK'
    BY <1>5, <1>4 DEF TableOK, Index
  <1>7. jps'[i] = e
    BY <1>4 DEF TableOK
  <1>8. e.current_count = 0 /\ e.total \in 2 .. MaxTotal
    BY <1>5 DEF Entry
  <1>9. jps'[i].current_count # jps'[i].total
    BY <1>7, <1>8
  <1> QED
    BY <1>6, <1>9 DEF Returns

\* So does a part that starts an entry.
LEMMA CacheStep ==
  ASSUME JoinAssumption, TableOK, Idle # {}, NEW name \in Name, NEW id \in Id, NEW h \in Head1,
         CacheNewNode(name, id, h), Returns(First(Idle))
  PROVE  TableOK' /\ ret' = E_RET_OK
  <1> DEFINE i == First(Idle)
             e == [is_run |-> TRUE, name |-> name, id |-> id, total |-> h.total,
                   current_count |-> 0, parts |-> <<h.index>>]
  <1>1. i \in Index
    BY IdleIn DEF Idle
  <1>2. h.total \in 2 .. MaxTotal /\ <<h.index>> \in Seq(0 .. MaxTotal)
    BY DEF Head1
  <1>3. e \in Entry
    BY <1>2 DEF Entry
  <1>4. jps' = [jps EXCEPT ![i] = e]
    BY DEF CacheNewNode
  <1>5. TableOK'
    BY <1>3, <1>4 DEF TableOK, Index
  <1>6. jps'[i] = e
    BY <1>1, <1>4 DEF TableOK
  <1>7. jps'[i].current_count # jps'[i].total
    BY <1>2, <1>6
  <1> QED
    BY <1>5, <1>7 DEF Returns

LEMMA ProcLanStep ==
  ASSUME JoinAssumption, Inv, NEW name \in Name, NEW id \in Id, NEW h \in Head1, ProcLan(name, id, h)
  PROVE  Inv' /\ \A i \in Index : Kept(i)
  <1>1. CASE Found(name, id) # {} /\ AddNode(First(Found(name, id)), h)
             /\ Returns(First(Found(name, id)))
    <2> DEFINE f == First(Found(name, id))
    <2>1. f \in Index /\ jps[f].is_run
      <3>1. f \in Found(name, id)
        BY <1>1, FoundIn
      <3> HIDE DEF f
      <3> QED
        BY <3>1 DEF Found
    <2>2. TableOK' /\ ret' = E_RET_OK
      BY <1>1, <2>1, AddNodeStep DEF Inv
    <2>3. jps' = [jps EXCEPT ![f].parts = Append(@, h.index)]
      BY <1>1 DEF AddNode
    <2>4. jps[f] \in Entry
      BY <2>1 DEF Inv, TableOK, Unused
    <2>5. ASSUME NEW i \in Index PROVE Kept(i)
      <3>1. CASE i = f
        <4>1. jps'[i] = [jps[i] EXCEPT !.parts = Append(@, h.index)]
          BY <2>1, <2>3, <3>1 DEF Inv, TableOK
        <4> QED
          BY <2>1, <2>4, <3>1, <4>1 DEF Kept, Entry
      <3>2. CASE i # f
        BY <2>3, <3>2 DEF Kept, Inv, TableOK
      <3> QED
        BY <3>1, <3>2
    <2> QED
      BY <2>2, <2>5 DEF Inv, NothingJoined, ProcLan, E_RET_OK, E_RET_ALL_DATA_HIT
  <1>2. CASE Idle # {} /\ CacheNewNode(name, id, h) /\ Returns(First(Idle))
    <2>1. TableOK' /\ ret' = E_RET_OK
      BY <1>2, CacheStep DEF Inv
    <2>2. First(Idle) \in Index /\ ~jps[First(Idle)].is_run
      BY <1>2, IdleIn DEF Idle
    <2>3. ASSUME NEW i \in Index PROVE Kept(i)
      BY <1>2, <2>2 DEF Kept, CacheNewNode, Inv, TableOK
    <2> QED
      BY <2>1, <2>3 DEF Inv, NothingJoined, ProcLan, E_RET_OK, E_RET_ALL_DATA_HIT
  <1>3. CASE ret' \in {E_RET_ERROR_PKG_BREAK_ARRAY, E_RET_ERROR} /\ UNCHANGED jps
    <2>1. ret' # E_RET_ALL_DATA_HIT
      BY <1>3 DEF E_RET_ERROR_PKG_BREAK_ARRAY, E_RET_ERROR, E_RET_ALL_DATA_HIT
    <2>2. Inv'
      BY <1>3, <2>1 DEF Inv, TableOK, Index, NothingJoined, ProcLan
    <2> QED
      BY <1>3, <2>2 DEF Kept
  <1> QED
    BY <1>1, <1>2, <1>3 DEF ProcLan, AddData

-----------------------------------------------------------------------------
(* The results. *)

LEMMA InitInv == Init => Inv
  BY DEF Init, Inv, TableOK, Unused, NothingJoined, E_RET_OK, E_RET_ALL_DATA_HIT, NULL

LEMMA NextInv ==
  ASSUME JoinAssumption, Inv, [Next]_vars
  PROVE  Inv' /\ \A i \in Index : Kept(i)
  <1>1. CASE Next
    BY <1>1, ProcLanStep DEF Next
  <1>2. CASE UNCHANGED vars
    BY <1>2 DEF vars, Inv, TableOK, Index, NothingJoined, Kept
  <1> QED
    BY <1>1, <1>2

\* No message of more than one part is put together, whatever parts come and
\* however large the table is.
THEOREM NeverJoined ==
  ASSUME JoinAssumption
  PROVE  Spec => []NothingJoined
  <1>1. Inv => NothingJoined
    BY DEF Inv
  <1> QED
    BY <1>1, InitInv, NextInv, PTL DEF Spec

\* No entry of the table is given back or taken for another message.
THEOREM NeverReleased ==
  ASSUME JoinAssumption
  PROVE  Spec => NothingReleased
  <1>1. Inv /\ [Next]_vars => [\A i \in Index : Kept(i)]_vars
    BY NextInv
  <1> QED
    BY <1>1, InitInv, NextInv, PTL DEF Spec, NothingReleased

\* A message that finds the table full is refused for good: the hazard of a table
\* nothing leaves.
THEOREM FullStaysFull ==
  ASSUME JoinAssumption
  PROVE  Spec => FullForEver
  <1>1. ASSUME Inv, [Next]_vars, NEW name \in Name, NEW id \in Id,
               Full, Found(name, id) = {}
        PROVE  (Full /\ Found(name, id) = {})'
    <2>1. \A i \in Index : jps[i].is_run
      BY <1>1 DEF Full, Idle
    <2>2. \A i \in Index : Kept(i)
      BY <1>1, NextInv
    <2> QED
      BY <1>1, <2>1, <2>2 DEF Kept, Full, Idle, Found, Index
  <1>2. Inv /\ [Next]_vars =>
          [\A name \in Name, id \in Id :
             Full /\ Found(name, id) = {} => (Full /\ Found(name, id) = {})']_vars
    BY <1>1
  <1> QED
    BY <1>2, InitInv, NextInv, PTL DEF Spec, FullForEver
=============================================================================
