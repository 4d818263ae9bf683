------------------------------ MODULE Checksum ------------------------------
(***************************************************************************)
(* The checksums of common.c and mico_tcl_ota.c, the 0x55 put behind every *)
(* 0xf5 of a frame, so that two 0xf5 occur in its header only, and the     *)
(* checksums of JoyLink packets (auth/crc.c).                              *)
(* Bytes are 0 .. 255, checksums 0 .. 65535.                               *)
(***************************************************************************)
EXTENDS Integers, Sequences, SequencesExt, Bitwise

\* One bit of the division: the polynomial is 0x8408
Shift(crc) == IF crc % 2 = 1 THEN (crc \div 2) ^^ 33800 ELSE crc \div 2

crc16_ccitt(data, crc) ==
  LET after[k \in 0 .. 8] == IF k = 0 THEN crc ^^ data ELSE Shift(after[k - 1])
  IN  after[8]

\* crc_calculate, iotCrc, and crc_cal without CRCLIST
crc_calculate(s) ==
  65535 - FoldLeft(LAMBDA crc, data : crc16_ccitt(data, crc), 65535, s)

\* CRC16_CCITT_TABLE8H and CRC16_CCITT_TABLE8L hold its halves.
CRC16_CCITT_TABLE == [i \in 0 .. 255 |-> crc16_ccitt(i, 0)]

\* crc_cal as it is built, with the two halves of the sum in a byte each
crc_cal(s) ==
  LET Next8(crc, data) ==
        LET entry == CRC16_CCITT_TABLE[crc.l ^^ data]
        IN  [l |-> crc.h ^^ (entry % 256), h |-> entry \div 256]
      crc == FoldLeft(Next8, [l |-> 255, h |-> 255], s)
  IN  65535 - (256 * crc.h + crc.l)

SumCheck(s) == FoldLeft(LAMBDA sum, data : (sum + data) % 256, 0, s)

XorCheck(s) == FoldLeft(LAMBDA sum, data : sum ^^ data, 0, s)

-----------------------------------------------------------------------------
(* Frames: a header of four bytes, then the data.                          *)

F5 == 245
Mark == 85     \* 0x55
HeadLen == 4   \* sizeof(TCL_UART_HEAD)

Stuff(s) ==
  FoldLeft(LAMBDA t, b : t \o (IF b = F5 THEN <<F5, Mark>> ELSE <<b>>), <<>>, s)

add_f5_55(s) == SubSeq(s, 1, HeadLen) \o Stuff(SubSeq(s, HeadLen + 1, Len(s)))

\* The bytes of s at its places outside D
Without(s, D) ==
  FoldLeft(LAMBDA t, i : IF i \in D THEN t ELSE Append(t, s[i]), <<>>, [i \in 1 .. Len(s) |-> i])

\* The places after the first that hold the 0x55 behind an 0xf5
Marks(s) == {i \in 2 .. Len(s) : s[i] = Mark /\ s[i - 1] = F5}

\* Out of the data only
del_f5_55(s) == Without(s, Marks(s) \ 1 .. HeadLen + 1)

\* Out of the whole frame, with its header
find_f5_55(s) == Without(s, Marks(s))

\* How many bytes from the end of s its checksum begins: each of its two bytes
\* may have an 0x55 behind it.
CrcLen(s) ==
  LET n == Len(s)
      marked(i) == s[i] = F5 /\ s[i + 1] = Mark
  IN  IF marked(n - 3) /\ marked(n - 1) THEN 4
      ELSE IF marked(n - 1) \/ marked(n - 2) THEN 3
      ELSE 2

\* The frame with its length is accepted if its checksum is found behind it.
crc_check(s) ==
  LET n == Len(s)
      m == n - CrcLen(s)
      crc == crc_calculate(SubSeq(s, 1, m))
      l == IF CrcLen(s) = 4 \/ (CrcLen(s) = 3 /\ s[n - 1] = F5 /\ s[n] = Mark)
           THEN s[n - 1] ELSE s[n]
  IN  s[m + 1] = crc \div 256 /\ l = crc % 256

\* The frame that app_to_device puts on the UART: the data get their marks, the
\* checksum behind them does not.
app_to_device(type, data) ==
  LET frame == add_f5_55(<<F5, F5, 0, (Len(data) + 3) % 256, type>> \o data)
      crc == crc_calculate(frame)
  IN  frame \o <<crc \div 256, crc % 256>>

-----------------------------------------------------------------------------
(* The checksums of JoyLink.                                               *)

\* crc ^ (crc << k), in 16 bits, of the bits of crc below 2^m
Spread(crc, k, m) == crc ^^ (((crc % m) * k) % 65536)

CRC16(s) ==
  LET Add[crc, data \in Nat] ==
        LET a == (256 * (crc % 256) + crc \div 256) ^^ data
            b == a ^^ ((a % 256) \div 16)
        IN  Spread(Spread(b, 4096, 65536), 32, 256)
  IN  FoldLeft(LAMBDA crc, data : Add[crc, data], 65535, s)

\* The bits of each byte from the lowest; crc8 divides before it looks at the bit.
crc8(s) ==
  LET Halve(c) == IF c % 2 = 1 THEN (c \div 2) ^^ 140 ELSE c \div 2
      Bit(c, set) == IF set THEN Halve(c) ^^ 140 ELSE Halve(c)
      Add(crc, data) ==
        LET after[k \in 0 .. 8] ==
              IF k = 0 THEN crc ELSE Bit(after[k - 1], (data \div (2 ^ (k - 1))) % 2 = 1)
        IN  after[8]
  IN  FoldLeft(Add, 0, s)

\* 32 bits as two halves: one step of the division by 0xEDB88320
Shift32(c) ==
  LET l == c.l \div 2 + 32768 * (c.h % 2)
  IN  IF c.l % 2 = 1 THEN [h |-> (c.h \div 2) ^^ 60856, l |-> l ^^ 33568]
      ELSE [h |-> c.h \div 2, l |-> l]

crc32_table ==
  [i \in 0 .. 255 |->
     LET after[k \in 0 .. 8] == IF k = 0 THEN [h |-> 0, l |-> i] ELSE Shift32(after[k - 1])
     IN  after[8]]

\* Begun with crc, and not inverted at the end
make_crc(crc, s) ==
  LET Add(c, data) ==
        LET entry == crc32_table[(c.l ^^ data) % 256]
        IN  [h |-> (c.h \div 256) ^^ entry.h,
             l |-> (c.l \div 256 + 256 * (c.h % 256)) ^^ entry.l]
  IN  FoldLeft(Add, crc, s)
=============================================================================
