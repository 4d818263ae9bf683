------------------------------- MODULE Codec -------------------------------
(***************************************************************************)
(* The conversions of the gateway's datagrams (src/tcl/geniot.c), the hex  *)
(* strings of JoyLink and its test of a time-out (joylink_utils.c), as     *)
(* operators.  Bit operations are written as arithmetic: << k and >> k     *)
(* are products with and quotients by 2^k, masks are remainders.           *)
(* A character of base64 is its place in base64char, Pad is '='.           *)
(***************************************************************************)
EXTENDS Integers, Sequences

Byte == 0 .. 255
Pad == 64     \* '='
Caret == 65   \* '^'
Amp == 66     \* '&'

\* Groups of three bytes, the last one perhaps begun only
Groups(n) == (n + 2) \div 3

\* Byte i of group g of the input, 1 the first; a missing one adds no bits
ByteIn(s, g, i) == IF 3 * g + i > Len(s) THEN 0 ELSE s[3 * g + i]

\* Character k of group g of the output, 1 the first
Symbol(s, g, k) ==
  CASE k = 1 -> ByteIn(s, g, 1) \div 4
    [] k = 2 -> 16 * (ByteIn(s, g, 1) % 4) + ByteIn(s, g, 2) \div 16
    [] k = 3 -> IF 3 * g + 2 > Len(s) THEN Pad ELSE 4 * (ByteIn(s, g, 2) % 16) + ByteIn(s, g, 3) \div 64
    [] k = 4 -> IF 3 * g + 3 > Len(s) THEN Pad ELSE ByteIn(s, g, 3) % 64

iotBase64encode(s) ==
  [j \in 1 .. 4 * Groups(Len(s)) |-> Symbol(s, (j - 1) \div 4, 1 + ((j - 1) % 4))]

\* temp[k]: 0xFF for what is not in base64char
Value(c) == IF c < 64 THEN c ELSE 255

\* Byte k of group g of the characters t
Octet(t, g, k) ==
  LET v(i) == Value(t[4 * g + i])
  IN  CASE k = 1 -> ((4 * v(1)) % 256) + ((v(2) \div 16) % 4)
        [] k = 2 -> ((16 * v(2)) % 256) + ((v(3) \div 4) % 16)
        [] k = 3 -> ((64 * v(3)) % 256) + (v(4) % 64)

\* Decoding ends behind the first group with '=' in its third or fourth place.
Ends(t) == {g \in 0 .. Len(t) \div 4 - 1 : t[4 * g + 3] = Pad \/ t[4 * g + 4] = Pad}

FirstEnd(t) == CHOOSE g \in Ends(t) : \A h \in Ends(t) : g <= h

DecodedLen(t) ==
  IF Ends(t) = {} THEN 3 * (Len(t) \div 4)
  ELSE 3 * FirstEnd(t) + IF t[4 * FirstEnd(t) + 3] = Pad THEN 1 ELSE 2

\* iotBase64decode and iotBase64decode_str, of whole groups
iotBase64decode(t) ==
  [j \in 1 .. DecodedLen(t) |-> Octet(t, (j - 1) \div 3, 1 + ((j - 1) % 3))]

\* The result is the text; <<>> stands for the answer 0.
iotDataToBase64(s, base64len) ==
  IF base64len < ((4 * Len(s)) \div 3) + 12
  THEN <<>>
  ELSE <<Caret>> \o iotBase64encode(s) \o <<Amp>>

iotBase64ToData(t, binlength) ==
  IF binlength >= Len(t) /\ t # <<>> /\ t[1] = Caret /\ t[Len(t)] = Amp
  THEN iotBase64decode(SubSeq(t, 2, Len(t) - 1))
  ELSE <<>>

-----------------------------------------------------------------------------
(* Byte order (LITTLEENDING is 1), and the header                          *)

U16 == 65536
U32 == 65536 * 65536

iot_htons(n) == 256 * (n % 256) + n \div 256
iot_ntohs(n) == iot_htons(n)

iot_htonl(n) == U16 * iot_htons(n % U16) + iot_htons(n \div U16)
iot_ntohl(n) == iot_htonl(n)

\* sizeof(IotHead) and sizeof(IotFota)
HS == 20
FS == 16

\* The fields of IotHead as they lie in memory
IotHead == [ctrl : 0 .. U16 - 1, informationType : 0 .. U16 - 1,
            dnetid : 0 .. U32 - 1, snetid : 0 .. U32 - 1, sn : 0 .. U32 - 1,
            cmd : 0 .. U16 - 1, len : 0 .. U16 - 1]

\* len is the length of the buffer: iotGetHead refuses what holds no header.
\* The parameter ctrl is not used.
iotSetHead(h, len, ctrl, informationType, dnetid, snetid) ==
  IF len < HS THEN h
  ELSE [h EXCEPT !.ctrl = iot_htons(256),
                 !.informationType = iot_htons(informationType),
                 !.dnetid = iot_htonl(dnetid), !.snetid = iot_htonl(snetid)]

iotSetHeadCmd(h, len, sn, cmd, datalen) ==
  IF len < HS THEN h
  ELSE [h EXCEPT !.sn = iot_htonl(sn), !.cmd = iot_htons(cmd), !.len = iot_htons(datalen)]

iotGetHeadCmd(h, len) == IF len < HS THEN 0 ELSE iot_ntohs(h.cmd)

\* Stores the 32-bit data in the field that `head` names, as set_udp_data_0X_int
\* does: a net id keeps its low half only.
set_udp_data_0X_int(h, head, data) ==
  LET short == data % U16
  IN  CASE head = "HEAD_CTRL" -> [h EXCEPT !.ctrl = iot_htons(short)]
        [] head = "HEAD_INFORMATIONTYPE" -> [h EXCEPT !.informationType = iot_htons(short)]
        [] head = "HEAD_DNETID" -> [h EXCEPT !.dnetid = short]
        [] head = "HEAD_SNETID" -> [h EXCEPT !.snetid = short]
        [] head = "HEAD_SN" -> [h EXCEPT !.sn = data]
        [] head = "HEAD_CMD" -> [h EXCEPT !.cmd = iot_htons(short)]
        [] head = "HEAD_LEN" -> [h EXCEPT !.len = iot_htons(short)]
        [] OTHER -> h

\* The length of the data that iotGetOtaData finds in a datagram of len bytes;
\* -FS stands for the answer NULL (no packet has that length).  The field h.len
\* is taken as it lies in memory.
iotGetOtaData(h, len) ==
  IF len < HS \/ h.len <= 0 \/ h.len > 1024 \/ len # HS + h.len
  THEN -FS
  ELSE h.len - FS

-----------------------------------------------------------------------------
(* Hex strings: a digit is its value, NotHex any other character.          *)

NotHex == 16

\* The digits; the 0 behind them is left out. It fits in dstLen unless dstLen is
\* exactly twice the length of s: then the code writes it behind the buffer.
joylink_util_byte2hexstr(s, dstLen) ==
  LET srcLen == IF dstLen < 2 * Len(s) THEN (dstLen - 1) \div 2 ELSE Len(s)
  IN  [j \in 1 .. 2 * srcLen |->
         LET b == s[(j - 1) \div 2 + 1] IN IF j % 2 = 1 THEN b \div 16 ELSE b % 16]

\* The first bytes of buf; <<>> also stands for the answer -1.
joylink_util_hexStr2bytes(t, bufLen) ==
  LET len == IF bufLen < Len(t) \div 2 THEN bufLen ELSE Len(t) \div 2
  IN  IF \E j \in 1 .. 2 * len : t[j] = NotHex THEN <<>>
      ELSE [i \in 1 .. len |-> 16 * t[2 * i - 1] + t[2 * i]]

-----------------------------------------------------------------------------
(* Time-outs: the clock runs in 31 bits, the difference is taken in 32.    *)

Clock == 65536 * 32768

joylink_util_getsys(ms) == ms % Clock

Int32(n) == IF n % U32 >= Clock THEN (n % U32) - U32 ELSE n % U32

\* timestamp is joylink_util_getsys of some moment, now that of the present.
joylink_util_is_time_out(timestamp, timeout, now) ==
  Int32(timestamp + timeout - now) <= 0
=============================================================================
