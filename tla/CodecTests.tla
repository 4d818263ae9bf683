----------------------------- MODULE CodecTests -----------------------------
(***************************************************************************)
(* The conversions and checksums against reference definitions, over       *)
(* bounded inputs: assumptions that TLC evaluates.                         *)
(***************************************************************************)
EXTENDS Codec, Checksum

\* Bytes with all their bits clear, set, and mixed; 0xf5 and 0x55 are those of frames.
SomeByte == {0, 1, 63, 85, 170, 245, 255}

SomeBytes(n) == UNION {[1 .. k -> SomeByte] : k \in 0 .. n}

\* RFC 4648: three bytes and four characters are the same number to different bases.
ASSUME EncodesNumber ==
  \A s \in [1 .. 3 -> SomeByte] :
    LET t == iotBase64encode(s)
    IN  /\ Len(t) = 4
        /\ 65536 * s[1] + 256 * s[2] + s[3] = 262144 * t[1] + 4096 * t[2] + 64 * t[3] + t[4]

\* A datagram is taken apart to what was put in; what does not fit is refused.
ASSUME DatagramReturns ==
  \A s \in SomeBytes(4), size \in 12 .. 24 :
    LET d == iotDataToBase64(s, size)
    IN  IF d = <<>> THEN size < 12 + (4 * Len(s)) \div 3
        ELSE /\ Len(d) < size
             /\ iotBase64ToData(d, 24) = s
             /\ iotBase64ToData(d, Len(d) - 1) = <<>>

\* A hex string is cut to whole bytes, and 0 at its end, where the buffer is short.
ASSUME HexReturns ==
  \A s \in SomeBytes(3), size \in 1 .. 8 :
    LET t == joylink_util_byte2hexstr(s, size)
    IN  joylink_util_hexStr2bytes(t, 3)
          = IF 2 * Len(s) <= size THEN s ELSE SubSeq(s, 1, (size - 1) \div 2)

\* A packet built by the program is found to have the data it was given, when its
\* length is the same in both byte orders (iotGetOtaData does not convert it).
ASSUME OtaDataFound ==
  \A datalen \in {0, 1, 257, 496, 512, 771, 1008, 1009} :
    LET packlen == FS + datalen
        h == [ctrl |-> 0, informationType |-> 0, dnetid |-> 0, snetid |-> 0, sn |-> 0,
              cmd |-> 0, len |-> packlen]
    IN  iotGetOtaData(h, HS + packlen) = IF packlen <= 1024 THEN datalen ELSE -FS

\* Of the fields that set_udp_data_0X_int stores in network order, each is read back
\* as its low half; the command is what iotGetHeadCmd answers.
ASSUME FieldsStored ==
  LET h == [ctrl |-> 0, informationType |-> 0, dnetid |-> 0, snetid |-> 0, sn |-> 0,
            cmd |-> 0, len |-> 0]
  IN  \A data \in {0, 1, 255, 256, 65535, 65536, 65537, 16909060} :
        /\ iotGetHeadCmd(set_udp_data_0X_int(h, "HEAD_CMD", data), HS) = data % U16
        /\ iot_ntohs(set_udp_data_0X_int(h, "HEAD_LEN", data).len) = data % U16
        /\ set_udp_data_0X_int(h, "HEAD_SN", data).sn = data

-----------------------------------------------------------------------------

\* CRC-16/X-25 of "123456789" is 0x906e.
ASSUME CheckValue ==
  LET digits == [i \in 1 .. 9 |-> 48 + i]
  IN  /\ crc_calculate(digits) = 36974
      /\ crc_cal(digits) = 36974

\* The sum by tables is the sum bit by bit.
ASSUME TablesRight ==
  \A s \in SomeBytes(3) : crc_cal(s) = crc_calculate(s)

\* A frame with one byte replaced by an 0xf5 or an 0x55, which UpLink takes to fail
\* its check, fails it.
ASSUME ReplacedByteFound ==
  \A s \in [1 .. 3 -> SomeByte], i \in 1 .. 3, b \in {F5, Mark} :
    s[i] # b => crc_cal([s EXCEPT ![i] = b]) # crc_cal(s)

\* So do the simple checksums.
ASSUME ReplacedByteChanges ==
  \A s \in [1 .. 3 -> SomeByte], i \in 1 .. 3, b \in SomeByte :
    s[i] # b => /\ SumCheck([s EXCEPT ![i] = b]) # SumCheck(s)
                /\ XorCheck([s EXCEPT ![i] = b]) # XorCheck(s)

\* Marked data have no two 0xf5 in a row, and the marks come off again.
ASSUME MarksComeOff ==
  \A s \in SomeBytes(4) :
    LET frame == <<F5, F5, 0, Len(s)>> \o s
        sent == add_f5_55(frame)
    IN  /\ \A i \in HeadLen + 1 .. Len(sent) - 1 : ~(sent[i] = F5 /\ sent[i + 1] = F5)
        /\ del_f5_55(sent) = frame
        /\ find_f5_55(sent) = frame

\* Pairs of data bytes, among them some whose frame has an 0xf5 in the first byte of
\* its checksum, in the second, in both, and one that has 0xf5 and 0x55.
SomePairs == {0, 1, 2, 116, 129, 245} \X {0, 1, 19, 29, 81, 85, 128, 136, 140, 162, 245}

\* crc_check accepts a frame whose checksum carries marks as its data do.
ASSUME MarkedSumAccepted ==
  \A pair \in SomePairs :
    LET frame == add_f5_55(<<F5, F5, 0, 5, 2>> \o pair)
        crc == crc_calculate(frame)
    IN  crc_check(frame \o Stuff(<<crc \div 256, crc % 256>>))

\* What app_to_device sends passes the same check when no byte of its checksum is
\* an 0xf5; otherwise the checksum has no mark, and may look like one.
ASSUME SentAccepted ==
  \A pair \in SomePairs :
    LET sent == app_to_device(2, pair)
        n == Len(sent)
    IN  F5 \notin {sent[n - 1], sent[n]} => crc_check(sent)

\* Of "123456789", CRC-16/CCITT-FALSE is 0x29b1, Dallas CRC-8 0xa1 and CRC-32, which
\* begins with all bits set and is inverted at the end, 0xcbf43926.
ASSUME CheckValuesOfJoylink ==
  LET digits == [i \in 1 .. 9 |-> 48 + i]
  IN  /\ CRC16(digits) = 10673
      /\ crc8(digits) = 161
      /\ make_crc([h |-> 65535, l |-> 65535], digits) = [h |-> 65535 - 52212, l |-> 65535 - 14630]
=============================================================================
