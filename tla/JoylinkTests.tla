---------------------------- MODULE JoylinkTests ----------------------------
(***************************************************************************)
(* The cryptography and the packets of JoyLink against reference values    *)
(* and definitions, over bounded inputs: assumptions that TLC evaluates.   *)
(***************************************************************************)
EXTENDS JoylinkPackets

\* 0, 1, 2, ...
Counting(n) == [i \in 1 .. n |-> i - 1]

\* The examples of FIPS 197, for each length of key
Plain == [i \in 1 .. 16 |-> 17 * (i - 1)]
Sealed128 == <<105, 196, 224, 216, 106, 123, 4, 48, 216, 205, 183, 128, 112, 180, 197, 90>>
Sealed192 == <<221, 169, 124, 164, 134, 76, 223, 224, 110, 175, 112, 160, 236, 13, 113, 145>>
Sealed256 == <<142, 162, 183, 202, 81, 103, 69, 191, 234, 252, 73, 144, 75, 73, 96, 137>>

\* Both boxes are permutations of the bytes, and each undoes the other.
ASSUME Boxes ==
  /\ Te4 \in [Byte -> Byte] /\ Td4 \in [Byte -> Byte]
  /\ \A x \in Byte : Td4[Te4[x]] = x /\ Te4[Td4[x]] = x

\* The powers of 3 are all the bytes but 0, so that log is defined.
ASSUME Generates ==
  /\ pow \in [0 .. 255 -> Byte]
  /\ \A i, j \in 0 .. 254 : pow[i] = pow[j] => i = j

\* The tables that joylinkAES.c generates are those that aes.c has written out.
ASSUME TablesAgree ==
  /\ FSb = Te4 /\ RSb = Td4 /\ FTs = Te /\ RTs = Td /\ RCON = rcon

ASSUME CipherOfStandard ==
  \A example \in {<<16, Sealed128>>, <<24, Sealed192>>, <<32, Sealed256>>} :
    LET key == Counting(example[1])
    IN  /\ AesEncrypt(key)[Plain] = example[2]
        /\ AesDecrypt(key)[example[2]] = Plain

Key == Counting(16)
Vector == [i \in 1 .. 16 |-> 255 - i]

\* Messages around the length of a block
SomeMessages == {Counting(n) : n \in {1, 15, 16, 17, 32}}

Sealed(m) == device_aes_encrypt(AesEncrypt(Key), xorbuf, Vector, m, Len(m) + 16)

\* Block after block, and Chained, say the same of what a message is encrypted to.
ASSUME EncryptedIsChained ==
  \A m \in SomeMessages :
    LET E == AesEncrypt(Key)
        p == Blocks(Padded(m))
    IN  Chained(E, xorbuf, Vector, p, AesCbcEncrypt(E, xorbuf, Vector, p))

\* What is encrypted comes back, and takes one block more than its whole blocks.
ASSUME MessagesReturn ==
  \A m \in SomeMessages :
    /\ Len(Sealed(m)) = 16 * (Len(m) \div 16) + 16
    /\ device_aes_decrypt(AesDecrypt(Key), xorbuf, Vector, Sealed(m), Len(Sealed(m))) = m

\* The room that is asked for is short of a block where the padding has one of its own:
\* such a message is not refused for a buffer that cannot hold it.
ASSUME RoomShortOfPadding ==
  \A m \in SomeMessages : \A room \in {Len(m), Len(m) + 15, Len(m) + 16} :
    LET out == device_aes_encrypt(AesEncrypt(Key), xorbuf, Vector, m, room)
    IN  Len(out) > room <=> out # <<>> /\ Len(m) % 16 = 0 /\ room < Len(m) + 16

\* Both files seal a message to the same bytes, if no byte of the vector is 0, and open
\* each other's.
ASSUME FilesAgree ==
  \A m \in SomeMessages :
    LET n == Len(Sealed(m))
    IN  /\ joy_device_aes_encrypt(Key, Vector, m, n) = [len |-> n, out |-> Sealed(m)]
        /\ joy_device_aes_decrypt(Key, Vector, Sealed(m), n) = [len |-> Len(m), out |-> m]

\* What has no padding of its own at its end is not opened by joylinkAES.c: the answer is
\* the length that was given, as if all of it had been opened.
ASSUME BadPaddingAnswersLength ==
  LET c == joylink_enc2_crypt_cbc("encrypt", joylink_enc2_setkey_enc(Key), Vector, Plain)
  IN  joy_device_aes_decrypt(Key, Vector, c, 64) = [len |-> 16, out |-> <<>>]

-----------------------------------------------------------------------------
(* Packets.                                                                *)

Keys == [k \in 1 .. 4 |-> [i \in 1 .. 32 |-> (37 * k + 11 * i) % 256]]
PeerKey == <<2>> \o SubSeq(Keys[4], 1, 20)

Device ==
  [feedid |-> <<70, 69, 69, 68>>, accesskey |-> Keys[1], localkey |-> Keys[2], sessionKey |-> Keys[3],
   devPubKeyC |-> <<3>> \o SubSeq(Keys[1], 1, 20), secret |-> [k \in {PeerKey} |-> Keys[4]]]

Size(packet) == HeadSize + packet.optlen + packet.payloadlen

\* What is sealed for the server with the access key, to ask for a session, and with the
\* session key afterwards is opened with the same key, and with no other; the header says
\* how long the packet is.
ASSUME ServerPacketsReturn ==
  \A cmd \in {PT_AUTH, 10}, k \in {1, 3} : \A m \in {Counting(8), Counting(32)} :
    LET packet == joylink_encypt_server_rsp(Device, cmd, Keys[k], m)
    IN  /\ joylink_dencypt_server_req(Device, packet, JL_MAX_PACKET_LEN) = m
             <=> k = IF cmd = PT_AUTH THEN 1 ELSE 3
        /\ joylink_dencypt_lan_req(Device, packet, Size(packet), JL_MAX_PACKET_LEN) = <<>>
        /\ Size(packet) = 16 + IF cmd = PT_AUTH THEN Len(m) + 24 - (Len(m) % 16)
                               ELSE Len(m) + 16 - (Len(m) % 16)

\* In the local network the device reads back what it sent with its key or without one.
\* It does not read ET_PSKAES, which it would send in the clear, nor its own ET_ECDH: it
\* takes the vector of what it sends from the public key of the peer, and of what it
\* reads from the secret.
ASSUME LanPacketsReturn ==
  \A m \in {Counting(8), Counting(32)} : \A enctype \in 0 .. 4 :
    LET key == IF enctype = ET_ECDH THEN PeerKey ELSE Device.localkey
        sent == joylink_encrypt_lan_basic(Device, enctype, 4, key, m)
        packet == IF enctype = ET_ECDH THEN [sent EXCEPT !.opt = PeerKey] ELSE sent
    IN  /\ joylink_dencypt_lan_req(Device, packet, Size(packet), JL_MAX_PACKET_LEN) = m
             <=> enctype \in {ET_NOTHING, ET_ACCESSKEYAES}
        /\ enctype = ET_PSKAES => sent.payload = m

\* A datagram longer or shorter than its header says is refused, whatever it holds; one
\* whose checksum is wrong is not.
ASSUME LengthNotChecksum ==
  LET packet == joylink_encrypt_lan_basic(Device, ET_ACCESSKEYAES, 4, Device.localkey, Plain)
  IN  /\ \A n \in {-1, 1} :
           joylink_dencypt_lan_req(Device, packet, Size(packet) + n, JL_MAX_PACKET_LEN) = <<>>
      /\ joylink_dencypt_lan_req(Device, [packet EXCEPT !.crc = @ + 1], Size(packet), 1400) = Plain

\* What is sealed for a sub-device with its key comes back.
ASSUME SubDeviceReturns ==
  LET sealed == joylink_encrypt_sub_dev_data(Device, ET_ACCESSKEYAES, Keys[2], Plain)
  IN  /\ sealed.ret = Len(sealed.out)
      /\ joylink_dencrypt_sub_dev_data(sealed.out, Keys[2], ET_ACCESSKEYAES, 1400) = Plain
=============================================================================
