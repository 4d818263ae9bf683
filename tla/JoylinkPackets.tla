---------------------------- MODULE JoylinkPackets ----------------------------
(***************************************************************************)
(* The packets of JoyLink (joylink_security.c): which key seals and opens  *)
(* what. A packet is its header with the bytes behind it, opt and payload, *)
(* as records; a key of 32 bytes is 16 bytes of key and 16 of vector.      *)
(*                                                                         *)
(* The device dev has                                                      *)
(*   feedid      its name, as bytes                                        *)
(*   accesskey, localkey, sessionKey                                       *)
(*   devPubKeyC  its public key, compressed                                *)
(*   secret      the secret it shares with the owner of each public key    *)
(*               (uECC_decompress and uECC_shared_secret, see Ecc)         *)
(***************************************************************************)
EXTENDS Aes, Checksum

JL_MAX_PACKET_LEN == 1400
HeadSize == 16
uECC_BYTES == 20

PT_AUTH == 9

ET_NOTHING == 0
ET_PSKAES == 1
ET_ECDH == 2
ET_ACCESSKEYAES == 3
ET_SESSIONKEYAES == 4

Lan == "0x123455bb"
Server == "0x123455cc"

KeyPart(key) == SubSeq(key, 1, 16)
VectorPart(key, first) == SubSeq(key, first, first + 15)

Encrypted(key, vector, payload, room) ==
  device_aes_encrypt(AesEncrypt(KeyPart(key)), xorbuf, vector, payload, room)

Decrypted(key, vector, payload, room) ==
  device_aes_decrypt(AesDecrypt(KeyPart(key)), xorbuf, vector, payload, room)

\* The checksum is of what follows the header.
Headed(magic, enctype, type, opt, payload) ==
  [magic |-> magic, version |-> 1, type |-> type, enctype |-> enctype,
   optlen |-> Len(opt), payloadlen |-> Len(payload), opt |-> opt, payload |-> payload,
   crc |-> CRC16(opt \o payload)]

-----------------------------------------------------------------------------
(* What the device sends.                                                  *)

\* A packet of another enctype has no body. The vector of ET_ECDH is from byte 4 on of
\* the public key of the peer.
joylink_encrypt_lan_basic(dev, enctype, cmd, key, payload) ==
  LET room == Len(payload) + 16
      Lan1(opt, body) == Headed(Lan, enctype, cmd, opt, body)
  IN  CASE enctype \in {ET_NOTHING, ET_PSKAES} -> Lan1(<<>>, payload)
        [] enctype = ET_ACCESSKEYAES ->
             Lan1(<<>>, Encrypted(key, VectorPart(key, 17), payload, room))
        [] enctype = ET_ECDH ->
             Lan1(dev.devPubKeyC, Encrypted(dev.secret[key], VectorPart(key, 5), payload, room))
        [] OTHER -> Lan1(<<>>, <<>>)

\* To ask for a session the device gives its name and a random number in front, the
\* first four bytes of the payload. Payloads with their padding fit a packet: a refusal
\* of the cipher, which would be taken for a length of -1, is not modelled.
joylink_encypt_server_rsp(dev, cmd, key, payload) ==
  LET body == Encrypted(key, VectorPart(key, 17), payload, JL_MAX_PACKET_LEN)
  IN  IF cmd = PT_AUTH
      THEN Headed(Server, ET_ACCESSKEYAES, cmd, dev.feedid \o SubSeq(payload, 1, 4), body)
      ELSE Headed(Server, ET_SESSIONKEYAES, cmd, <<>>, body)

\* [out |-> what is written, ret |-> the length that is answered]; the public key is
\* written but not counted. The answer for other key types is what the memory held: it
\* is not modelled, no caller asks for them.
joylink_encrypt_sub_dev_data(dev, enctype, key, payload) ==
  LET room == Len(payload) + 16
      sealed == IF enctype = ET_ECDH
                THEN Encrypted(dev.secret[key], VectorPart(key, 5), payload, room)
                ELSE Encrypted(key, VectorPart(key, 17), payload, room)
  IN  [out |-> IF enctype = ET_ECDH THEN dev.devPubKeyC \o sealed ELSE sealed,
       ret |-> Len(sealed)]

-----------------------------------------------------------------------------
(* What the device receives. <<>> stands for the answer that there is      *)
(* nothing, 0, and for a negative one, of a padding longer than the data.  *)
(* The checksum is not looked at, and the enctype only in the local        *)
(* network: from the server the type decides.                              *)

joylink_dencypt_server_req(dev, packet, maxlen) ==
  LET key == IF packet.type = PT_AUTH THEN dev.accesskey ELSE dev.sessionKey
  IN  IF packet.magic = Server
      THEN Decrypted(key, VectorPart(key, 17), packet.payload, maxlen)
      ELSE <<>>

\* length is that of the datagram. ET_PSKAES is not read.
joylink_dencypt_lan_req(dev, packet, length, maxlen) ==
  LET whole == length = packet.optlen + packet.payloadlen + HeadSize
      secret == dev.secret[SubSeq(packet.opt, 1, uECC_BYTES + 1)]
  IN  IF packet.magic # Lan \/ ~whole \/ packet.payloadlen > JL_MAX_PACKET_LEN THEN <<>>
      ELSE CASE packet.enctype = ET_NOTHING -> packet.payload
             [] packet.enctype = ET_ACCESSKEYAES ->
                  Decrypted(dev.localkey, VectorPart(dev.localkey, 17), packet.payload, maxlen)
             [] packet.enctype = ET_ECDH ->
                  Decrypted(secret, VectorPart(secret, 5), packet.payload, maxlen)
             [] OTHER -> <<>>

joylink_dencrypt_sub_dev_data(data, key, keyType, maxlen) ==
  IF keyType = ET_ACCESSKEYAES THEN Decrypted(key, VectorPart(key, 17), data, maxlen) ELSE <<>>
===============================================================================
