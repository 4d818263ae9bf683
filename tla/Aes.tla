--------------------------------- MODULE Aes ---------------------------------
(***************************************************************************)
(* The block cipher of JoyLink packets, which the source has twice: in     *)
(* aes.c with tables written out, and in joylinkAES.c with tables that it  *)
(* generates. A word is the sequence of its four bytes in the order of     *)
(* memory, which makes the two the same; the state is four words.          *)
(***************************************************************************)
EXTENDS Cbc

\* The exclusive or of two bytes, bit by bit
Sum2(x, y) ==
  LET Bit(b) == b * (((x \div b) + (y \div b)) % 2)
  IN  Bit(1) + Bit(2) + Bit(4) + Bit(8) + Bit(16) + Bit(32) + Bit(64) + Bit(128)

XorWord(v, w) == <<Sum2(v[1], w[1]), Sum2(v[2], w[2]), Sum2(v[3], w[3]), Sum2(v[4], w[4])>>

\* x times the polynomial x in GF(2^8)
XTIME(x) == Sum2((2 * x) % 256, IF x >= 128 THEN 27 ELSE 0)

-----------------------------------------------------------------------------
(* The tables of aes.c, as FIPS 197 defines what they hold.                *)

\* The product in GF(2^8), by the bits of y
Times(x, y) ==
  LET x2 == XTIME(x)    x4 == XTIME(x2)    x8 == XTIME(x4)    x16 == XTIME(x8)
      x32 == XTIME(x16) x64 == XTIME(x32)  x128 == XTIME(x64)
      If(b, z) == IF (y \div b) % 2 = 1 THEN z ELSE 0
  IN  Sum2(Sum2(Sum2(If(1, x), If(2, x2)), Sum2(If(4, x4), If(8, x8))),
           Sum2(Sum2(If(16, x16), If(32, x32)), Sum2(If(64, x64), If(128, x128))))

\* x to the power e < 256
Power(x, e) ==
  LET x2 == Times(x, x)       x4 == Times(x2, x2)     x8 == Times(x4, x4)
      x16 == Times(x8, x8)    x32 == Times(x16, x16)  x64 == Times(x32, x32)
      If(b, z) == IF (e \div b) % 2 = 1 THEN z ELSE 1
  IN  Times(Times(Times(If(1, x), If(2, x2)), Times(If(4, x4), If(8, x8))),
            Times(Times(If(16, x16), If(32, x32)), Times(If(64, x64), If(128, Times(x64, x64)))))

ROTL1(y) == ((2 * y) % 256) + (y \div 128)

Affine(x) ==
  LET a == ROTL1(x)  b == ROTL1(a)  c == ROTL1(b)  d == ROTL1(c)
  IN  Sum2(Sum2(Sum2(x, a), Sum2(b, c)), Sum2(d, 99))

\* Each word of the tables Te[4] and Td[4] is one byte four times.
Te4 == [x \in Byte |-> Affine(Power(x, 254))]
Td4 == [y \in Byte |-> CHOOSE x \in Byte : Te4[x] = y]

ROTL8(w) == <<w[4], w[1], w[2], w[3]>>

Te0 == [x \in Byte |-> LET s == Te4[x] IN <<Times(2, s), s, s, Times(3, s)>>]
Te1 == [x \in Byte |-> ROTL8(Te0[x])]
Te2 == [x \in Byte |-> ROTL8(Te1[x])]
Te3 == [x \in Byte |-> ROTL8(Te2[x])]
Te == <<Te0, Te1, Te2, Te3>>

Td0 == [x \in Byte |-> LET s == Td4[x] IN <<Times(14, s), Times(9, s), Times(13, s), Times(11, s)>>]
Td1 == [x \in Byte |-> ROTL8(Td0[x])]
Td2 == [x \in Byte |-> ROTL8(Td1[x])]
Td3 == [x \in Byte |-> ROTL8(Td2[x])]
Td == <<Td0, Td1, Td2, Td3>>

rcon == <<1, 2, 4, 8, 16, 32, 64, 128, 27, 54>>

-----------------------------------------------------------------------------
(* The tables of joylinkAES.c, by powers and logarithms of 3.              *)

pow == [i \in 0 .. 255 |-> Power(3, i)]

\* 3 to the power 255 is 1 again, and is written over 3 to the power 0.
log == [x \in 1 .. 255 |-> CHOOSE i \in 1 .. 255 : pow[i] = x]

MUL(x, y) == IF x = 0 \/ y = 0 THEN 0 ELSE pow[(log[x] + log[y]) % 255]

FSb == [i \in Byte |-> IF i = 0 THEN 99 ELSE Affine(pow[255 - log[i]])]
RSb == [y \in Byte |-> CHOOSE i \in Byte : FSb[i] = y]

FT == [i \in Byte |-> LET x == FSb[i]  y == XTIME(x) IN <<y, x, x, Sum2(y, x)>>]
RT == [i \in Byte |-> LET x == RSb[i] IN <<MUL(14, x), MUL(9, x), MUL(13, x), MUL(11, x)>>]

FTs == <<FT, [i \in Byte |-> ROTL8(FT[i])], [i \in Byte |-> ROTL8(ROTL8(FT[i]))],
         [i \in Byte |-> ROTL8(ROTL8(ROTL8(FT[i])))]>>
RTs == <<RT, [i \in Byte |-> ROTL8(RT[i])], [i \in Byte |-> ROTL8(ROTL8(RT[i]))],
         [i \in Byte |-> ROTL8(ROTL8(ROTL8(RT[i])))]>>

RCON == [i \in 1 .. 10 |-> Power(2, i - 1)]

-----------------------------------------------------------------------------
(* The keys of the rounds, each of four words, with the tables of either   *)
(* file.                                                                   *)

Sub(box, w) == <<box[w[1]], box[w[2]], box[w[3]], box[w[4]]>>

Rounds(keylen) == (keylen \div 4) + 6

\* The words w of the key so far and the next n of them, as many as the user's key
\* has: each is the one before, summed with the one n before.
NextWords(box, w, n, c) ==
  LET old == SubSeq(w, Len(w) - n + 1, Len(w))
      last == old[n]
      first == XorWord(Sub(box, <<last[2], last[3], last[4], last[1]>>), <<c, 0, 0, 0>>)
      new[j \in 1 .. n] ==
        XorWord(old[j], CASE j = 1 -> first
                          [] n = 8 /\ j = 5 -> Sub(box, new[4])
                          [] OTHER -> new[j - 1])
  IN  w \o new

\* For a key of 16, 24 or 32 bytes
Expanded(box, constants, userKey) ==
  LET n == Len(userKey) \div 4
      total == 4 * (Rounds(Len(userKey)) + 1)
      given == [i \in 1 .. n |-> SubSeq(userKey, 4 * i - 3, 4 * i)]
      w == FoldLeft(LAMBDA v, c : NextWords(box, v, n, c), given,
                    SubSeq(constants, 1, (total - 1) \div n))
  IN  [r \in 1 .. total \div 4 |-> SubSeq(w, 4 * r - 3, 4 * r)]

\* The word that the tables T give for the bytes w
Mixed(T, w) ==
  XorWord(XorWord(T[1][w[1]], T[2][w[2]]), XorWord(T[3][w[3]], T[4][w[4]]))

\* For decryption in the opposite order; all but the first and the last have their
\* words mixed back.
Inverted(T, box, keys) ==
  LET rk == Reverse(keys)
      Back(w) == Mixed(T, Sub(box, w))
  IN  [r \in 1 .. Len(rk) |->
         IF r \in {1, Len(rk)} THEN rk[r]
         ELSE <<Back(rk[r][1]), Back(rk[r][2]), Back(rk[r][3]), Back(rk[r][4])>>]

EncryptionKeys(userKey) == Expanded(Te4, rcon, userKey)
DecryptionKeys(userKey) == Inverted(Td, Te4, EncryptionKeys(userKey))

joylink_enc2_setkey_enc(userKey) == Expanded(FSb, RCON, userKey)
joylink_enc2_setkey_dec(userKey) == Inverted(RTs, FSb, joylink_enc2_setkey_enc(userKey))

-----------------------------------------------------------------------------
(* A block.                                                                *)

\* The bytes that make word c: one of each word, step words apart
Picked(s, step, c) ==
  LET Of(r) == s[((c - 1 + step * r) % 4) + 1][r + 1]
  IN  <<Of(0), Of(1), Of(2), Of(3)>>

Word == [1 .. 4 -> Byte]
State == [1 .. 4 -> Word]

\* All rounds, each with its key; the last has no mixing.
Crypt(T, box, step, rk, b) ==
  LET Mix[s \in State, k \in State] ==
        LET New(c) == XorWord(Mixed(T, Picked(s, step, c)), k[c])
        IN  <<New(1), New(2), New(3), New(4)>>
      n == Len(rk)
      start == [c \in 1 .. 4 |-> XorWord(SubSeq(b, 4 * c - 3, 4 * c), rk[1][c])]
      s == FoldLeft(LAMBDA u, k : Mix[u, k], start, SubSeq(rk, 2, n - 1))
      New(c) == XorWord(Sub(box, Picked(s, step, c)), rk[n][c])
  IN  New(1) \o New(2) \o New(3) \o New(4)

AesEncrypt(userKey) ==
  LET rk == EncryptionKeys(userKey) IN [b \in Block |-> Crypt(Te, Te4, 1, rk, b)]

AesDecrypt(userKey) ==
  LET rk == DecryptionKeys(userKey) IN [b \in Block |-> Crypt(Td, Td4, 3, rk, b)]

xorbuf ==
  [p \in Block \X Block |->
     LET Part(c) == XorWord(SubSeq(p[1], 4 * c - 3, 4 * c), SubSeq(p[2], 4 * c - 3, 4 * c))
     IN  Part(1) \o Part(2) \o Part(3) \o Part(4)]

-----------------------------------------------------------------------------
(* joylinkEnc2Crypt: the same cipher with paddings of its own. Error is an *)
(* answer below 0.                                                         *)

Error == <<-1>>

joylink_enc2_crypt_ecb(mode, rk) ==
  [b \in Block |-> IF mode = "encrypt" THEN Crypt(FTs, FSb, 1, rk, b) ELSE Crypt(RTs, RSb, 3, rk, b)]

\* Of whole blocks
joylink_enc2_crypt_cbc(mode, rk, iv, data) ==
  LET C == joylink_enc2_crypt_ecb(mode, rk)
  IN  Joined(IF mode = "encrypt" THEN AesCbcEncrypt(C, xorbuf, iv, Blocks(data))
             ELSE AesCbcDecrypt(C, xorbuf, iv, Blocks(data)))

\* data is the buffer, of which len bytes are given. Without PKCS5 the bytes that fill
\* the last block are those that are there.
joylinkPadding(data, len, maxLen, isPKCS5) ==
  LET n == IF isPKCS5 THEN PadLen(len) ELSE (-len) % 16
  IN  IF len + n > maxLen THEN Error
      ELSE IF isPKCS5 THEN SubSeq(data, 1, len) \o [i \in 1 .. n |-> n]
      ELSE SubSeq(data, 1, len + n)

\* The padding is tested. Where the code would read bytes before the data (there are
\* none, or each is the padding and more than their number), an error is answered here.
joylinkUnPadding(data, isPKCS5) ==
  LET n == Len(data)
      padding == data[n]
  IN  IF n = 0 \/ n % 16 # 0 \/ (isPKCS5 /\ (padding > n \/ \E i \in 1 .. padding : data[n + 1 - i] # padding))
      THEN Error
      ELSE IF isPKCS5 THEN SubSeq(data, 1, n - padding)
      ELSE data

joylinkEnc2Crypt(userKey, iv, data, len, maxLen, isPKCS5, type) ==
  LET padded == joylinkPadding(data, len, maxLen, isPKCS5)
      sealed == SubSeq(data, 1, len)
  IN  CASE type = "encrypt" ->
             IF padded = Error THEN Error
             ELSE joylink_enc2_crypt_cbc(type, joylink_enc2_setkey_enc(userKey), iv, padded)
        [] type = "decrypt" ->
             IF len % 16 # 0 THEN Error
             ELSE joylinkUnPadding(
                    joylink_enc2_crypt_cbc(type, joylink_enc2_setkey_dec(userKey), iv, sealed), isPKCS5)

\* The vector is copied as a string: it ends at its first 0.
Cut(iv) == [i \in DOMAIN iv |-> IF \E j \in 1 .. i : iv[j] = 0 THEN 0 ELSE iv[i]]

\* [len |-> the answer, out |-> what is written]: after an error the answer is the
\* length that was given, and nothing is written.
Answered(given, result, maxOutLen) ==
  IF result = Error THEN [len |-> given, out |-> <<>>]
  ELSE IF Len(result) > maxOutLen THEN [len |-> 0, out |-> <<>>]
  ELSE [len |-> Len(result), out |-> result]

joy_device_aes_encrypt(userKey, iv, plain, maxOutLen) ==
  Answered(Len(plain),
           joylinkEnc2Crypt(userKey, Cut(iv), plain, Len(plain), Len(plain) + 16, TRUE, "encrypt"),
           maxOutLen)

joy_device_aes_decrypt(userKey, iv, enc, maxOutLen) ==
  Answered(Len(enc),
           joylinkEnc2Crypt(userKey, Cut(iv), enc, Len(enc), Len(enc) + 16, TRUE, "decrypt"),
           maxOutLen)
==============================================================================
