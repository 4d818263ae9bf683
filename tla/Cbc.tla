--------------------------------- MODULE Cbc ---------------------------------
(***************************************************************************)
(* The chaining of blocks and the padding of joylink/auth/aes.c, for any   *)
(* cipher of blocks: E encrypts a block, D decrypts one, and X[<<a, b>>]   *)
(* the exclusive or of two.                                                *)
(***************************************************************************)
EXTENDS Codec, SequencesExt

AES_BLOCK_SIZE == 16
Block == [1 .. AES_BLOCK_SIZE -> Byte]

\* The k-th block of b
BlockOf(b, k) == [i \in 1 .. AES_BLOCK_SIZE |-> b[AES_BLOCK_SIZE * (k - 1) + i]]

Blocks(b) == [k \in 1 .. Len(b) \div AES_BLOCK_SIZE |-> BlockOf(b, k)]

\* p holds blocks, and c the blocks they are encrypted to.
Chained(E, X, iv, p, c) ==
  /\ Len(c) = Len(p)
  /\ \A k \in 1 .. Len(p) : c[k] = E[X[<<p[k], IF k = 1 THEN iv ELSE c[k - 1]>>]]

AesCbcEncrypt(E, X, iv, p) ==
  Tail(FoldLeft(LAMBDA c, b : Append(c, E[X[<<b, Last(c)>>]]), <<iv>>, p))

AesCbcDecrypt(D, X, iv, c) ==
  [k \in 1 .. Len(c) |-> X[<<D[c[k]], IF k = 1 THEN iv ELSE c[k - 1]>>]]

\* The bytes of some blocks
Joined(p) ==
  [i \in 1 .. AES_BLOCK_SIZE * Len(p) |->
     p[((i - 1) \div AES_BLOCK_SIZE) + 1][((i - 1) % AES_BLOCK_SIZE) + 1]]

\* The length of the padding, which fills the last block or is a block of its own
PadLen(n) == AES_BLOCK_SIZE - (n % AES_BLOCK_SIZE)

Padded(plain) ==
  [i \in 1 .. Len(plain) + PadLen(Len(plain)) |->
     IF i <= Len(plain) THEN plain[i] ELSE PadLen(Len(plain))]

\* How many bytes of the output are written: the loop over a padding of its own
\* goes one block too far.
Written(n) == n + PadLen(n) + IF n % AES_BLOCK_SIZE = 0 THEN AES_BLOCK_SIZE ELSE 0

\* The room asked for is that of the data in whole blocks, without the padding.
\* Refusal is an answer of no bytes.
device_aes_encrypt(E, X, iv, plain, maxOutLen) ==
  IF maxOutLen < AES_BLOCK_SIZE * ((Len(plain) + AES_BLOCK_SIZE - 1) \div AES_BLOCK_SIZE)
  THEN <<>>
  ELSE Joined(AesCbcEncrypt(E, X, iv, Blocks(Padded(plain))))

\* In place: what is not a whole block stays as it is. The last byte is taken for
\* the length of the padding and not tested; a negative length is none.
device_aes_decrypt(D, X, iv, enc, maxOutLen) ==
  LET whole == Joined(AesCbcDecrypt(D, X, iv, Blocks(enc)))
      out == whole \o SubSeq(enc, Len(whole) + 1, Len(enc))
  IN  IF maxOutLen < Len(enc) \/ enc = <<>> THEN <<>>
      ELSE SubSeq(out, 1, Len(out) - out[Len(out)])
==============================================================================
