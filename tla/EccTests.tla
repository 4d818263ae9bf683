------------------------------- MODULE EccTests -------------------------------
(***************************************************************************)
(* The curves of Ecc against integers and reference values: assumptions    *)
(* that TLC evaluates. secp160r1 itself is taken with words of one byte;   *)
(* the others have a p of the same form, 2^(3 words) - 2^2 - 1, in few     *)
(* words of three bits: 59, for all numbers, and 262139, with a curve of   *)
(* 262583 points, a prime as it is for secp160r1.                          *)
(***************************************************************************)
EXTENDS Integers, Sequences, SequencesExt

\* n words of three bits
Octal(z, n) == [i \in 1 .. n |-> (z \div 8 ^ (i - 1)) % 8]
Number(v) == FoldRight(LAMBDA d, rest : d + 8 * rest, v, 0)

TwoWords ==
  INSTANCE Ecc WITH uECC_WORD_BITS <- 3, uECC_WORDS <- 2, OmegaWords <- 1, curve_p <- <<3, 7>>,
                    curve_b <- <<6, 2>>, curve_G <- [x |-> <<0, 0>>, y |-> <<0, 0>>],
                    curve_n <- <<3, 0, 1>>, RandomWord <- 2

G == [x |-> Octal(3, 6), y |-> Octal(260603, 6)]

SixWords ==
  INSTANCE Ecc WITH uECC_WORD_BITS <- 3, uECC_WORDS <- 6, OmegaWords <- 1,
                    curve_p <- Octal(262139, 6), curve_b <- Octal(27, 6), curve_G <- G,
                    curve_n <- Octal(262583, 7), RandomWord <- 2

Curve_P_1 == [i \in 1 .. 20 |-> IF i = 4 THEN 127 ELSE 255]
Curve_B_1 == <<69, 250, 101, 197, 173, 212, 212, 129, 159, 248, 172, 101, 139, 122, 189, 84,
               252, 190, 151, 28>>
Curve_G_1 == [x |-> <<130, 252, 203, 19, 185, 139, 195, 104, 137, 105, 100, 70, 40, 115, 245, 142,
                      104, 181, 150, 74>>,
              y |-> <<50, 251, 197, 122, 55, 81, 35, 4, 18, 201, 220, 89, 125, 148, 104, 49,
                      85, 40, 166, 35>>]
Curve_N_1 == <<87, 34, 117, 202, 211, 174, 39, 249, 200, 244, 1>> \o [i \in 1 .. 9 |-> 0] \o <<1>>

Secp160r1 ==
  INSTANCE Ecc WITH uECC_WORD_BITS <- 8, uECC_WORDS <- 20, OmegaWords <- 4, curve_p <- Curve_P_1,
                    curve_b <- Curve_B_1, curve_G <- Curve_G_1, curve_n <- Curve_N_1, RandomWord <- 2

-----------------------------------------------------------------------------

\* Sums and differences are right with their carry, products are complete, squares
\* are products, and the comparison is that of integers.
ASSUME NumbersAreIntegers ==
  \A y, z \in 0 .. 63 :
    LET u == Octal(y, 2)
        v == Octal(z, 2)
        s == TwoWords!vli_add(u, v)
        d == TwoWords!vli_sub(u, v)
    IN  /\ Number(s.w) + 64 * s.carry = y + z
        /\ Number(d.w) - 64 * d.carry = y - z
        /\ Number(TwoWords!vli_mult(u, v)) = y * z
        /\ y = z => TwoWords!vli_square(u) = TwoWords!vli_mult(u, v)
        /\ TwoWords!vli_cmp(u, v) = IF y < z THEN -1 ELSE IF y = z THEN 0 ELSE 1

ASSUME BitsOfIntegers ==
  \A y \in 0 .. 63 :
    LET n == TwoWords!vli_numBits(Octal(y, 2))
    IN  /\ Number(TwoWords!vli_rshift1(Octal(y, 2))) = y \div 2
        /\ y < 2 ^ n /\ (n > 0 => y >= 2 ^ (n - 1))

\* The remainder modulo p is right unless it still does not fit after p has been
\* taken away as often as there was a carry: one number in 2^129 for secp160r1.
ASSUME RemainderUnlessCarried ==
  \A y, z \in 0 .. 58 :
    LET product == y * z
        tmp == 5 * (product \div 64)
        total == (product % 64) + (tmp % 64) + 5 * (tmp \div 64)
        r == Number(TwoWords!vli_modMult_fast[Octal(y, 2), Octal(z, 2)])
    IN  (r \in 0 .. 58 /\ r = product % 59) <=> total - 59 * (total \div 64) < 64

\* Modulo p, and modulo the order of the curve in one word more
ASSUME Inverses ==
  /\ \A y \in 1 .. 58 : (y * Number(TwoWords!vli_modInv(Octal(y, 2), <<3, 7>>))) % 59 = 1
  /\ \A y \in 1 .. 66 : (y * Number(TwoWords!vli_modInv_n(Octal(y, 3)))) % 67 = 1

ASSUME ProductsModuloOrder ==
  \A y \in {0, 1, 2, 7, 8, 33, 63, 64, 66}, z \in 0 .. 66 :
    Number(TwoWords!vli_modMult_n(Octal(y, 3), Octal(z, 3))) = (y * z) % 67

\* The multiples of G, found by adding points in affine coordinates. Once G itself
\* is three times G: the ladder has done bit 0 when it begins.
ASSUME MultiplesOfG ==
  \A example \in {<<1, 28053, 105905>>, <<2, 52425, 30617>>, <<3, 28053, 105905>>,
                  <<1000, 128748, 130803>>, <<200000, 118644, 27565>>} :
    SixWords!EccPoint_mult(G, Octal(example[1], 6), Octal(2, 6),
                           SixWords!vli_numBits(Octal(example[1], 6)))
      = [x |-> Octal(example[2], 6), y |-> Octal(example[3], 6)]

Private(z) == Reverse(Octal(z, 6))
Public(z) == SixWords!uECC_compute_public_key(Private(z))

\* A key is a point of the curve and comes back from its compressed form; both sides
\* of a pair of keys have the same secret; a zero key and a point beside the curve are
\* refused.
ASSUME KeysWork ==
  LET own == SixWords!uECC_make_key(SixWords!default_RNG(6))
  IN  /\ SixWords!uECC_valid_public_key(own.public_key)
      /\ ~SixWords!uECC_valid_public_key([own.public_key EXCEPT ![1] = (@ + 1) % 8])
      /\ SixWords!uECC_decompress(SixWords!uECC_compress(own.public_key)) = own.public_key
      /\ \A z \in {77, 200001} :
           SixWords!uECC_shared_secret(Public(z), own.private_key)
             = SixWords!uECC_shared_secret(own.public_key, Private(z))
      /\ Public(0) = <<>>

\* A signature is accepted for its message and its key, and for no other of these.
ASSUME SignaturesAccepted ==
  \A z \in {77, 200001}, m \in {7777} :
    LET signature == SixWords!uECC_sign(Private(z), Private(m))
    IN  \A y \in {77, 200001}, k \in {7777, 255555} :
          SixWords!uECC_verify(Public(y), Private(k), signature) <=> y = z /\ k = m

\* The base point of secp160r1 lies on its curve, and 1 / x is an inverse.
ASSUME BasePoint ==
  /\ Secp160r1!uECC_valid_public_key(Secp160r1!KeyOf(Curve_G_1))
  /\ Secp160r1!vli_modMult_fast[Curve_G_1.x, Secp160r1!vli_modInv(Curve_G_1.x, Curve_P_1)]
       = Secp160r1!One
===============================================================================
