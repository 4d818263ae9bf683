--------------------------------- MODULE Ecc ---------------------------------
(***************************************************************************)
(* The elliptic curves of joylink/auth/uECC.c, as it is built here for     *)
(* secp160r1 without assembler: numbers of a fixed count of words, the     *)
(* field of p, points in coordinates that share Z, keys and signatures.    *)
(* A number is the sequence of its words, the lowest first, and is as long *)
(* as its sequence: the functions on uECC_WORDS words and those on         *)
(* uECC_N_WORDS (..._n), which the source has twice, are here once.        *)
(* Numbers are given to the outside, most significant word first, where    *)
(* the code has bytes.                                                     *)
(***************************************************************************)
EXTENDS Integers, Sequences, SequencesExt

CONSTANTS uECC_WORD_BITS,  \* bits of a word
          uECC_WORDS,      \* words of a number
          OmegaWords,      \* words that hold the 32 bits by which omega_mult shifts
          curve_p, curve_b, curve_G, curve_n,
          RandomWord       \* what default_RNG fills memory with

W == 2 ^ uECC_WORD_BITS
HIGH_BIT_SET == W \div 2
uECC_N_WORDS == uECC_WORDS + 1
Bits == uECC_WORD_BITS * uECC_WORDS   \* uECC_BYTES * 8

Number == Seq(0 .. W - 1)
UpTo(n) == [i \in 1 .. n |-> i]
vli_clear(n) == [i \in 1 .. n |-> 0]
Small(x, n) == [i \in 1 .. n |-> IF i = 1 THEN x ELSE 0]

-----------------------------------------------------------------------------
(* Numbers.                                                                *)

vli_isZero(v) == \A i \in DOMAIN v : v[i] = 0

EVEN(v) == v[1] % 2 = 0

vli_testBit(v, bit) == (v[bit \div uECC_WORD_BITS + 1] \div 2 ^ (bit % uECC_WORD_BITS)) % 2 = 1

vli_numBits(v) ==
  LET bits == {bit \in 0 .. uECC_WORD_BITS * Len(v) - 1 : vli_testBit(v, bit)}
  IN  IF bits = {} THEN 0 ELSE 1 + (CHOOSE m \in bits : \A bit \in bits : bit <= m)

\* The sign of left - right
vli_cmp(left, right) ==
  LET D == {i \in DOMAIN left : left[i] # right[i]}
      i == CHOOSE m \in D : \A k \in D : k <= m
  IN  IF D = {} THEN 0 ELSE IF left[i] > right[i] THEN 1 ELSE -1

\* From the highest word; the lowest bit is lost.
vli_rshift1(v) ==
  FoldRight(LAMBDA w, acc : [w |-> <<w \div 2 + acc.carry>> \o acc.w,
                             carry |-> HIGH_BIT_SET * (w % 2)],
            v, [w |-> <<>>, carry |-> 0]).w

\* [w |-> the sum, carry |-> what does not fit]; a word that comes back to left[i]
\* leaves the carry as it is.
vli_add(left, right) ==
  FoldLeft(LAMBDA acc, i :
             LET sum == (left[i] + right[i] + acc.carry) % W
             IN  [w |-> Append(acc.w, sum),
                  carry |-> IF sum = left[i] THEN acc.carry ELSE IF sum < left[i] THEN 1 ELSE 0],
           [w |-> <<>>, carry |-> 0], UpTo(Len(left)))

vli_sub(left, right) ==
  FoldLeft(LAMBDA acc, i :
             LET diff == (left[i] - right[i] - acc.carry) % W
             IN  [w |-> Append(acc.w, diff),
                  carry |-> IF diff = left[i] THEN acc.carry ELSE IF diff > left[i] THEN 1 ELSE 0],
           [w |-> <<>>, carry |-> 0], UpTo(Len(left)))

Sum(left, right) == vli_add(left, right).w
Diff(left, right) == vli_sub(left, right).w

\* r is the three words into which the products of a column are added up.
muladd(a, b, r) ==
  LET p == a * b
      r01 == W * r[2] + r[1] + p
  IN  <<r01 % W, (r01 \div W) % W, r[3] + r01 \div (W * W)>>

mul2add(a, b, r) ==
  LET p == a * b
      r01 == W * r[2] + r[1] + ((2 * p) % (W * W))
  IN  <<r01 % W, (r01 \div W) % W, r[3] + (2 * p) \div (W * W) + r01 \div (W * W)>>

\* The words of a product by its columns: terms[k] are the products of column k, of a
\* number with n words, some to be added twice.
Columns(terms, n) ==
  LET Add(r, t) == IF t.twice THEN mul2add(t.a, t.b, r) ELSE muladd(t.a, t.b, r)
      all == FoldLeft(LAMBDA acc, k :
                        LET r == FoldLeft(Add, acc.r, terms[k])
                        IN  [w |-> Append(acc.w, r[1]), r |-> <<r[2], r[3], 0>>],
                      [w |-> <<>>, r |-> <<0, 0, 0>>], UpTo(2 * n - 1))
  IN  Append(all.w, all.r[1])

\* The places i of column k: i and k + 1 - i are both places of a number of n words.
Places(k, n) == LET low == IF k <= n THEN 1 ELSE k + 1 - n
                IN  [i \in 1 .. (IF k <= n THEN k ELSE n) - low + 1 |-> low + i - 1]

vli_mult(left, right) ==
  LET Term(i, k) == [a |-> left[i], b |-> right[k + 1 - i], twice |-> FALSE]
      Column(k) == [j \in DOMAIN Places(k, Len(left)) |-> Term(Places(k, Len(left))[j], k)]
  IN  Columns([k \in 1 .. 2 * Len(left) - 1 |-> Column(k)], Len(left))

\* A product of different places is added twice.
vli_square(left) ==
  LET Half(k) == SelectSeq(Places(k, Len(left)), LAMBDA i : i <= k + 1 - i)
      Term(i, k) == [a |-> left[i], b |-> left[k + 1 - i], twice |-> i < k + 1 - i]
      Column(k) == [j \in DOMAIN Half(k) |-> Term(Half(k)[j], k)]
  IN  Columns([k \in 1 .. 2 * Len(left) - 1 |-> Column(k)], Len(left))

\* left and right are less than mod.
vli_modAdd(left, right, mod) ==
  LET s == vli_add(left, right)
  IN  IF s.carry = 1 \/ vli_cmp(s.w, mod) >= 0 THEN Diff(s.w, mod) ELSE s.w

vli_modSub(left, right, mod) ==
  LET d == vli_sub(left, right) IN IF d.carry = 1 THEN Sum(d.w, mod) ELSE d.w

\* u / 2 modulo the odd number mod
HalfOf(u, mod) ==
  LET s == IF EVEN(u) THEN [w |-> u, carry |-> 0] ELSE vli_add(u, mod)
      h == vli_rshift1(s.w)
  IN  IF s.carry = 1 THEN [h EXCEPT ![Len(h)] = (@ % HIGH_BIT_SET) + HIGH_BIT_SET] ELSE h

\* (u - v) / 2 modulo mod
HalfDiff(u, v, mod) ==
  HalfOf(Diff(IF vli_cmp(u, v) < 0 THEN Sum(u, mod) ELSE u, v), mod)

\* The loop keeps a = u * input and b = v * input modulo mod.
vli_modInv(input, mod) ==
  LET Divided[a, b, u, v \in Number] ==
        LET cmpResult == vli_cmp(a, b)
        IN  CASE cmpResult = 0 -> u
              [] cmpResult # 0 /\ EVEN(a) -> Divided[vli_rshift1(a), b, HalfOf(u, mod), v]
              [] cmpResult # 0 /\ ~EVEN(a) /\ EVEN(b) ->
                   Divided[a, vli_rshift1(b), u, HalfOf(v, mod)]
              [] cmpResult > 0 /\ ~EVEN(a) /\ ~EVEN(b) ->
                   Divided[vli_rshift1(Diff(a, b)), b, HalfDiff(u, v, mod), v]
              [] cmpResult < 0 /\ ~EVEN(a) /\ ~EVEN(b) ->
                   Divided[a, vli_rshift1(Diff(b, a)), u, HalfDiff(v, u, mod)]
  IN  IF vli_isZero(input) THEN input
      ELSE Divided[input, mod, Small(1, Len(input)), vli_clear(Len(input))]

-----------------------------------------------------------------------------
(* The field of p = 2^Bits - 2^31 - 1.                                     *)

\* right * (2^31 + 1), in twice the words
omega_mult(right) ==
  LET shifted == vli_clear(OmegaWords - 1) \o <<HIGH_BIT_SET * (right[1] % 2)>> \o vli_rshift1(right)
      low == vli_add(SubSeq(shifted, 1, uECC_WORDS), right)
      high == SubSeq(shifted, uECC_WORDS + 1, Len(shifted))
              \o vli_clear(2 * uECC_WORDS - Len(shifted))
  IN  low.w \o Sum(high, Small(low.carry, uECC_WORDS))

\* At the end p itself stays.
vli_mmod_fast(product) ==
  LET tmp == omega_mult(SubSeq(product, uECC_WORDS + 1, 2 * uECC_WORDS))
      s == vli_add(SubSeq(product, 1, uECC_WORDS), SubSeq(tmp, 1, uECC_WORDS))
      t == vli_add(s.w, SubSeq(omega_mult(SubSeq(tmp, uECC_WORDS + 1, 2 * uECC_WORDS)), 1, uECC_WORDS))
      r == FoldLeft(LAMBDA v, i : Diff(v, curve_p), t.w, UpTo(s.carry + t.carry))
  IN  IF vli_cmp(r, curve_p) > 0 THEN Diff(r, curve_p) ELSE r

vli_modMult_fast[left, right \in Number] == vli_mmod_fast(vli_mult(left, right))
vli_modSquare_fast[left \in Number] == vli_mmod_fast(vli_square(left))
vli_modSub_fast[left, right \in Number] == vli_modSub(left, right, curve_p)
Plus[left, right \in Number] == vli_modAdd(left, right, curve_p)

One == Small(1, uECC_WORDS)

-----------------------------------------------------------------------------
(* Points. A point is [x, y]; two points of a pair share their Z.          *)

Point == [x : Number, y : Number]
Bit == 0 .. Bits + uECC_WORD_BITS - 1

EccPoint_isZero(point) == vli_isZero(point.x) /\ vli_isZero(point.y)

\* 2P in Jacobian coordinates, for a = -3
EccPoint_double_jacobian[P \in Point, Z \in Number] ==
  LET yy == vli_modSquare_fast[P.y]
      A == vli_modMult_fast[P.x, yy]
      zz == vli_modSquare_fast[Z]
      s == Plus[P.x, zz]
      d == vli_modMult_fast[s, vli_modSub_fast[s, Plus[zz, zz]]]
      B == HalfOf(Plus[d, Plus[d, d]], curve_p)
      x3 == vli_modSub_fast[vli_modSub_fast[vli_modSquare_fast[B], A], A]
      y3 == vli_modSub_fast[vli_modMult_fast[B, vli_modSub_fast[A, x3]], vli_modSquare_fast[yy]]
  IN  IF vli_isZero(Z) THEN [P |-> P, Z |-> Z]
      ELSE [P |-> [x |-> x3, y |-> y3], Z |-> vli_modMult_fast[P.y, Z]]

apply_z[P \in Point, Z \in Number] ==
  LET zz == vli_modSquare_fast[Z]
  IN  [x |-> vli_modMult_fast[P.x, zz], y |-> vli_modMult_fast[P.y, vli_modMult_fast[zz, Z]]]

\* <<2P, P>> with one Z
XYcZ_initial_double[P \in Point, initial_Z \in Number] ==
  LET twice == EccPoint_double_jacobian[apply_z[P, initial_Z], initial_Z]
  IN  <<twice.P, apply_z[P, twice.Z]>>

\* <<P, P + Q>>, with a new Z
XYcZ_add[P, Q \in Point] ==
  LET A == vli_modSquare_fast[vli_modSub_fast[Q.x, P.x]]
      B == vli_modMult_fast[P.x, A]
      C == vli_modMult_fast[Q.x, A]
      dy == vli_modSub_fast[Q.y, P.y]
      x3 == vli_modSub_fast[vli_modSub_fast[vli_modSquare_fast[dy], B], C]
      y1 == vli_modMult_fast[P.y, vli_modSub_fast[C, B]]
      y3 == vli_modSub_fast[vli_modMult_fast[dy, vli_modSub_fast[B, x3]], y1]
  IN  <<[x |-> B, y |-> y1], [x |-> x3, y |-> y3]>>

\* <<P - Q, P + Q>>, with a new Z
XYcZ_addC[P, Q \in Point] ==
  LET A == vli_modSquare_fast[vli_modSub_fast[Q.x, P.x]]
      B == vli_modMult_fast[P.x, A]
      C == vli_modMult_fast[Q.x, A]
      sy == Plus[Q.y, P.y]
      dy == vli_modSub_fast[Q.y, P.y]
      E == vli_modMult_fast[P.y, vli_modSub_fast[C, B]]
      BC == Plus[B, C]
      x3 == vli_modSub_fast[vli_modSquare_fast[dy], BC]
      y3 == vli_modSub_fast[vli_modMult_fast[dy, vli_modSub_fast[B, x3]], E]
      x4 == vli_modSub_fast[vli_modSquare_fast[sy], BC]
      y4 == vli_modSub_fast[vli_modMult_fast[vli_modSub_fast[x4, B], sy], E]
  IN  <<[x |-> x4, y |-> y4], [x |-> x3, y |-> y3]>>

\* The pair with p at place from and q at the other
Placed(from, p, q) == IF from = 1 THEN <<p, q>> ELSE <<q, p>>

\* R[2] - R[1] is P all along: each bit after the highest one puts the sum in one
\* place and twice the other in its place. Bit 0 is worked on even where it is the
\* highest.
EccPoint_mult(P, scalar, initialZ, numBits) ==
  LET From(bit) == IF vli_testBit(scalar, bit) THEN 2 ELSE 1
      Apart(R, f) == XYcZ_addC[R[f], R[3 - f]]
      Step[R \in Point \X Point, bit \in Bit] ==
        LET f == From(bit)
            d == Apart(R, f)
            a == XYcZ_add[d[2], d[1]]
        IN  Placed(f, a[2], a[1])
      double == XYcZ_initial_double[P, initialZ]
      R == FoldLeft(LAMBDA S, bit : Step[S, bit], <<double[2], double[1]>>,
                    [i \in 1 .. (IF numBits > 2 THEN numBits - 2 ELSE 0) |-> numBits - 1 - i])
      f == From(0)
      d == Apart(R, f)
      last == Placed(f, d[1], d[2])
      z == vli_modMult_fast[vli_modMult_fast[vli_modSub_fast[last[2].x, last[1].x], last[f].y], P.x]
      inverse == vli_modMult_fast[vli_modMult_fast[vli_modInv(z, curve_p), P.y], last[f].x]
      a == XYcZ_add[d[2], d[1]]
  IN  apply_z[Placed(f, a[2], a[1])[1], inverse]

\* Zero is refused: Refused is the answer 0 of a function whose result is a record.
Refused == [x |-> <<>>, y |-> <<>>]

EccPoint_compute_public_key(private) ==
  LET result == EccPoint_mult(curve_G, private, One, vli_numBits(private))
  IN  IF vli_isZero(private) \/ EccPoint_isZero(result) THEN Refused ELSE result

-----------------------------------------------------------------------------
(* Keys.                                                                   *)

\* a to the power (p + 1) / 4, its square root if it has one
mod_sqrt(a) ==
  LET p1 == Sum(curve_p, One)
      n == vli_numBits(p1)
      Step[r \in Number, bit \in Bit] ==
        LET rr == vli_modSquare_fast[r]
        IN  IF vli_testBit(p1, bit) THEN vli_modMult_fast[rr, a] ELSE rr
  IN  FoldLeft(LAMBDA r, bit : Step[r, bit], One, [i \in 1 .. n - 2 |-> n - i])

vli_nativeToBytes(native) == Reverse(native)
vli_bytesToNative(bytes) == Reverse(bytes)

KeyOf(point) == vli_nativeToBytes(point.x) \o vli_nativeToBytes(point.y)

PointOf(public_key) ==
  [x |-> vli_bytesToNative(SubSeq(public_key, 1, uECC_WORDS)),
   y |-> vli_bytesToNative(SubSeq(public_key, uECC_WORDS + 1, 2 * uECC_WORDS))]

default_RNG(n) == [i \in 1 .. n |-> RandomWord]

\* private is what the generator gives, in every try the same; <<>> stands for the
\* answer 0.
uECC_make_key(private) ==
  LET public == EccPoint_compute_public_key(private)
  IN  IF public = Refused THEN <<>>
      ELSE [private_key |-> vli_nativeToBytes(private), public_key |-> KeyOf(public)]

uECC_compute_public_key(private_key) ==
  LET public == EccPoint_compute_public_key(vli_bytesToNative(private_key))
  IN  IF public = Refused THEN <<>> ELSE KeyOf(public)

uECC_shared_secret(public_key, private_key) ==
  LET private == vli_bytesToNative(private_key)
      random == default_RNG(uECC_WORDS)
      product == EccPoint_mult(PointOf(public_key), private,
                               IF vli_isZero(random) THEN One ELSE random, vli_numBits(private))
  IN  [secret |-> vli_nativeToBytes(product.x), ret |-> ~EccPoint_isZero(product)]

uECC_compress(public_key) ==
  <<2 + (public_key[2 * uECC_WORDS] % 2)>> \o SubSeq(public_key, 1, uECC_WORDS)

\* x^3 - 3x + b
curve_x_side(x) ==
  Plus[vli_modMult_fast[vli_modSub_fast[vli_modSquare_fast[x], Small(3, uECC_WORDS)], x], curve_b]

\* An x of no point is given some y all the same.
uECC_decompress(compressed) ==
  LET x == vli_bytesToNative(Tail(compressed))
      y == mod_sqrt(curve_x_side(x))
  IN  KeyOf([x |-> x, y |-> IF y[1] % 2 # compressed[1] % 2 THEN Diff(curve_p, y) ELSE y])

uECC_valid_public_key(public_key) ==
  LET public == PointOf(public_key)
  IN  /\ ~EccPoint_isZero(public)
      /\ vli_cmp(curve_p, public.x) = 1 /\ vli_cmp(curve_p, public.y) = 1
      /\ vli_modSquare_fast[public.y] = curve_x_side(public.x)

-----------------------------------------------------------------------------
(* Signatures, modulo n, in one word more.                                 *)

Wide(v) == Append(v, 0)
Narrow(v) == SubSeq(v, 1, uECC_WORDS)

\* By subtracting n times every power of 2, from the highest, where it is not more:
\* n has 1 in its highest word and is odd.
vli_modMult_n(left, right) ==
  LET top == vli_rshift1(Narrow(curve_n))
      multiple == vli_clear(uECC_N_WORDS) \o <<HIGH_BIT_SET>>
                  \o [top EXCEPT ![uECC_WORDS] = @ + HIGH_BIT_SET]
      Step[acc \in [v : Number, multiple : Number]] ==
        LET d == vli_sub(acc.v, acc.multiple)
        IN  [v |-> IF d.carry = 1 THEN acc.v ELSE d.w, multiple |-> vli_rshift1(acc.multiple)]
      all == FoldLeft(LAMBDA acc, i : Step[acc], [v |-> vli_mult(left, right), multiple |-> multiple],
                      UpTo(uECC_N_WORDS * uECC_WORD_BITS + uECC_WORD_BITS))
  IN  SubSeq(all.v, 1, uECC_N_WORDS)

vli_modInv_n(input) == vli_modInv(input, curve_n)
vli_modAdd_n(left, right) == vli_modAdd(left, right, curve_n)

\* <<>> stands for the answer 0. k is tested for zero in its lower words only, and
\* made longer by n or 2n to have always as many bits.
uECC_sign_with_k(private_key, message_hash, k) ==
  LET once == Sum(k, curve_n)
      long == IF (once[uECC_N_WORDS] \div 2) % 2 = 1 THEN once ELSE Sum(once, curve_n)
      p == EccPoint_mult(curve_G, long, One, Bits + 2)
      given == default_RNG(uECC_N_WORDS)
      inverse == vli_modMult_n(vli_modInv_n(vli_modMult_n(k, given)), given)
      rd == vli_modMult_n(Wide(vli_bytesToNative(private_key)), Wide(p.x))
      s == vli_modMult_n(vli_modAdd_n(Wide(vli_bytesToNative(message_hash)), rd), inverse)
  IN  IF vli_isZero(Narrow(k)) \/ vli_cmp(curve_n, k) # 1 \/ vli_isZero(p.x) \/ s[uECC_N_WORDS] # 0
      THEN <<>>
      ELSE vli_nativeToBytes(p.x) \o vli_nativeToBytes(Narrow(s))

\* The same k for every message and in every try
uECC_sign(private_key, message_hash) ==
  uECC_sign_with_k(private_key, message_hash,
                   [default_RNG(uECC_N_WORDS) EXCEPT ![uECC_N_WORDS] = @ % 2])

\* u1 * G + u2 * Q with the bits of both at a time, from the highest
uECC_verify(public_key, hash, signature) ==
  LET Q == PointOf(public_key)
      r == Wide(vli_bytesToNative(SubSeq(signature, 1, uECC_WORDS)))
      s == Wide(vli_bytesToNative(SubSeq(signature, uECC_WORDS + 1, 2 * uECC_WORDS)))
      inverse == vli_modInv_n(s)
      u1 == vli_modMult_n(Wide(vli_bytesToNative(hash)), inverse)
      u2 == vli_modMult_n(r, inverse)
      GQ == apply_z[XYcZ_add[curve_G, Q][2],
                    vli_modInv(vli_modSub_fast[Q.x, curve_G.x], curve_p)]
      points == <<curve_G, Q, GQ>>
      Index(bit) == (IF vli_testBit(u1, bit) THEN 1 ELSE 0) + (IF vli_testBit(u2, bit) THEN 2 ELSE 0)
      numBits == IF vli_numBits(u1) > vli_numBits(u2) THEN vli_numBits(u1) ELSE vli_numBits(u2)
      Step[acc \in [P : Point, Z : Number], bit \in Bit] ==
        LET double == EccPoint_double_jacobian[acc.P, acc.Z]
            T == apply_z[points[Index(bit)], double.Z]
            Z == vli_modMult_fast[double.Z, vli_modSub_fast[double.P.x, T.x]]
        IN  IF Index(bit) = 0 THEN double ELSE [P |-> XYcZ_add[T, double.P][2], Z |-> Z]
      all == FoldLeft(LAMBDA acc, bit : Step[acc, bit], [P |-> points[Index(numBits - 1)], Z |-> One],
                      [i \in 1 .. numBits - 1 |-> numBits - 1 - i])
  IN  /\ ~vli_isZero(r) /\ ~vli_isZero(s)
      /\ apply_z[all.P, vli_modInv(all.Z, curve_p)].x = Narrow(r)
==============================================================================
