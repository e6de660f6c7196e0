----------------------------- MODULE BabyJubJub -----------------------------
(***************************************************************************)
(* The twisted Edwards curve A x^2 + y^2 = 1 + D x^2 y^2 over the field of *)
(* Q elements, in projective coordinates, and the signature of a spending  *)
(* key.  The digests of Blake-512 are inputs: the operators are used for   *)
(* every value they can take.                                              *)
(***************************************************************************)
EXTENDS Poseidon

CONSTANTS A, D,        \* the curve's coefficients
          ORDER,       \* the number of its points
          B8,          \* the generator of the subgroup of ORDER / 8 points
          DigestBits,  \* the width of half a digest (256 in the code)
          Params       \* get_t2_params..get_t14_params, by the width t

ASSUME CurveAssumption ==
  /\ A \in 1..(Q - 1) /\ D \in 1..(Q - 1) /\ A # D
  /\ \E x \in 1..(Q - 1) : FMul(x, x) = A       \* A is a square
  /\ \A x \in 1..(Q - 1) : FMul(x, x) # D       \* D is not

Point == [x : 0..(Q - 1), y : 0..(Q - 1)]

OnCurve(p) ==
  LET xx == FMul(p.x, p.x)
      yy == FMul(p.y, p.y)
  IN FAdd(FMul(A, xx), yy) = FAdd(1, FMul(D, FMul(xx, yy)))

projective(p) == [x |-> p.x, y |-> p.y, z |-> 1]

affine(p) ==
  IF p.z = 0 THEN [x |-> 0, y |-> 0]
  ELSE [x |-> FMul(p.x, FInv[p.z]), y |-> FMul(p.y, FInv[p.z])]

\* Mutant: the coefficient of x^2 is taken to be 1.
add_untwisted(p, q) ==
  LET a == FMul(p.z, q.z)
      b == FMul(a, a)
      c == FMul(p.x, q.x)
      dxy == FMul(p.y, q.y)
      e == FMul(D, FMul(c, dxy))
      aux == FSub(FSub(FMul(FAdd(p.x, p.y), FAdd(q.x, q.y)), c), dxy)
  IN [x |-> FMul(FMul(a, FSub(b, e)), aux), y |-> FMul(FMul(a, FAdd(b, e)), FSub(dxy, c)),
      z |-> FMul(FSub(b, e), FAdd(b, e))]

\* add-2008-bbjlp.
add(p, q) ==
  LET a == FMul(p.z, q.z)
      b == FMul(a, a)
      c == FMul(p.x, q.x)
      dxy == FMul(p.y, q.y)
      e == FMul(D, FMul(c, dxy))
      f == FSub(b, e)
      g == FAdd(b, e)
      aux == FSub(FSub(FMul(FAdd(p.x, p.y), FAdd(q.x, q.y)), c), dxy)
  IN [x |-> FMul(FMul(a, f), aux), y |-> FMul(FMul(a, g), FSub(dxy, FMul(A, c))), z |-> FMul(f, g)]

bits(n) == CHOOSE k \in 0..n : 2^k > n /\ \A j \in 0..(k - 1) : 2^j <= n

test_bit(n, i) == (n \div 2^i) % 2 = 1

\* Double and add from the lowest bit; exp is doubled once more than needed.
mul_scalar(p, n) ==
  LET Step(w, i) == [r |-> IF test_bit(n, i - 1) THEN add(w.r, w.exp) ELSE w.r, exp |-> add(w.exp, w.exp)]
      start == [r |-> [x |-> 0, y |-> 1, z |-> 1], exp |-> projective(p)]
  IN affine(FoldLeft(Step, start, Counting(bits(n))).r)

-----------------------------------------------------------------------------
(***************************************************************************)
(* Hashing.  A value that is hashed is a 256-bit integer and is reduced    *)
(* modulo Q.                                                               *)
(***************************************************************************)

MAX_POSEIDON_INPUTS == 13

\* The engine's own entry: the inputs behind a zero, by the width.
poseidon_hash(inputs) ==
  With(inputs, LAMBDA ins : With(Params[Len(ins) + 1], LAMBDA par : permutation(par, <<0>> \o ins)[1]))

hash_field_inputs(inputs) ==
  IF Len(inputs) > MAX_POSEIDON_INPUTS \/ Len(inputs) = 0 THEN [status |-> "unsupported"]
  ELSE [status |-> "ok", hash |-> poseidon_hash([i \in DOMAIN inputs |-> inputs[i] % Q])]

-----------------------------------------------------------------------------
(***************************************************************************)
(* Spending and viewing keys.                                              *)
(***************************************************************************)

\* The low half h of the key's digest: the low three bits and the highest
\* cleared, the second highest set, then shifted right by three.
scalar_key(h) ==
  LET low == (h \div 8) * 8
      high == low % 2^(DigestBits - 1)
      set == (high % 2^(DigestBits - 2)) + 2^(DigestBits - 2)
  IN set \div 8

\* Mutant: the public key of the digest as it is.
public_point_unclamped(h) == mul_scalar(B8, h \div 8)

public_point(h) == mul_scalar(B8, scalar_key(h))

\* Mutant: the low bits are kept.
to_curve25519_scalar_unclamped(h) ==
  ((h % 2^(DigestBits - 2)) + 2^(DigestBits - 2)) % (ORDER \div 8)

\* viewing.rs clamps a viewing key's digest by the rules of Ed25519 and reduces
\* it modulo the order of the subgroup; curve25519 is a curve of this form too.
to_curve25519_scalar(h) ==
  LET low == (h \div 8) * 8
  IN ((low % 2^(DigestBits - 2)) + 2^(DigestBits - 2)) % (ORDER \div 8)

shared_point(h, their_point) == mul_scalar(their_point, to_curve25519_scalar(h))

\* r_hashed is the digest of the high half of the key's digest and msg.
sign(h, r_hashed, msg) ==
  LET suborder == ORDER \div 8
      r == r_hashed % suborder
      r_b8 == mul_scalar(B8, r)
      pk == public_point(h)
      hm == poseidon_hash(<<r_b8.x, r_b8.y, pk.x, pk.y, msg>>)
  IN IF msg >= Q THEN [status |-> "outside field"]
     ELSE [status |-> "ok", r_b8 |-> r_b8, s |-> (scalar_key(h) * 8 * hm + r) % suborder]
=============================================================================
