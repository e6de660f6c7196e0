------------------------------- MODULE Field -------------------------------
(***************************************************************************)
(* The prime field of Q elements, 0..Q-1, as the curve and the hash use it *)
(* (ark-ff is outside the repository), and its matrices as sequences of    *)
(* rows.                                                                   *)
(***************************************************************************)
EXTENDS Integers, Sequences, SequencesExt

CONSTANT Q

ASSUME QAssumption == Q \in Nat /\ Q > 2 /\ \A a, b \in 1..(Q - 1) : (a * b) % Q # 0

FAdd(a, b) == (a + b) % Q
FSub(a, b) == (a - b) % Q
FMul(a, b) == (a * b) % Q

\* F::inverse().unwrap() for every element that has one.
FInv == [a \in 1..(Q - 1) |-> CHOOSE b \in 1..(Q - 1) : FMul(a, b) = 1]

FPow[a \in 0..(Q - 1), n \in Nat] == IF n = 0 THEN 1 ELSE FMul(a, FPow[a, n - 1])

\* The vector of Op(1), ..., Op(n).  The empty sequence does not change it: it
\* makes TLC keep the elements instead of evaluating them at every use.
Vec(n, Op(_)) == [i \in 1..n |-> Op(i)] \o <<>>

\* Op(x); like Vec, it makes TLC evaluate x once.
With(x, Op(_)) == CHOOSE y \in {Op(z) : z \in {x}} : TRUE

FSum(s) == FoldLeft(FAdd, 0, s)

Dot(u, w) == FSum(Vec(Len(u), LAMBDA i : FMul(u[i], w[i])))

Identity(n) == Vec(n, LAMBDA row : Vec(n, LAMBDA col : IF row = col THEN 1 ELSE 0))

mat_transpose(mat) == Vec(Len(mat[1]), LAMBDA col : Vec(Len(mat), LAMBDA row : mat[row][col]))

mat_vec_mul(mat, input) == Vec(Len(mat), LAMBDA row : Dot(mat[row], input))

mat_mat_mul(mat1, mat2) ==
  LET cols == mat_transpose(mat2)
  IN Vec(Len(mat1), LAMBDA row : Vec(Len(mat1), LAMBDA col : Dot(mat1[row], cols[col])))
=============================================================================
