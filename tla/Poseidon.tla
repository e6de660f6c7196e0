------------------------------ MODULE Poseidon ------------------------------
(***************************************************************************)
(* The Poseidon engine: the derivation of the optimized parameters from an *)
(* MDS matrix and round constants, and the permutation that uses them.     *)
(* Indices count from 1 where the code counts from 0.  A panic is a        *)
(* result, a flag of mat_inverse and the status "panic" of PoseidonParams;  *)
(* t is at least 2, as in every parameter set of the repository.           *)
(***************************************************************************)
EXTENDS Field

Reversed(n) == [i \in 1..n |-> n + 1 - i]

Counting(n) == [i \in 1..n |-> i]

-----------------------------------------------------------------------------
(***************************************************************************)
(* mat_inverse: elimination from the top, without row exchanges, on the    *)
(* matrix m and on inv, which starts as the identity; then back            *)
(* substitution.  Each row is written only in the columns the code writes. *)
(***************************************************************************)

\* Row `row' less m[row][j] times row j: clears m[row][j].
Eliminate(w, row, j) ==
  LET n == Len(w.m)
      el == w.m[row][j]
  IN [w EXCEPT
        !.m[row] = Vec(n, LAMBDA col : IF col < j THEN 0 ELSE FSub(w.m[row][col], FMul(w.m[j][col], el))),
        !.inv[row] = Vec(n, LAMBDA col : IF col > row THEN 0 ELSE FSub(w.inv[row][col], FMul(w.inv[j][col], el)))]

\* Mutant: the row of the inverse is not divided.
NormaliseMatrixOnly(w, row) ==
  LET el_inv == FInv[w.m[row][row]]
  IN [w EXCEPT !.m[row] = Vec(Len(w.m), LAMBDA col : IF col < row THEN w.m[row][col] ELSE FMul(w.m[row][col], el_inv))]

\* Row `row' over its pivot.
Normalise(w, row) ==
  LET n == Len(w.m)
      el_inv == FInv[w.m[row][row]]
  IN [w EXCEPT
        !.m[row] = Vec(n, LAMBDA col : CASE col < row -> w.m[row][col]
                                         [] col = row -> 1
                                         [] col > row -> FMul(w.m[row][col], el_inv)),
        !.inv[row] = Vec(n, LAMBDA col : FMul(w.inv[row][col], IF col <= row THEN el_inv ELSE 1))]

\* One row of the first loop: nothing happens any more once a pivot was 0.
Triangulate(w, row) ==
  LET cleared == FoldLeft(LAMBDA u, j : Eliminate(u, row, j), w, Counting(row - 1))
  IN IF w.panic THEN w
     ELSE IF cleared.m[row][row] = 0 THEN [cleared EXCEPT !.panic = TRUE]
     ELSE Normalise(cleared, row)

\* inv[row] less m[row][j] times inv[j], for j from the last column down.
Substitute(w, row) ==
  FoldLeft(LAMBDA u, j : [u EXCEPT !.inv[row] =
             Vec(Len(u.m), LAMBDA col : FSub(u.inv[row][col], FMul(u.inv[j][col], u.m[row][j])))],
           w, SelectSeq(Reversed(Len(w.m)), LAMBDA j : j > row))

\* The second loop, from the last row up.
BackSubstituted(upper) ==
  IF upper.panic THEN upper ELSE FoldLeft(Substitute, upper, Reversed(Len(upper.m)))

mat_inverse(mat) ==
  LET start == [m |-> mat, inv |-> Identity(Len(mat)), panic |-> FALSE]
  IN With(FoldLeft(Triangulate, start, Counting(Len(mat))), BackSubstituted)

-----------------------------------------------------------------------------
(***************************************************************************)
(* The optimized parameters of the partial rounds.                         *)
(***************************************************************************)

\* The first row and column of a matrix replaced by those of the identity.
Decoupled(mat) ==
  Vec(Len(mat), LAMBDA row : Vec(Len(mat), LAMBDA col :
    IF row = 1 \/ col = 1 THEN (IF row = col THEN 1 ELSE 0) ELSE mat[row][col]))

\* One pass of equivalent_matrices: factors m_mul into the sparse matrix
\* (v, w_hat) and the dense remainder m_i.
Factor(mds_, e) ==
  LET m_hat == With(Tail(Vec(Len(e.m_mul), LAMBDA row : Tail(e.m_mul[row]))), mat_inverse)
      w == Tail(Vec(Len(e.m_mul), LAMBDA row : e.m_mul[row][1]))
      m_i == Decoupled(e.m_mul)
  IN IF e.panic \/ m_hat.panic THEN [e EXCEPT !.panic = TRUE]
     ELSE [m_i |-> m_i, m_mul |-> mat_mat_mul(mds_, m_i), v |-> Append(e.v, Tail(e.m_mul[1])),
           w_hat |-> Append(e.w_hat, mat_vec_mul(m_hat.inv, w)), panic |-> FALSE]

equivalent_matrices(mds, rounds_p) ==
  LET Passes(mds_) ==
        FoldLeft(LAMBDA e, k : Factor(mds_, e),
                 [m_i |-> mds_, m_mul |-> mds_, v |-> <<>>, w_hat |-> <<>>, panic |-> FALSE],
                 Counting(rounds_p))
  IN With(With(mat_transpose(mds), Passes), LAMBDA end : [end EXCEPT !.m_i = mat_transpose(@)])

\* Every constant but the first component is moved back through the linear
\* layer, from the last partial round to the first.
equivalent_round_constants(rc, mds, r, rounds_p) ==
  LET mds_inv == mat_inverse(mds).inv
      Back(o, i) ==
        LET inv_cip == mat_vec_mul(mds_inv, o.tmp)
        IN [opt |-> << <<inv_cip[1]>> >> \o o.opt,
            tmp |-> Vec(Len(inv_cip), LAMBDA k : FAdd(rc[r + i][k], IF k = 1 THEN 0 ELSE inv_cip[k]))]
      end == FoldLeft(Back, [opt |-> <<>>, tmp |-> rc[r + rounds_p]], Reversed(rounds_p - 1))
  IN <<end.tmp>> \o end.opt

HasShape(mat, rows, cols) == Len(mat) = rows /\ \A i \in DOMAIN mat : Len(mat[i]) = cols

\* rounds_p = 0 underflows `rounds_p - 1'.
PoseidonParams(t, d, rounds_f, rounds_p, mds, rc) ==
  LET r == rounds_f \div 2
      eq == equivalent_matrices(mds, rounds_p)
  IN IF ~HasShape(mds, t, t) \/ ~HasShape(rc, rounds_f + rounds_p, t) \/ rounds_f % 2 # 0
     THEN [status |-> "invalid"]
     ELSE IF eq.panic \/ rounds_p = 0 \/ mat_inverse(mds).panic THEN [status |-> "panic"]
     ELSE [status |-> "ok", t |-> t, d |-> d, rounds_f_beginning |-> r, rounds_p |-> rounds_p,
           rounds |-> rounds_f + rounds_p, mds |-> mds, round_constants |-> rc,
           opt_round_constants |-> equivalent_round_constants(rc, mds, r, rounds_p),
           w_hat |-> eq.w_hat, v |-> eq.v, m_i |-> eq.m_i]

-----------------------------------------------------------------------------
(***************************************************************************)
(* The permutation.                                                        *)
(***************************************************************************)

sbox_p(d, x) ==
  LET x2 == FMul(x, x)
      x4 == FMul(x2, x2)
  IN CASE d = 3 -> FMul(x2, x)
       [] d = 5 -> FMul(x4, x)
       [] d = 7 -> FMul(FMul(x4, x2), x)
       [] OTHER -> FPow[x, d]

sbox(d, s) == Vec(Len(s), LAMBDA i : sbox_p(d, s[i]))

add_rc(s, rc) == Vec(Len(s), LAMBDA i : FAdd(s[i], rc[i]))

FullRound(par, s, r) == mat_vec_mul(par.mds, sbox(par.d, add_rc(s, par.round_constants[r])))

cheap_matmul(par, s, r) ==
  Vec(Len(s), LAMBDA i : IF i = 1
                         THEN FAdd(FMul(par.mds[1][1], s[1]), Dot(Tail(s), par.w_hat[r]))
                         ELSE FAdd(FMul(s[1], par.v[r][i - 1]), s[i]))

\* Mutant: the sparse matrices are used from the first to the last.
PartialRoundInOrder(par, s, k) ==
  LET x == sbox_p(par.d, s[1])
      y == IF k < par.rounds_p THEN FAdd(x, par.opt_round_constants[k + 1][1]) ELSE x
  IN cheap_matmul(par, [s EXCEPT ![1] = y], k)

\* The k-th partial round: the constant of the next one is added after the
\* s-box, and the sparse matrices are used from the last to the first.
PartialRound(par, s, k) ==
  LET x == sbox_p(par.d, s[1])
      y == IF k < par.rounds_p THEN FAdd(x, par.opt_round_constants[k + 1][1]) ELSE x
  IN cheap_matmul(par, [s EXCEPT ![1] = y], par.rounds_p - k + 1)

\* An input that is not t elements long is refused.
permutation(par, input) ==
  LET f == par.rounds_f_beginning
      p_end == f + par.rounds_p
      first == FoldLeft(LAMBDA s, r : FullRound(par, s, r), input, Counting(f))
      entered == mat_vec_mul(par.m_i, add_rc(first, par.opt_round_constants[1]))
      partial == FoldLeft(LAMBDA s, k : PartialRound(par, s, k), entered, Counting(par.rounds_p))
  IN IF Len(input) # par.t THEN <<>>
     ELSE FoldLeft(LAMBDA s, r : FullRound(par, s, p_end + r), partial, Counting(par.rounds - p_end))
=============================================================================
