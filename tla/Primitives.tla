----------------------------- MODULE Primitives -----------------------------
(***************************************************************************)
(* The pure functions of the crypto, poseidon-rust and types crates, one   *)
(* request at a time: a matrix is inverted, a parameter set is built and a *)
(* state permuted with it, values are hashed, a point is multiplied, two   *)
(* viewing keys agree on a secret, a message is signed, a text is read or  *)
(* written.  Every request is answered in one step, as the functions run   *)
(* to their end; the properties compare the answer with the textbook       *)
(* definition.                                                             *)
(***************************************************************************)
EXTENDS BabyJubJub, Formats

CONSTANTS Matrices,    \* matrices to invert
          Setups,      \* arguments of PoseidonParams::new
          States,      \* states to permute, of any width
          HashInputs,  \* sequences of integers to hash
          Scalars,     \* multiples to compute
          Keys,        \* low halves of a key's digest
          Nonces,      \* digests of the nonce
          Messages,    \* messages to sign
          Addresses,   \* addresses to write and read again
          AddressTexts,  \* texts to read as an address
          Paths,       \* derivation paths to write and read again
          PathTexts,   \* texts to read as a path
          Names        \* wallet names, as indices into the character set

VARIABLES req,  \* the request
          out   \* its answer

vars == <<req, out>>

Pending == [status |-> "pending"]

Curve == {p \in Point : OnCurve(p)}

Requests ==
  [op : {"invert"}, mat : Matrices] \cup
  [op : {"new"}, setup : Setups, state : States] \cup
  [op : {"hash"}, inputs : HashInputs] \cup
  [op : {"mul"}, point : Curve, scalar : Scalars] \cup
  [op : {"agree"}, mine : Keys, theirs : Keys, blind : Scalars] \cup
  [op : {"sign"}, key : Keys, nonce : Nonces, msg : Messages] \cup
  [op : {"address"}, address : Addresses] \cup
  [op : {"address text"}, text : AddressTexts] \cup
  [op : {"path"}, path : Paths] \cup
  [op : {"path text"}, text : PathTexts] \cup
  [op : {"name"}, name : Names] \cup
  [op : {"encoded name"}, value : 0..U128Max]

Init == req \in Requests /\ out = Pending

Asked(op) == req.op = op /\ out = Pending /\ UNCHANGED req

Invert == Asked("invert") /\ out' = LET w == mat_inverse(req.mat) IN [status |-> IF w.panic THEN "panic" ELSE "ok", inv |-> w.inv]

NewParams ==
  /\ Asked("new")
  /\ out' = LET a == req.setup IN PoseidonParams(a.t, a.d, a.rounds_f, a.rounds_p, a.mds, a.rc)

\* Poseidon::new shares the parameters and permutation runs on them.
Permute ==
  /\ req.op = "new" /\ out.status = "ok" /\ "t" \in DOMAIN out
  /\ out' = [status |-> "ok", state |-> permutation(out, req.state)]
  /\ UNCHANGED req

Hash == Asked("hash") /\ out' = hash_field_inputs(req.inputs)

Multiply == Asked("mul") /\ out' = [status |-> "ok", point |-> mul_scalar(req.point, req.scalar)]

Sign ==
  /\ Asked("sign")
  /\ out' = sign(req.key, req.nonce, req.msg)

\* A blinded sender key meets the receiver's viewing key, and the other way.
Agree ==
  /\ Asked("agree")
  /\ LET Public(h) == mul_scalar(B8, scalar_key(h) * 8)   \* ed25519-dalek
         Blinded(p) == mul_scalar(p, req.blind)
     IN out' = [status |-> "ok", mine |-> shared_point(req.mine, Blinded(Public(req.theirs))),
                theirs |-> shared_point(req.theirs, Blinded(Public(req.mine)))]

ReadAddress(text) ==
  IF parses(text) THEN [status |-> "ok", address |-> from_str(text)] ELSE [status |-> "refused"]

AddressWritten == Asked("address") /\ out' = ReadAddress(to_string(req.address))

AddressRead == Asked("address text") /\ out' = ReadAddress(req.text)

ReadPath(text) ==
  LET p == path_from_str(text)
  IN IF p.ok THEN [status |-> "ok", path |-> p.path] ELSE [status |-> "refused"]

PathWritten == Asked("path") /\ out' = ReadPath(path_to_string(req.path))

PathRead == Asked("path text") /\ out' = ReadPath(req.text)

NameWritten ==
  /\ Asked("name")
  /\ out' = LET e == base37_encode(req.name)
            IN IF e.ok THEN [status |-> "ok", name |-> base37_decode(e.value)] ELSE [status |-> "refused"]

NameRead ==
  /\ Asked("encoded name")
  /\ out' = LET name == base37_decode(req.value)
            IN [status |-> "ok", name |-> name, value |-> base37_encode(name).value]

Next ==
  \/ Invert \/ NewParams \/ Permute \/ Hash
  \/ Multiply \/ Agree \/ Sign
  \/ AddressWritten \/ AddressRead \/ PathWritten \/ PathRead \/ NameWritten \/ NameRead

Spec == Init /\ [][Next]_vars

-----------------------------------------------------------------------------
(***************************************************************************)
(* The textbook definitions.                                               *)
(***************************************************************************)

RECURSIVE Det(_)
Det(mat) ==
  LET Without(col) == [row \in 1..(Len(mat) - 1) |->
                         [c \in 1..(Len(mat) - 1) |-> mat[row + 1][IF c < col THEN c ELSE c + 1]]]
  IN IF mat = <<>> THEN 1
     ELSE FSum([col \in DOMAIN mat |->
                 LET term == FMul(mat[1][col], Det(Without(col)))
                 IN IF col % 2 = 1 THEN term ELSE FSub(0, term)])

Leading(mat, k) == [row \in 1..k |-> SubSeq(mat[row], 1, k)]

\* Poseidon as its authors define it: constants, s-boxes (on the first
\* element only in a partial round), the MDS matrix.
Textbook(a, input) ==
  LET f == a.rounds_f \div 2
      Round(s, r) ==
        LET t == Vec(a.t, LAMBDA i : FAdd(s[i], a.rc[r][i]))
        IN mat_vec_mul(a.mds, Vec(a.t, LAMBDA i :
             IF i = 1 \/ r <= f \/ r > f + a.rounds_p THEN FPow[t[i], a.d] ELSE t[i]))
  IN FoldLeft(Round, input, Counting(a.rounds_f + a.rounds_p))

\* The affine addition law.
Plus(p, q) ==
  LET k == FMul(D, FMul(FMul(p.x, q.x), FMul(p.y, q.y)))
  IN [x |-> FMul(FAdd(FMul(p.x, q.y), FMul(p.y, q.x)), FInv[FAdd(1, k)]),
      y |-> FMul(FSub(FMul(p.y, q.y), FMul(A, FMul(p.x, q.x))), FInv[FSub(1, k)])]

Times(n, p) == FoldLeft(LAMBDA s, i : Plus(s, p), [x |-> 0, y |-> 1], Counting(n))

\* The setup a parameter set of the engine was built from.
Setup(t) ==
  [t |-> t, d |-> Params[t].d, rounds_f |-> Params[t].rounds - Params[t].rounds_p,
   rounds_p |-> Params[t].rounds_p, mds |-> Params[t].mds, rc |-> Params[t].round_constants]

TextbookHash(inputs) ==
  With(inputs, LAMBDA ins : With(Setup(Len(ins) + 1), LAMBDA a : Textbook(a, <<0>> \o ins)[1]))

-----------------------------------------------------------------------------
(***************************************************************************)
(* Properties.                                                             *)
(***************************************************************************)

\* mat_inverse returns the inverse, and panics exactly on the matrices with a
\* singular leading block: it never exchanges rows, so an invertible matrix
\* may be refused but none is inverted wrongly.
InverseExact ==
  req.op = "invert" /\ out # Pending =>
    LET n == Len(req.mat)
        regular == \A k \in 1..n : Det(Leading(req.mat, k)) # 0
    IN IF regular THEN out.status = "ok" /\ mat_mat_mul(out.inv, req.mat) = Identity(n)
       ELSE out.status = "panic"

\* Whatever parameters PoseidonParams::new accepts, the permutation with the
\* optimized constants and sparse matrices is the Poseidon permutation; a hash
\* is that permutation of the inputs reduced into the field, behind a zero.
PermutationExact ==
  /\ req.op = "new" /\ out.status = "ok" /\ "state" \in DOMAIN out =>
       out.state = IF Len(req.state) = req.setup.t THEN Textbook(req.setup, req.state) ELSE <<>>
  /\ req.op = "hash" /\ out.status = "ok" =>
       out.hash = TextbookHash([i \in DOMAIN req.inputs |-> req.inputs[i] % Q])

\* Double-and-add in projective coordinates computes the multiple of every
\* point of the curve: the addition is complete, z never becomes 0, and
\* affine() never falls back to (0, 0), which is not a point of the curve.
MulScalarExact ==
  req.op = "mul" /\ out.status = "ok" => out.point = Times(req.scalar, req.point)

\* A signature satisfies the verification equation of the circuits,
\* S B8 = R + 8 hm A with A the public key of the signer, for every digest of
\* the key and of the nonce.
SignatureVerifies ==
  req.op = "sign" /\ out.status = "ok" =>
    LET pk == public_point(req.key)
        hm == TextbookHash(<<out.r_b8.x, out.r_b8.y, pk.x, pk.y, req.msg>>)
    IN Times(out.s, B8) = Plus(out.r_b8, Times((8 * hm) % ORDER, pk))

\* Sender and receiver of a note derive the same secret: the clamped and
\* reduced scalar of viewing.rs multiplies every key that was derived from the
\* unreduced one, blinded or not, as that one would.
SharedKeysAgree ==
  req.op = "agree" /\ out.status = "ok" => out.mine = out.theirs

\* An address that was written is read as it was, but for the bits of a chain
\* id above the seventh byte.  A text is read as an address only if that address
\* is written with the same prefix and payload (the kind of the checksum and the
\* bits past the last byte make the other texts of an address); a text with a
\* good checksum is refused only if no address is written with that payload.
AddressesExact ==
  /\ req.op = "address" /\ out # Pending =>
       /\ out.status = "ok"
       /\ out.address = [req.address EXCEPT !.chain.id = @ % 2^IdBits]
  /\ req.op = "address text" /\ out.status = "ok" =>
       to_string(out.address) = AsWritten(req.text)
  /\ req.op = "address text" /\ out.status = "refused" =>
       \/ req.text.checksum \notin {"bech32m", "bech32"}
       \/ \A a \in Addresses : to_string(a) # AsWritten(req.text)

\* The characters of a path text that its Display would not write: zeros in
\* front of a digit, and a last slash.
Redundant(text, i) ==
  \/ text[i] = "0" /\ text[i - 1] = "/" /\ i < Len(text) /\ text[i + 1] \in DOMAIN DecimalDigit
  \/ text[i] = "/" /\ i = Len(text)

RECURSIVE Stripped(_)
Stripped(text) ==
  IF \E i \in 2..Len(text) : Redundant(text, i)
  THEN Stripped(RemoveAt(text, CHOOSE i \in 2..Len(text) : Redundant(text, i)))
  ELSE text

\* Every path of at most the maximal depth survives being written and read; a
\* text that is read as a path is what the path is written as, up to leading
\* zeros and a last slash.
PathsExact ==
  /\ req.op = "path" /\ out # Pending => out.status = "ok" /\ out.path = req.path
  /\ req.op = "path text" /\ out.status = "ok" =>
       /\ path_to_string(out.path) = Stripped(req.text)
       /\ Len(out.path) <= MAX_DERIVATION_DEPTH

\* A name that fits comes back without its leading blanks, and the encoded
\* form of every value is that value; no value overruns the buffer.
NamesExact ==
  /\ req.op = "name" /\ out.status = "ok" =>
       \E blanks \in 0..Len(req.name) :
         /\ req.name = [i \in 1..blanks |-> 0] \o out.name
         /\ out.name # <<>> => Head(out.name) # 0
  /\ req.op = "encoded name" /\ out.status = "ok" =>
       out.value = req.value /\ Len(out.name) <= MAX_DECODED_LEN
=============================================================================
