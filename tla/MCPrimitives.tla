----------------------------- MODULE MCPrimitives --------------------------
(***************************************************************************)
(* The field of 43 elements: 5 has no common divisor with 42, so the s-box *)
(* of degree 5 is a permutation as over the code's field, and the curve    *)
(* 38 x^2 + y^2 = 1 + 34 x^2 y^2 has 56 = 8 * 7 points and A - D = 4, as   *)
(* Baby Jubjub has 8 times a prime and A - D = 4.                          *)
(***************************************************************************)
EXTENDS Primitives

Mds ==
  << <<>>,
     << <<11, 16>>, <<39, 28>> >>,
     << <<7, 10, 34>>, <<38, 6, 42>>, <<3, 26, 4>> >>,
     << <<30, 2, 8, 38>>, <<34, 27, 10, 29>>, <<14, 3, 19, 9>>, <<3, 12, 15, 10>> >>,
     <<>>,
     << <<18, 16, 21, 15, 12, 41>>, <<33, 13, 35, 21, 6, 32>>, <<25, 4, 38, 42, 7, 14>>,
        <<42, 2, 20, 13, 26, 27>>, <<30, 10, 34, 1, 32, 42>>, <<1, 9, 33, 18, 37, 13>> >> >>

\* Round constants: any numbers will do.
Constants(t, rounds) == [r \in 1..rounds |-> [i \in 1..t |-> (7 * r * r + 11 * i * r + 5 * i) % Q]]

MCParams == [t \in {2, 3, 4, 6} |-> PoseidonParams(t, 5, 2, 3, Mds[t], Constants(t, 5))]

MCB8 == [x |-> 5, y |-> 26]

\* Every 2 x 2 matrix over four elements, singular ones included, and every
\* 3 x 3 matrix of zeros and ones with a free last row.
MCMatrices ==
  [1..2 -> [1..2 -> {0, 1, 2, 42}]] \cup
  {<<a, b, c>> : a \in {<<0, 1, 1>>, <<1, 2, 3>>}, b \in {<<1, 0, 1>>, <<2, 4, 1>>, <<2, 1, 1>>},
                 c \in [1..3 -> {0, 1, 5}]} \cup
  {Mds[4], Mds[6]}

Of(t, d, rounds_f, rounds_p, mds, rc) ==
  [t |-> t, d |-> d, rounds_f |-> rounds_f, rounds_p |-> rounds_p, mds |-> mds, rc |-> rc]

MCSetups ==
  {Of(t, d, rounds_f, rounds_p, Mds[t], Constants(t, rounds_f + rounds_p)) :
     t \in 2..4, d \in {3, 5, 7, 2}, rounds_f \in {2, 4}, rounds_p \in {1, 2, 4}} \cup
  {Of(2, 5, 3, 2, Mds[2], Constants(2, 5)),                  \* an odd number of full rounds
   Of(2, 5, 2, 2, Mds[2], Constants(2, 5)),                  \* a constant too many
   Of(2, 5, 2, 2, Mds[3], Constants(2, 4)),                  \* a matrix of another width
   Of(2, 5, 2, 0, Mds[2], Constants(2, 2)),                  \* no partial round
   Of(2, 5, 2, 2, << <<0, 1>>, <<1, 1>> >>, Constants(2, 4)),  \* invertible, first pivot 0
   Of(2, 5, 2, 2, << <<1, 1>>, <<1, 0>> >>, Constants(2, 4))}  \* the block m_hat is 0

MCStates == {<<0, 0>>, <<0, 1>>, <<42, 7>>, <<0, 1, 2>>, <<9, 41, 42>>, <<0, 1, 2, 3>>, <<5, 0, 0, 42>>}

\* Integers up to twice the field, sequences no parameter set is for.
MCHashInputs ==
  [1..1 -> {0, 1, 42, 43, 44, 85}] \cup [1..2 -> {0, 1, 43}] \cup [1..3 -> {1, 44}] \cup
  {<<>>, [i \in 1..14 |-> i]}

MCMessages == {0, 1, 42, 43}

\* A mask with ones and zeros in both parts of the network id.
Mask == <<0, 1, 1, 0, 1>>

MCAddresses ==
  [master_key : {"m1", "m2"}, viewing_pubkey : {"v1"}, chain : {All} \cup {Evm(id) : id \in 0..17}]

\* Every network id, and texts with another prefix, version or length; padding
\* that is written, and some that is not.
MCPaddings == {<<0>>, <<1>>, <<0, 0, 0, 0, 0, 0>>, <<0, 1, 0, 0, 0, 1>>}

ASSUME PaddingAssumption == MCPaddings \subseteq Paddings

MCAddressTexts ==
  [checksum : {"bech32m", "bech32", "wrong"}, hrp : {PREFIX, "0zz"}, version : {1, 2},
   body : {<<"m1", "v1">>, <<"m1">>}, network : [1..5 -> {0, 1}], padding : MCPaddings]

MCPaths == UNION {[1..n -> {0, 7, 9, 10, 19}] : n \in 0..3}

\* Every text of an m, a slash and four characters, and some longer ones.
MCPathTexts ==
  {<<"m", "/">> \o t : t \in UNION {[1..n -> {"/", "'", "0", "2", "m"}] : n \in 0..4}} \cup
  {<<"m">>, <<"n", "/", "1", "'">>, <<"m", "1", "1", "'">>, <<>>} \cup
  {path_to_string(p) \o t : p \in [1..3 -> {0, 19}], t \in {<<"/">>, <<"/", "/">>, <<"/", "1", "'">>}}

\* Texts over a set of three characters and one outside it.
MCNames == UNION {[1..n -> 0..3] : n \in 0..4}
=============================================================================
