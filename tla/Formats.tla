------------------------------ MODULE Formats -------------------------------
(***************************************************************************)
(* The other texts of the types crate: derivation paths (derivation.rs)    *)
(* and the base-37 wallet names (protocol.rs).  A text is a sequence of    *)
(* characters.  The widths of the numbers and buffers are constants.       *)
(***************************************************************************)
EXTENDS Address

CONSTANTS
  MAX_DERIVATION_DEPTH,  \* segments of a path (8)
  U32Max,                \* the largest index
  BASE,                  \* characters of a wallet name (37)
  U128Max,               \* the largest encoded name
  MAX_DECODED_LEN        \* the buffer of a decoded name (32)

DecimalDigit == [c \in {"0", "1", "2", "3", "4", "5", "6", "7", "8", "9"} |->
                   CHOOSE n \in 0..9 : ToString(n) = c]

-----------------------------------------------------------------------------
(***************************************************************************)
(* DerivationPath::from_str, one character after the other.  at: what the  *)
(* loop expects next, a segment's first digit, more of its digits, or what *)
(* follows its quote; a refused text stays refused.                        *)
(***************************************************************************)

\* Mutant: the index wraps around.
ShiftedWrapping(value, c) == (value * 10 + DecimalDigit[c]) % (U32Max + 1)

\* checked_mul and checked_add: what is above U32Max is refused.
Shifted(value, c) == value * 10 + DecimalDigit[c]

Scan(w, c) ==
  LET value == Shifted(w.value, c)
      deep == w.at = "segment" /\ Len(w.segments) = MAX_DERIVATION_DEPTH
  IN CASE w.at = "refused" -> w
       [] w.at \in {"segment", "digits"} /\ ~deep /\ c \in DOMAIN DecimalDigit ->
            [w EXCEPT !.at = IF value <= U32Max THEN "digits" ELSE "refused", !.value = value]
       [] w.at = "digits" /\ c = "'" ->
            [at |-> "quoted", value |-> 0, segments |-> Append(w.segments, w.value)]
       [] w.at = "quoted" /\ c = "/" -> [w EXCEPT !.at = "segment"]
       [] OTHER -> [w EXCEPT !.at = "refused"]

\* The loop also ends where a segment could start: behind a last slash.
path_from_str(text) ==
  LET start == [at |-> "segment", value |-> 0, segments |-> <<>>]
      end == FoldLeft(Scan, start, SubSeq(text, 3, Len(text)))
      headed == Len(text) >= 4 /\ text[1] = "m" /\ text[2] = "/"
  IN CASE text = <<"m">> -> [ok |-> TRUE, path |-> <<>>]
       [] headed /\ end.at \in {"segment", "quoted"} -> [ok |-> TRUE, path |-> end.segments]
       [] OTHER -> [ok |-> FALSE]

Decimal(n) == IF n < 10 THEN <<ToString(n)>> ELSE <<ToString(n \div 10), ToString(n % 10)>>

\* Display.
path_to_string(path) ==
  <<"m">> \o FlattenSeq([i \in DOMAIN path |-> <<"/">> \o Decimal(path[i]) \o <<"'">>])

-----------------------------------------------------------------------------
(***************************************************************************)
(* RailgunBase37.  A character is its index in CHARSET; the blank is 0,    *)
(* anything outside the set is BASE.                                       *)
(***************************************************************************)

base37_encode(text) ==
  LET Step(w, idx) ==
        IF ~w.ok \/ idx = BASE \/ w.value * BASE + idx > U128Max THEN [w EXCEPT !.ok = FALSE]
        ELSE [w EXCEPT !.value = @ * BASE + idx]
  IN FoldLeft(Step, [ok |-> TRUE, value |-> 0], text)

\* Mutant: filled from the start.
base37_decode_forward(value) ==
  LET digits[v \in 0..value] == IF v = 0 THEN <<>> ELSE <<v % BASE>> \o digits[v \div BASE]
  IN digits[value]

\* Filled from the end of the buffer until the value is used up.
base37_decode(value) ==
  LET digits[v \in 0..value] == IF v = 0 THEN <<>> ELSE Append(digits[v \div BASE], v % BASE)
  IN digits[value]
=============================================================================
