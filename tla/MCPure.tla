------------------------------- MODULE MCPure -------------------------------
(***************************************************************************)
(* The parts that keep nothing between calls: the parser over its scripts, *)
(* or nothing to parse and a row to store or a text to handle.             *)
(***************************************************************************)
EXTENDS MCParser

VARIABLE given

R == INSTANCE Rows WITH PageSize <- 512
X == INSTANCE Texts

-----------------------------------------------------------------------------
(* Rows with integers at the ends of their widths, texts and blobs at the  *)
(* lengths where the header, its size or the cell takes another form, and  *)
(* records that come to the largest that stays in a cell, one byte more,   *)
(* and whole overflow pages.                                               *)

\* 2 ^ n, 2 ^ n - 1, and their complements.
Edge(n) ==
  LET power == R!FromBits([i \in 1 .. 64 |-> IF i = 64 - n THEN 1 ELSE 0])
      below == R!FromBits([i \in 1 .. 64 |-> IF i > 64 - n THEN 1 ELSE 0])
      complement(u) == [i \in 1 .. 8 |-> 255 - u[i]]
  IN  {power, below, complement(power), complement(below)}

Edges == UNION {Edge(n) : n \in {0, 1, 6, 7, 8, 14, 15, 16, 23, 24, 31, 32, 47, 48, 55, 56, 62, 63}}

Bytes(n) == [i \in 1 .. n |-> i % 251]

Sizes == {0, 1, 57, 58, 126, 127, 470, 473, 474, 475, 476, 477, 478, 500, 507, 508, 509, 545, 546, 547,
          979, 980, 981, 985, 986, 1010, 1500}

MCRows ==
  { << R!Integer(u) >> : u \in Edges } \cup
  { << R!Null, [t |-> kind, v |-> Bytes(n)], R!Integer(R!U64(n)) >> : kind \in {"text", "blob"}, n \in Sizes } \cup
  { [i \in 1 .. n |-> R!Null] : n \in {0, 125, 126, 127, 128, 129} } \cup
  { << [t |-> "real", v |-> Bytes(8)], R!Integer(R!U64(1)) >>, << R!Null, [t |-> "zeroblob", v |-> 3] >> }

\* Where a varint becomes a byte longer.
Rowids == UNION {Edge(n) : n \in {7, 14, 28, 35, 49, 56, 63}}

-----------------------------------------------------------------------------
(* Texts of up to four characters, in which patterns overlap themselves.   *)

Short(chars, n) == UNION {[1 .. k -> chars] : k \in 0 .. n}

MCTexts ==
  { [s |-> s, pattern |-> p, by |-> by] :
      s \in Short({"a", "b"}, 4), p \in Short({"a", "b"}, 2), by \in {<<>>, <<"a">>, <<"b", "a", "b">>} }

-----------------------------------------------------------------------------
PureInit ==
  \/ ParserInit /\ given = [k |-> "script"]
  \/ /\ Parses(<<>>) /\ meant = [whole |-> TRUE, script |-> <<>>]
     /\ \/ \E row \in MCRows : given = [k |-> "row", row |-> row, rowid |-> R!U64(2)]
        \/ \E rowid \in Rowids : given = [k |-> "row", row |-> << R!Integer(R!U64(7)) >>, rowid |-> rowid]
        \/ \E text \in MCTexts : given = [k |-> "text", text |-> text]

PureSpec == PureInit /\ [][ParserNext /\ UNCHANGED given]_<<gvars, given>>

\* Whatever row is stored comes back (encode_record, build_leaf_cell and back).
RowsReadBack == given.k = "row" => R!RowComesBack(given.row, given.rowid, 3)

\* substr, instr, replace and trim agree on what is where in a text.
TextFunctionsAgree ==
  given.k = "text" =>
    /\ X!CutsMeet(given.text.s)
    /\ X!FindsAndReplaces(given.text.s, given.text.pattern, given.text.by)
    /\ X!KeepsLength(given.text.s, given.text.pattern)
    /\ X!TrimsEnds(given.text.s, given.text.pattern)
=============================================================================
