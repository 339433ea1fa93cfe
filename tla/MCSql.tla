-------------------------------- MODULE MCSql --------------------------------
(***************************************************************************)
(* Statements, programs written by hand and tables for Sql.  Sound leaves  *)
(* out what the README lists under "Seen while modelling": the statements  *)
(* that are compiled wrongly, on the tables where it shows.                *)
(***************************************************************************)
EXTENDS Sql

N(n) == Lit(IntV(n))
a == Col(0)
b == Col(1)
nil == Lit(Null)

Query(cols, from, where) ==
  [k |-> "select", cols |-> cols, from |-> from, where |-> where, group |-> <<>>,
   having |-> NoExpr, order |-> FALSE, limit |-> NoExpr]

From(cols, where) == Query(cols, TRUE, where)
Grouped(cols, where, group, having) ==
  [From(cols, where) EXCEPT !.group = group, !.having = having]

Count == Fn("count", <<>>)

Lowest == Bin("MultiplyInt", N(8), Unary("Minus", N(8)))
Opposite == Unary("Minus", N(1))
Alone(e) == Query(<< e >>, FALSE, NoExpr)

Queries == <<
  Query(<< Bin("AddInt", N(1), Bin("MultiplyInt", N(2), N(3))), Fn("abs", << Unary("Minus", N(2)) >>),
           Lit(TextV(1)), Lit(RealV(6)), nil >>, FALSE, Bin("Lt", N(1), N(2))),
  Query(<< N(1) >>, FALSE, Bin("Ge", N(1), N(2))),
  Alone(Fn("abs", << Lowest >>)), Alone(Unary("Minus", Lowest)),
  Alone(Bin("MultiplyInt", N(15), N(15))),
  Alone(Bin("DivideInt", Lowest, Opposite)), Alone(Bin("RemainderInt", Lowest, Opposite)),
  From(<< Star >>, NoExpr),
  From(<< b, Bin("AddInt", a, N(1)) >>, Bin("Gt", a, N(1))),
  From(<< Star >>, Bin("Or", Bin("Eq", a, N(1)), Bin("Eq", b, Lit(TextV(1))))),
  From(<< b >>, Bin("And", Unary("Not", Bin("Eq", a, N(1))), NullTest(TRUE, b))),
  From(<< a >>, NullTest(FALSE, b)),
  From(<< Unary("Not", a), Unary("Plus", b) >>, NoExpr),
  From(<< Fn("coalesce", << b, a >>), Fn("ifnull", << b, N(0) >>), Fn("sign", << b >>) >>,
       Bin("Gt", Fn("max", << a, b >>), Fn("min", << a, b >>))),
  From(<< Bin("DivideInt", N(6), a), Bin("RemainderInt", a, N(2)) >>, Bin("Le", a, N(2))),
  [From(<< a, b >>, Bin("Eq", a, N(2))) EXCEPT !.order = TRUE],
  [From(<< a >>, Bin("Ne", a, N(1))) EXCEPT !.limit = N(3)],
  [From(<< a >>, NoExpr) EXCEPT !.limit = N(0)],
  [From(<< b >>, Bin("Eq", a, N(1))) EXCEPT !.order = TRUE, !.limit = N(2)] >>

AggregateQueries == <<
  From(<< Count, Fn("count", << b >>), Fn("sum", << a >>), Fn("avg", << a >>) >>, NoExpr),
  From(<< Bin("SubtractInt", Fn("max", << a >>), Fn("min", << a >>)), Fn("min", << b >>) >>,
       Bin("Gt", a, N(0))),
  Grouped(<< a, Count, Fn("max", << b >>) >>, NoExpr, << a >>, NoExpr),
  Grouped(<< Count, Fn("sum", << a >>), b >>, Bin("Ge", a, N(1)), << b >>, Bin("Gt", Count, N(1))),
  Grouped(<< Count >>, NoExpr, << a, b >>, NoExpr),
  Grouped(<< Count >>, NoExpr, <<>>, Bin("Lt", Count, N(3))) >>

Inserts == <<
  [k |-> "insert", rows |-> << <<N(1), N(2)>> >>],
  [k |-> "insert", rows |-> << <<Bin("AddInt", N(1), N(1))>>, <<N(3), nil>> >>],
  [k |-> "insert", rows |-> << <<Bin("DivideInt", N(1), N(0))>> >>] >>

Set1(i, e, where) == [k |-> "update", sets |-> << [i |-> i, e |-> e] >>, where |-> where]

Updates == <<
  Set1(0, Bin("AddInt", a, N(1)), NoExpr),
  Set1(0, Bin("MultiplyInt", a, N(2)), Bin("Gt", a, N(1))),
  [k |-> "update", sets |-> << [i |-> 0, e |-> b], [i |-> 1, e |-> a] >>, where |-> NullTest(TRUE, b)] >>

Deletion(where) == [k |-> "delete", where |-> where]

Deletions == << Deletion(NoExpr), Deletion(Bin("Eq", a, N(1))), Deletion(NullTest(FALSE, b)) >>

Creations == << [k |-> "create"] >>

TheStatements == Queries \o AggregateQueries \o Inserts \o Updates \o Deletions \o Creations

-----------------------------------------------------------------------------
(* Programs as the tests of liter-vdbe write them. *)

\* From a key, or from the last row, to the end of the table.
ScanFrom(seek, key) ==
  LET step == IF seek \in {"SeekGe", "SeekGt"} THEN "Next" ELSE "Prev"
  IN  ByHand(<< Op("OpenRead", 0, RootPage, 0), Op("Integer", key, 0, 0), Op(seek, 0, 6, 0),
                Op("RowId", 0, 1, 0), Op("ResultRow", 1, 1, 0), Op(step, 0, 3, 0),
                Op("Halt", 0, 0, 0) >>, 2, 1, << seek, key >>)

\* A subroutine, a row inserted under a rowid given in the program, a sorter
\* read as a whole; no Halt.
Routine ==
  ByHand(<< Op("Init", 0, 3, 0), Op("Move", 0, 1, 0), Op("Return", 0, 0, 0),
            Op("Integer", 3, 0, 0), Op("Gosub", 0, 1, 0), Op("MakeRecord", 0, 2, 2),
            Op("OpenWrite", 0, RootPage, 0), Op("InsertInt", 0, 2, 6),
            Op("SorterOpen", 1, 0, 0), Op("SorterInsert", 1, 2, 0), Op("SorterSort", 1, 13, 0),
            Op("SorterData", 1, 0, 0), Op("NullRow", 0, 0, 0), Op("Noop", 0, 0, 0) >>, 3, 2, <<>>)

Astray == ByHand(<< Op("Return", 0, 0, 0) >>, 1, 0, <<>>)

MCByHand ==
  << ScanFrom("SeekGe", 2), ScanFrom("SeekGt", 2), ScanFrom("SeekLe", 2), ScanFrom("SeekLt", 2),
     ScanFrom("Last", 0), Routine, Astray >>

-----------------------------------------------------------------------------
Row(x, y) == << IntV(x), y >>
Leaf(from, rows) == [r \in from .. from + Len(rows) - 1 |-> rows[r - from + 1]]

Tables ==
  { << Leaf(1, <<>>) >>,
    << Leaf(1, << Row(1, IntV(2)) >>) >>,
    << Leaf(2, << Row(2, Null) >>) >>,
    << Leaf(1, << Row(2, IntV(1)), Row(1, TextV(1)) >>) >>,
    << Leaf(1, << Row(1, Null), Row(2, RealV(6)), Row(1, Null) >>) >>,
    << Leaf(2, << Row(0, IntV(3)), Row(3, IntV(0)), Row(1, TextV(0)) >>) >>,
    << Leaf(1, << Row(60, IntV(1)), Row(60, Null) >>) >>,
    << Leaf(1, << << Null, IntV(1) >>, Row(2, IntV(2)) >>) >>,
    << Leaf(62, << Row(63, IntV(1)), Row(1, IntV(2)) >>) >>,
    << Leaf(1, << Row(61, IntV(60)) >>) >>,
    << Leaf(1, << Row(1, IntV(1)), Row(2, IntV(2)) >>), Leaf(3, << Row(1, IntV(2)), Row(3, IntV(1)) >>) >>,
    << Leaf(1, << Row(3, TextV(1)), Row(1, Null) >>), Leaf(3, << Row(2, IntV(1)) >>) >>,
    << Leaf(1, << Row(2, IntV(1)) >>), Leaf(4, << Row(1, IntV(1)), Row(1, Null) >>) >> }

-----------------------------------------------------------------------------
(* What is compiled rightly. *)

\* Columns of which an operator among these takes the value, or the max or
\* the min of it and others.
RECURSIVE Reckoned(_, _)
Reckoned(e, operators) ==
  CASE e.k = "bin" -> UNION { IF x.k # "col" THEN Reckoned(x, operators)
                              ELSE IF e.o \in operators THEN {x.i} ELSE {} : x \in {e.l, e.r} }
    [] e.k \in {"unary", "null"} -> Reckoned(e.e, operators)
    [] e.k = "fn" /\ e.fn \in {"max", "min"} -> {x.i : x \in Range(e.args)}
    [] OTHER -> {}

\* Integers that the comparisons do not round.
Exact(m) == IsNumber(m) => ToReal(m) = Number(m)

Sound(s, table) ==
  LET rows == Contents(table)
      taken == Taken(s, rows)
      known(es) ==
        \A e \in es, r \in DOMAIN rows :
          /\ \A i \in Reckoned(e, Comparisons \cup Arithmetic) : ~IsNull(rows[r][i + 1])
          /\ \A i \in Reckoned(e, Comparisons) : Exact(rows[r][i + 1])
      lasts == {Max(DOMAIN table[i]) : i \in 1 .. Len(table) - 1}
  IN  CASE s.k = "select" /\ s.from ->
             /\ known({s.where, s.having} \cup (Range(s.cols) \ {Star}))
             /\ s.order => Cardinality(taken) = 1
             /\ s.limit # NoExpr => s.limit = N(0) \/ Value(s.limit, <<>>).v > Cardinality(taken)
             /\ s.group # <<>> \/ (IsAggregateQuery(s) /\ \E e \in Range(s.cols) : e.k = "bin")
                  => taken # {}
             /\ IsAggregateQuery(s) \/ \A r \in DOMAIN rows \ taken, e \in Range(s.cols) \ {Star} :
                                         Value(e, rows[r]) \notin NoValues
        [] s.k = "update" -> known({s.where} \cup {s.sets[i].e : i \in DOMAIN s.sets})
        [] s.k = "delete" ->
             /\ known({s.where})
             /\ \A r \in taken \cap lasts : \A x \in taken : x <= r
        [] OTHER -> TRUE

\* A seek of a key above every row of its leaf finds nothing, or no row.
Seeks(p) == p.scan # <<>> /\ p.scan[1] # "Last"

SoundCases ==
  {<<Compilation(c[1]), c[2]>> : c \in {x \in Range(TheStatements) \X Tables : Sound(x[1], x[2])}}
    \cup {c \in Range(MCByHand) \X Tables :
            Seeks(c[1]) => DOMAIN c[2][1] = {} \/ Max(DOMAIN c[2][1]) >= 2}

\* An aggregate query cannot be run again.
SoundReset == ~(Compiled /\ stmt.k = "select" /\ IsAggregateQuery(stmt)) /\ Reset

SoundNext == Instruction \/ Call \/ SoundReset

SoundSpec == Started(SoundCases) /\ [][SoundNext]_vars /\ Fairness

-----------------------------------------------------------------------------
\* A scan that deletes, over every table.
DeletionSpec ==
  Started({<<Compilation(Deletions[i]), table>> : i \in DOMAIN Deletions, table \in Tables})
    /\ [][SoundNext]_vars

(* When Next falls through after a deletion the table is exhausted: no row *)
(* that WHERE takes is left behind (compile_delete).                       *)
DeletesAll ==
  (halted /\ ~failed) => Taken(stmt, Contents(leaves)) = {}
=============================================================================
