------------------------------- MODULE Codegen -------------------------------
(***************************************************************************)
(* liter-codegen: how a statement becomes a program of the virtual         *)
(* machine.  The compiler is its program so far, the registers and cursors *)
(* given out, the expressions that already have a register (agg_regs), and *)
(* whether it can go on: NotImplemented and panics end it.  The addresses  *)
(* and registers that the code keeps in its locals are in the compiler     *)
(* too: the registers of the values that are still to be used, the last    *)
(* one on top; the start of the loop; the jumps to be patched, to the next *)
(* row and out of the loop.  Addresses and registers count from 0.         *)
(*                                                                         *)
(* There is one table, whose columns are numbered from 0; looking names up *)
(* is left out.                                                            *)
(***************************************************************************)
EXTENDS Mem

CONSTANTS
  NCols,     \* columns of the table
  RootPage   \* its root

-----------------------------------------------------------------------------
(* liter-ast, as far as it compiles. *)

Lit(m) == [k |-> "lit", v |-> m]
Col(i) == [k |-> "col", i |-> i]
Bin(o, l, r) == [k |-> "bin", o |-> o, l |-> l, r |-> r]
Unary(o, e) == [k |-> "unary", o |-> o, e |-> e]
NullTest(not, e) == [k |-> "null", not |-> not, e |-> e]
Fn(name, args) == [k |-> "fn", fn |-> name, args |-> args]
Star == [k |-> "star"]
NoExpr == [k |-> "none"]

Comparisons == {"Eq", "Ne", "Lt", "Le", "Gt", "Ge"}

-----------------------------------------------------------------------------
(* Emitting. *)

OpOn(o, p1, p2, p3, v, fn, p5) ==
  [o |-> o, p1 |-> p1, p2 |-> p2, p3 |-> p3, v |-> v, fn |-> fn, p5 |-> p5]

Op(o, p1, p2, p3) == OpOn(o, p1, p2, p3, Null, "", 0)

Compiler ==
  [ops |-> <<>>, nregs |-> 0, ncur |-> 0, aggs |-> <<>>, ok |-> TRUE,
   rs |-> <<>>, top |-> 0, skips |-> {}, ends |-> {}]

NoCursor == -1

Here(c) == Len(c.ops)
Emit(c, ops) == [c EXCEPT !.ops = @ \o ops]
Alloc(c, n) == [c EXCEPT !.nregs = @ + n]
AllocCursor(c) == [c EXCEPT !.ncur = @ + 1]
NotImplemented(c) == [c EXCEPT !.ok = FALSE]

\* The jumps at these addresses go to the next instruction.
PatchHere(c, jumps) ==
  [c EXCEPT !.ops = [i \in DOMAIN @ |-> IF i - 1 \in jumps THEN [@[i] EXCEPT !.p2 = Here(c)] ELSE @[i]]]

\* A jump to the next row, and a jump out of the loop.
Skip(c, op) == [Emit(c, << op >>) EXCEPT !.skips = @ \cup {Here(c)}]
Leave(c, op) == [Emit(c, << op >>) EXCEPT !.ends = @ \cup {Here(c)}]

Land(c) == [PatchHere(c, c.skips) EXCEPT !.skips = {}]

\* A loop: op leaves it where there is no row, o goes back for the next one.
Loop(c, op) == [Leave(c, op) EXCEPT !.top = Here(c) + 1]

LeaveHere(c) == [PatchHere(c, c.ends) EXCEPT !.ends = {}]
EndLoop(c, o, cur) == LeaveHere(Emit(Land(c), << Op(o, cur, c.top, 0) >>))

\* The operands: the n-th from the top.
Operand(c, n) == c.rs[Len(c.rs) - n]
Push(c, r) == [c EXCEPT !.rs = Append(@, r)]
Pop(c, n) == [c EXCEPT !.rs = SubSeq(@, 1, Len(@) - n)]

\* A new register takes what ops make of the n operands on top.
Yield(c, n, ops) == Push(Pop(Emit(Alloc(c, 1), ops), n), c.nregs)

\* The n operands on top are copied side by side.
Block(c, n) ==
  Pop(Emit(Alloc(c, n), [i \in 1 .. n |-> Op("Copy", Operand(c, n - i), c.nregs + i - 1, 0)]), n)

\* The operand on top goes to register r.
CopyTop(c, r) == Pop(Emit(c, << Op("Copy", Operand(c, 0), r, 0) >>), 1)

-----------------------------------------------------------------------------
(* Expressions.  Each leaves one operand more. *)

Literal(c, m) ==
  LET r == c.nregs
  IN  Yield(c, 0,
        << CASE m.t = "int" -> Op("Integer", Wrap(m.v, LitBits), r, 0)
             [] m.t = "real" -> OpOn("Real", 0, r, 0, m, "", 0)
             [] m.t = "text" -> OpOn("String8", 0, r, 0, m, "", 0)
             [] m.t = "null" -> Op("Null", 0, r, 0) >>)

\* A comparison jumps; its value is made of the two ways it can go.
Compared(c, o, l, r) ==
  LET res == c.nregs
      at == Here(c)
  IN  Yield(c, 2,
        << Op("Integer", 0, res, 0), Op(o, r, at + 3, l), Op("Goto", 0, at + 4, 0),
           Op("Integer", 1, res, 0) >>)

\* Mutant: the operands the other way round.
ComparisonSwapped(c, o) == Compared(c, o, Operand(c, 0), Operand(c, 1))

Comparison(c, o) == Compared(c, o, Operand(c, 1), Operand(c, 0))

Arithmetical(c, o) == Yield(c, 2, << Op(o, Operand(c, 0), Operand(c, 1), c.nregs) >>)

\* NOT: of 0, anything else, and NULL.
Negation(c) ==
  LET r == Operand(c, 0)
      res == c.nregs
      zero == c.nregs + 1
      at == Here(c)
  IN  Alloc(Yield(c, 1,
        << Op("IsNull", r, at + 7, 0), Op("Integer", 0, res, 0), Op("Integer", 0, zero, 0),
           Op("Eq", zero, at + 5, r), Op("Goto", 0, at + 8, 0), Op("Integer", 1, res, 0),
           Op("Goto", 0, at + 8, 0), Op("Null", 0, res, 0) >>), 1)

\* 0 - r.
Minus(c) ==
  Yield(c, 1, << Op("Integer", 0, c.nregs, 0), Op("SubtractInt", Operand(c, 0), c.nregs, c.nregs) >>)

\* The arguments are in the n registers given out last.
CallFunction(c, fn, n) ==
  Yield(c, 0, << OpOn("Function", n, IF n = 0 THEN 0 ELSE c.nregs - n, c.nregs, Null, fn, 0) >>)

ColumnRead(c, i, cur) == Yield(c, 0, << Op("Column", cur, i, c.nregs) >>)

\* The operands are compiled.
Combined(c, o) == IF o \in Comparisons THEN Comparison(c, o) ELSE Arithmetical(c, o)

RECURSIVE Expression(_, _, _), Expressions(_, _, _)

Expressions(c, es, cur) ==
  IF es = <<>> THEN c ELSE Expressions(Expression(c, Head(es), cur), Tail(es), cur)

\* compile_expr
Expression(c, e, cur) ==
  LET known == {i \in DOMAIN c.aggs : c.aggs[i].e = e}
      two == Expressions(c, << e.l, e.r >>, cur)
  IN  IF known # {} THEN Push(c, c.aggs[Min(known)].r)
      ELSE CASE e.k = "lit" -> Literal(c, e.v)
             [] e.k = "col" /\ cur # NoCursor -> ColumnRead(c, e.i, cur)
             [] e.k = "bin" /\ e.o \in Comparisons \cup Arithmetic -> Combined(two, e.o)
             [] e.k = "unary" /\ e.o = "Plus" -> Expression(c, e.e, cur)
             [] e.k = "unary" /\ e.o = "Minus" -> Minus(Expression(c, e.e, cur))
             [] e.k = "unary" /\ e.o = "Not" -> Negation(Expression(c, e.e, cur))
             [] e.k = "fn" ->
                  CallFunction(Block(Expressions(c, e.args, cur), Len(e.args)), e.fn, Len(e.args))
             [] OTHER -> NotImplemented(Push(c, 0))

\* An expression whose value goes to register r; expressions that go to the
\* registers from r on.
ExpressionInto(c, e, cur, r) == CopyTop(Expression(c, e, cur), r)

RECURSIVE ExpressionsInto(_, _, _, _)
ExpressionsInto(c, es, cur, r) ==
  IF es = <<>> THEN c
  ELSE ExpressionsInto(ExpressionInto(c, Head(es), cur, r), Tail(es), cur, r + 1)

\* Predicates: they jump to the next row.
Test(c, o) == Skip(Pop(c, 1), Op(o, Operand(c, 0), 0, 0))

OrElse(c) ==
  LET either == c.nregs
      at == Here(c)
  IN  Test(Yield(c, 2, << Op("Copy", Operand(c, 1), either, 0), Op("If", either, at + 3, 0),
                          Op("Copy", Operand(c, 0), either, 0) >>), "IfNot")

\* compile_where_expr
RECURSIVE Where(_, _, _)
Where(c, e, cur) ==
  CASE e.k = "none" -> c
    [] e.k = "bin" /\ e.o = "And" -> Where(Where(c, e.l, cur), e.r, cur)
    [] e.k = "bin" /\ e.o = "Or" -> OrElse(Expressions(c, << e.l, e.r >>, cur))
    [] e.k = "null" -> Test(Expression(c, e.e, cur), IF e.not THEN "IsNull" ELSE "NotNull")
    [] OTHER -> Test(Expression(c, e, cur), "IfNot")

-----------------------------------------------------------------------------
(* SELECT. *)

OpenScan(c, o, cur) == Loop(Emit(c, << Op(o, cur, RootPage, 0) >>), Op("Rewind", cur, 0, 0))

CloseScan(c, cur) == Emit(c, << Op("Close", cur, 0, 0) >>)

EmitResultRow(c, start, n) == Emit(c, << Op("ResultRow", start, n, 0) >>)

\* The n registers from start on go to the sorter as one record.
ToSorter(c, start, n, sorter) ==
  Emit(Alloc(c, 1), << Op("MakeRecord", start, n, c.nregs), Op("SorterInsert", sorter, c.nregs, 0) >>)

\* compile_select_literal
SelectLiteral(s) ==
  LET n == Len(s.cols)
      tested == Where(Alloc(Compiler, n), s.where, NoCursor)
  IN  Land(EmitResultRow(ExpressionsInto(tested, s.cols, NoCursor, 0), 0, n))

Computed == -1

\* The column each result column is read from; * stands for all of them.
Resolved(cols) ==
  FlattenSeq([j \in DOMAIN cols |-> CASE cols[j].k = "star" -> [i \in 1 .. NCols |-> i - 1]
                                      [] cols[j].k = "col" -> << cols[j].i >>
                                      [] OTHER -> << Computed >>])

\* A computed column is looked up among the columns as they were written,
\* by its place among those that * has been expanded to.
ResultColumn(c, s, i, from, cur) ==
  CASE from # Computed -> Emit(c, << Op("Column", cur, from, i - 1) >>)
    [] from = Computed /\ i \in DOMAIN s.cols /\ s.cols[i].k # "star" ->
         ExpressionInto(c, s.cols[i], cur, i - 1)
    [] OTHER -> NotImplemented(c)

\* The result columns up to the n-th.
RECURSIVE ResultColumns(_, _, _, _, _)
ResultColumns(c, s, n, from, cur) ==
  IF n = 0 THEN c ELSE ResultColumn(ResultColumns(c, s, n - 1, from, cur), s, n, from[n], cur)

\* The limit stays an operand; a row less is left of it.
Limit(c, s) == IF s.limit = NoExpr THEN c ELSE Expression(c, s.limit, NoCursor)
Limited(c, s) ==
  IF s.limit = NoExpr THEN c ELSE Leave(c, Op("DecrJumpZero", Operand(c, 0), 0, 0))

\* A row that the scan has found goes to the sorter, or out.
FoundRow(c, s, n, sorter) ==
  IF s.order THEN ToSorter(c, 0, n, sorter) ELSE EmitResultRow(Limited(c, s), 0, n)

OpenSorter(c, s, sorter) ==
  IF s.order THEN Emit(AllocCursor(c), << Op("SorterOpen", sorter, 0, 0) >>) ELSE c

\* The rows of the sorter.
SortedRows(c, s, n, sorter) ==
  LET row == Limited(Loop(c, Op("SorterSort", sorter, 0, 0)), s)
      fields == [i \in 1 .. n |-> Op("Column", sorter, i - 1, i - 1)]
  IN  IF s.order THEN EndLoop(EmitResultRow(Emit(row, fields), 0, n), "SorterNext", sorter) ELSE c

\* compile_select_with_from.  The limit and the sorter's opening are
\* compiled where the scan has a row: they run once for every row.
SelectFrom(s) ==
  LET from == Resolved(s.cols)
      n == Len(from)
      read == ResultColumns(OpenScan(AllocCursor(Alloc(Compiler, n)), "OpenRead", 0), s, n, from, 0)
      ready == OpenSorter(Limit(Where(read, s.where, 0), s), s, 1)
      looped == EndLoop(FoundRow(ready, s, n, 1), "Next", 0)
  IN  CloseScan(SortedRows(looped, s, n, 1), 0)

-----------------------------------------------------------------------------
(* Aggregates. *)

\* extract_aggregates: aggs, and the aggregates of an expression behind it.
RECURSIVE Extracted(_, _)
Extracted(aggs, e) ==
  CASE e.k = "fn" /\ e.fn \in Aggregates ->
         IF e \in ToSet(aggs) THEN aggs ELSE Append(aggs, e)
    [] e.k = "bin" -> Extracted(Extracted(aggs, e.l), e.r)
    [] e.k \in {"unary", "null"} -> Extracted(aggs, e.e)
    [] OTHER -> aggs

RECURSIVE AggregatesOf(_)
AggregatesOf(es) ==
  IF es = <<>> THEN <<>> ELSE Extracted(AggregatesOf(Front(es)), Last(es))

IsAggregateQuery(s) ==
  s.group # <<>> \/ s.having # NoExpr \/ AggregatesOf(s.cols) # <<>>

\* AggStep on the n registers given out last.
EmitAggStep(c, agg, n, dest) ==
  Emit(c, << OpOn("AggStep", n, IF n = 0 THEN 0 ELSE c.nregs - n, dest, Null, agg.fn, 0) >>)

\* AggStep for each of the first n aggregates, on the row of the scan.
RECURSIVE StepOnRow(_, _, _)
StepOnRow(c, aggs, n) ==
  LET argc == Len(aggs[n].args)
  IN  IF n = 0 THEN c
      ELSE EmitAggStep(Block(Expressions(StepOnRow(c, aggs, n - 1), aggs[n].args, 0), argc),
                       aggs[n], argc, n - 1)

ArgsOf(aggs, n) == FlattenSeq([i \in 1 .. n |-> aggs[i].args])

\* GROUP BY: the keys and then the arguments of all aggregates go to the
\* sorter as one record.
Sorting(c, n) == ToSorter(c, c.nregs - n, n, 1)
FeedSorter(c, s, aggs) ==
  LET fields == s.group \o ArgsOf(aggs, Len(aggs))
  IN  Sorting(Block(Expressions(c, fields, 0), Len(fields)), Len(fields))

\* AggStep on the record of the sorter, where the arguments are behind the
\* keys and those of the aggregates before.
StepOnFields(c, agg, col, n, dest) ==
  EmitAggStep(Emit(Alloc(c, n), [j \in 1 .. n |-> Op("Column", 1, col + j - 1, c.nregs + j - 1)]),
              agg, n, dest)

RECURSIVE StepOnRecord(_, _, _, _)
StepOnRecord(c, s, aggs, n) ==
  IF n = 0 THEN c
  ELSE StepOnFields(StepOnRecord(c, s, aggs, n - 1), aggs[n],
                    Len(s.group) + Len(ArgsOf(aggs, n - 1)), Len(aggs[n].args), n - 1)

\* A group whose HAVING is 0 is skipped; zero is a register that holds 0.
NoReg == -1
NotZero(c) == Skip(Pop(c, 2), Op("Eq", Operand(c, 1), 0, Operand(c, 0)))
Having(c, s, zero) ==
  CASE s.having = NoExpr -> c
    [] s.having # NoExpr /\ zero = NoReg -> NotZero(Literal(Expression(c, s.having, 0), IntV(0)))
    [] OTHER -> NotZero(Push(Expression(c, s.having, 0), zero))

\* The aggregates are finished, and a row goes out.  The grouping
\* expressions are found in the registers keys.
FlushGroup(c, s, aggs, keys, zero, result) ==
  LET final == Emit(c, [i \in DOMAIN aggs |-> OpOn("AggFinal", i - 1, 0, 0, Null, aggs[i].fn, 0)])
      known == [final EXCEPT !.aggs =
                  @ \o [i \in DOMAIN keys |-> [e |-> s.group[i], r |-> keys[i]]]]
      row == ExpressionsInto(Having(known, s, zero), s.cols, 0, result)
  IN  [Land(EmitResultRow(row, result, Len(s.cols))) EXCEPT !.aggs = c.aggs]

\* The records of the sorter come by key.  When the key is another than the
\* last one, the group that has ended goes out first; the last group goes
\* out after the loop.
GroupLoop(c, s, aggs, result) ==
  LET n == Len(s.group)
      first == c.nregs
      prev == [i \in 1 .. n |-> first + i]
      curr == [i \in 1 .. n |-> first + n + i]
      zero == first + 2 * n + 1
      top == Here(c) + 2
      jumpFirst == top + n + 1
      jumpSame == jumpFirst + n + 1
      sorted == Leave(Alloc(c, 2 * n + 2), Op("SorterSort", 1, 0, 0))
      head == Emit([Emit(sorted, << Op("Integer", 1, first, 0) >>) EXCEPT !.top = top],
                [i \in 1 .. n |-> Op("Column", 1, i - 1, curr[i])]
                \o << Op("Integer", 0, zero, 0), Op("Ne", first, 0, zero) >>
                \o [i \in 1 .. n |-> Op("Ne", curr[i], jumpSame + 1, prev[i])]
                \o << Op("Goto", 0, 0, 0) >>)
      flushed == Emit(FlushGroup(head, s, aggs, prev, zero, result),
                      [i \in DOMAIN aggs |-> Op("Null", 0, i - 1, 0)])
      keyed == Emit(PatchHere(flushed, {jumpFirst}),
                 << Op("Integer", 0, first, 0) >>
                 \o [i \in 1 .. n |-> Op("Copy", curr[i], prev[i], 0)])
      stepped == StepOnRecord(PatchHere(keyed, {jumpSame}), s, aggs, Len(aggs))
  IN  FlushGroup(EndLoop(stepped, "SorterNext", 1), s, aggs, curr, zero, result)

\* The row of the whole table, or those of its groups.
Flushed(c, s, aggs) ==
  LET ready == Alloc(c, Len(s.cols))
  IN  IF s.group # <<>> THEN GroupLoop(ready, s, aggs, c.nregs)
      ELSE FlushGroup(ready, s, aggs, <<>>, NoReg, c.nregs)

\* compile_aggregate_select; ORDER BY and LIMIT are not looked at.
SelectAggregates(s) ==
  LET aggs == AggregatesOf(s.cols \o (IF s.having = NoExpr THEN <<>> ELSE << s.having >>))
      grouped == s.group # <<>>
      known == [Alloc(AllocCursor(Compiler), Len(aggs)) EXCEPT
                  !.aggs = [i \in DOMAIN aggs |-> [e |-> aggs[i], r |-> i - 1]]]
      ready == OpenSorter(known, [order |-> grouped], 1)
      row == Where(OpenScan(ready, "OpenRead", 0), s.where, 0)
      fed == IF grouped THEN FeedSorter(row, s, aggs) ELSE StepOnRow(row, aggs, Len(aggs))
  IN  Flushed(EndLoop(fed, "Next", 0), s, aggs)

-----------------------------------------------------------------------------
(* INSERT, DELETE, UPDATE, CREATE. *)

\* The record is made of the registers from that of the first value on.
Record(c, n) ==
  Pop(Emit(Alloc(c, 2),
        << Op("MakeRecord", Operand(c, n - 1), n, c.nregs), Op("NewRowid", 0, c.nregs + 1, 0),
           Op("Insert", 0, c.nregs, c.nregs + 1) >>), n)

InsertRow(c, values) ==
  IF values = <<>> THEN c ELSE Record(Expressions(c, values, NoCursor), Len(values))

RECURSIVE InsertRows(_, _)
InsertRows(c, rows) ==
  IF rows = <<>> THEN c ELSE InsertRows(InsertRow(c, Head(rows)), Tail(rows))

CompileInsert(s) ==
  LET opened == Emit(AllocCursor(Compiler), << Op("OpenWrite", 0, RootPage, 0) >>)
  IN  CloseScan(InsertRows(opened, s.rows), 0)

\* After a deletion the cursor is at the next row already; Next with p5 = 1
\* leaves it there.
DeleteRow(c) ==
  Leave(Emit(c, << Op("Delete", 0, 0, 0), OpOn("Next", 0, c.top, 0, Null, "", 1) >>),
        Op("Goto", 0, 0, 0))

CompileDelete(s) ==
  LET row == Where(OpenScan(AllocCursor(Compiler), "OpenWrite", 0), s.where, 0)
  IN  CloseScan(EndLoop(DeleteRow(row), "Next", 0), 0)

\* The row is deleted and inserted again under its rowid, and the scan goes
\* on where it is sought.
WriteRow(c, base, seek) ==
  LET rowid == c.nregs
      record == c.nregs + 1
      written == Emit(Alloc(c, 2),
        << Op("RowId", 0, rowid, 0), Op("MakeRecord", base, NCols, record), Op("Delete", 0, 0, 0),
           Op("Insert", 0, record, rowid) >>)
  IN  Emit(Leave(written, Op(seek, 0, 0, rowid)), << Op("Goto", 0, c.top, 0) >>)

\* Mutant: at its rowid.
UpdateRowAgain(c, base) == WriteRow(c, base, "SeekGe")

\* Behind its rowid.
UpdateRow(c, base) == WriteRow(c, base, "SeekGt")

RECURSIVE Assigned(_, _, _)
Assigned(c, sets, base) ==
  IF sets = <<>> THEN c
  ELSE Assigned(ExpressionInto(c, Head(sets).e, 0, base + Head(sets).i), Tail(sets), base)

\* The columns are read side by side, those of SET overwritten.
Rewritten(c, s, base) ==
  LET read == Emit(Alloc(c, NCols), [i \in 1 .. NCols |-> Op("Column", 0, i - 1, base + i - 1)])
  IN  UpdateRow(Assigned(read, s.sets, base), base)

CompileUpdate(s) ==
  LET row == Where(OpenScan(AllocCursor(Compiler), "OpenWrite", 0), s.where, 0)
  IN  CloseScan(EndLoop(Rewritten(row, s, row.nregs), "Next", 0), 0)

CompileCreate(s) ==
  Emit(Alloc(Compiler, 1), << Op("CreateTable", 0, 0, 0), Op("ResultRow", 0, 1, 0) >>)

\* Compiler::compile
Compile(s) ==
  LET c == CASE s.k = "select" /\ ~s.from -> SelectLiteral(s)
             [] s.k = "select" /\ s.from /\ IsAggregateQuery(s) -> SelectAggregates(s)
             [] s.k = "select" /\ s.from /\ ~IsAggregateQuery(s) -> SelectFrom(s)
             [] s.k = "insert" -> CompileInsert(s)
             [] s.k = "delete" -> CompileDelete(s)
             [] s.k = "update" -> CompileUpdate(s)
             [] s.k = "create" -> CompileCreate(s)
  IN  Emit(c, << Op("Halt", 0, 0, 0) >>)
=============================================================================
