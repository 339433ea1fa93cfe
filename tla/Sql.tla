--------------------------------- MODULE Sql ---------------------------------
(***************************************************************************)
(* Statements compiled by module Codegen and run by module Vdbe, and what  *)
(* SQL says they mean: the answer of a query and the table a change leaves *)
(* are defined from the table as a set of rows, without a program.         *)
(***************************************************************************)
EXTENDS Vdbe, Codegen

-----------------------------------------------------------------------------
(* Meaning. *)

\* What is no i64, and a division that traps.
Overflowed == [t |-> "overflow", v |-> 0]
Trapped == [t |-> "trap", v |-> 0]

NoValues == {Failed, Overflowed, Trapped}

Integer(n) == IF n \in LowInt .. HighInt THEN IntV(n) ELSE Overflowed

\* Arithmetic on the integers without a limit.
Reckoning(o, l, r) ==
  LET a == ToInt(l)
      b == ToInt(r)
  IN  CASE ~AreNumbers(l, r) -> Failed
        [] AreNumbers(l, r) /\ o \in Divisions /\ b = 0 -> Failed
        [] AreNumbers(l, r) /\ o \in Divisions /\ a = LowInt /\ b = -1 -> Trapped
        [] OTHER -> Integer(Exactly(o, a, b))

\* Comparison of numbers as they are.
Number(m) == IF m.t = "int" THEN One * m.v ELSE m.v

Holds(o, l, r) ==
  LET below(x, y) == IF AreNumbers(x, y) THEN Number(x) < Number(y) ELSE Less(x, y)
  IN  CASE o = "Eq" -> ~below(l, r) /\ ~below(r, l)
        [] o = "Ne" -> below(l, r) \/ below(r, l)
        [] o = "Lt" -> below(l, r)
        [] o = "Le" -> ~below(r, l)
        [] o = "Gt" -> below(r, l)
        [] o = "Ge" -> ~below(l, r)

\* NULL in, NULL out; and, or and not are three-valued.
RECURSIVE Value(_, _)
Value(e, values) ==
  LET m == Value(e.e, values)
      l == Value(e.l, values)
      r == Value(e.r, values)
      truth(yes) == IntV(IF yes THEN 1 ELSE 0)
      without == CHOOSE x \in {l, r} : x \in NoValues
      strict(x) == CASE {l, r} \cap NoValues # {} -> without
                     [] {l, r} \cap NoValues = {} /\ Null \in {l, r} -> Null
                     [] OTHER -> x
      args == [i \in DOMAIN e.args |-> Value(e.args[i], values)]
      false(x) == ~IsNull(x) /\ ~IsTruthy(x)
  IN  CASE e.k = "lit" -> e.v
        [] e.k = "col" -> values[e.i + 1]
        [] e.k = "bin" /\ e.o \in Comparisons -> strict(truth(Holds(e.o, l, r)))
        [] e.k = "bin" /\ e.o \in Arithmetic -> strict(Reckoning(e.o, l, r))
        [] e.k = "bin" /\ e.o = "And" ->
             IF false(l) \/ false(r) THEN truth(FALSE) ELSE strict(truth(TRUE))
        [] e.k = "bin" /\ e.o = "Or" ->
             IF IsTruthy(l) \/ IsTruthy(r) THEN truth(TRUE) ELSE strict(truth(FALSE))
        [] e.k = "unary" /\ e.o = "Plus" -> m
        [] e.k = "unary" /\ (IsNull(m) \/ m \in NoValues) -> m
        [] e.k = "unary" /\ e.o = "Minus" -> Reckoning("SubtractInt", IntV(0), m)
        [] e.k = "unary" /\ e.o = "Not" -> truth(~IsTruthy(m))
        [] e.k = "null" -> truth(IsNull(m) # e.not)
        [] e.k = "fn" -> IF Range(args) \cap NoValues # {}
                            THEN CHOOSE x \in Range(args) : x \in NoValues ELSE Function(e.fn, args)
        [] e.k = "none" -> truth(TRUE)

Contents(table) ==
  [r \in UNION {DOMAIN table[i] : i \in DOMAIN table} |->
     table[CHOOSE i \in DOMAIN table : r \in DOMAIN table[i]][r]]

Ascending(S) == SetToSortSeq(S, <)

\* The rowids of the rows that WHERE takes.
Taken(s, table) == {r \in DOMAIN table : IsTruthy(Value(s.where, table[r]))}

\* The value of an expression for a group of rows: aggregates over all of
\* them, anything else from any of them.
RECURSIVE GroupValue(_, _)
GroupValue(e, rows) ==
  LET args(i) == [j \in DOMAIN e.args |-> Value(e.args[j], rows[i])]
  IN  CASE e.k = "fn" /\ e.fn \in Aggregates ->
             AggFinalized(AggOver(e.fn, [i \in DOMAIN rows |-> args(i)]))
        [] e.k = "bin" -> Value(Bin(e.o, Lit(GroupValue(e.l, rows)), Lit(GroupValue(e.r, rows))), <<>>)
        [] OTHER -> Value(e, IF rows = <<>> THEN <<>> ELSE rows[1])

Projected(s, values) ==
  FlattenSeq([i \in DOMAIN s.cols |-> IF s.cols[i].k = "star" THEN values
                                      ELSE << Value(s.cols[i], values) >>])

\* The groups in the order of their keys, each the sequence of its rows.
Groups(s, rows) ==
  LET key(i) == [j \in DOMAIN s.group |-> Value(s.group[j], rows[i])]
      keys == Sorted(SetToSeq({key(i) : i \in DOMAIN rows}))
      of(k) == Ascending({i \in DOMAIN rows : key(i) = k})
  IN  [g \in DOMAIN keys |-> [j \in DOMAIN of(keys[g]) |-> rows[of(keys[g])[j]]]]

GroupsOf(s, rows) == IF s.group = <<>> THEN << rows >> ELSE Groups(s, rows)

\* The rows that WHERE takes, by rowid.
TakenRows(s, table) ==
  LET taken == Ascending(Taken(s, table))
  IN  [i \in DOMAIN taken |-> table[taken[i]]]

\* The groups that HAVING takes.
Kept(s, groups) == SelectSeq(groups, LAMBDA g : IsTruthy(GroupValue(s.having, g)))

Aggregated(s, groups) ==
  [g \in DOMAIN groups |-> [i \in DOMAIN s.cols |-> GroupValue(s.cols[i], groups[g])]]

Selected(s, rows) ==
  IF s.from /\ IsAggregateQuery(s)
  THEN Aggregated(s, Kept(s, GroupsOf(s, rows)))
  ELSE [i \in DOMAIN rows |-> Projected(s, rows[i])]

InOrder(s, all) == IF s.order THEN Sorted(all) ELSE all

UpToLimit(s, all) ==
  IF s.limit = NoExpr THEN all ELSE SubSeq(all, 1, Min({Len(all), Value(s.limit, <<>>).v}))

Answer(s, table) == UpToLimit(s, InOrder(s, Selected(s, TakenRows(s, table))))

\* A query without FROM is one over one row without columns.
Queried(s) == IF s.k = "select" /\ ~s.from THEN [r \in {1} |-> <<>>] ELSE Contents(given)

Updated(s, values) ==
  [i \in DOMAIN values |->
     LET sets == SelectSeq(s.sets, LAMBDA a : a.i = i - 1)
     IN  IF sets = <<>> THEN values[i] ELSE Value(Last(sets).e, values)]

\* The table after an INSERT, an UPDATE or a DELETE.
Changed(s, table) ==
  CASE s.k = "insert" ->
         LET top == Max({0} \cup DOMAIN table)
         IN  [r \in DOMAIN table \cup (top + 1 .. top + Len(s.rows)) |->
                IF r <= top THEN table[r]
                ELSE [i \in DOMAIN s.rows[r - top] |-> Value(s.rows[r - top][i], <<>>)]]
    [] s.k = "update" -> [r \in DOMAIN table |-> IF r \in Taken(s, table)
                                                 THEN Updated(s, table[r]) ELSE table[r]]
    [] s.k = "delete" -> [r \in DOMAIN table \ Taken(s, table) |-> table[r]]
    [] OTHER -> table

HavingOf(s) == IF s.having = NoExpr THEN <<>> ELSE << s.having >>

\* What a statement computes: WHERE of every row, what is done with the rows
\* it takes, each an expression and a row,
ComputedOfRows(s, table) ==
  LET taken == Range(TakenRows(s, table))
      every == {s.where} \X Range(table)
  IN  CASE s.k = "select" /\ ~IsAggregateQuery(s) -> every \cup (Range(s.cols) \ {Star}) \X taken
        [] s.k = "select" /\ IsAggregateQuery(s) ->
             every \cup (UNION {Range(e.args) : e \in Range(AggregatesOf(s.cols \o HavingOf(s)))}) \X taken
        [] s.k = "insert" -> (UNION {Range(s.rows[i]) : i \in DOMAIN s.rows}) \X {<<>>}
        [] s.k = "update" -> every \cup {s.sets[i].e : i \in DOMAIN s.sets} \X taken
        [] s.k = "delete" -> every
        [] OTHER -> {}

\* HAVING of every group and what is done with those it takes,
ComputedOfGroups(s, table) ==
  LET groups == GroupsOf(s, TakenRows(s, table))
  IN  IF s.k = "select" /\ IsAggregateQuery(s)
        THEN Range(HavingOf(s)) \X Range(groups) \cup Range(s.cols) \X Range(Kept(s, groups))
        ELSE {}

\* and the rowids of new rows.
NewRowids(s, table) ==
  IF s.k = "insert" THEN {Integer(Max({0} \cup DOMAIN table) + i) : i \in DOMAIN s.rows} ELSE {}

Results(s, table) ==
  {Value(c[1], c[2]) : c \in ComputedOfRows(s, table)}
    \cup {GroupValue(c[1], c[2]) : c \in ComputedOfGroups(s, table)}
    \cup NewRowids(s, table)

-----------------------------------------------------------------------------
\* The program of a statement; one that does not compile fails at once.
Compilation(s) ==
  LET c == Compile(s)
  IN  [ops |-> IF c.ok THEN c.ops ELSE << Op("Return", 0, 0, 0) >>,
       nregs |-> c.nregs, ncur |-> c.ncur, stmt |-> s, scan |-> <<>>]

ByHand(ops, nregs, ncur, scan) ==
  [ops |-> ops, nregs |-> nregs, ncur |-> ncur, stmt |-> [k |-> "none"], scan |-> scan]

Started(cases) == \E c \in cases : Starts(c[1], c[2])

-----------------------------------------------------------------------------
\* Properties

stmt == program.stmt
Compiled == stmt.k # "none"

\* What the statement computes and has no value.
Missing == Results(stmt, Queried(stmt)) \cap NoValues

\* Every integer that it computes is an i64.
Representable(missing) == missing \subseteq {Failed}

\* What the caller has got so far.
Returned(answer) == IF halted THEN out = answer ELSE IsPrefix(out, answer)

\* A query returns the rows that its text asks for, in order, each once,
\* and nothing else: whichever jumps the compiler has patched, registers it
\* has shared between expressions, and rows the loops have skipped.  Before
\* it is done it has returned the first of them.
AnswersRight ==
  (Compiled /\ stmt.k = "select" /\ ~running /\ ~failed /\ ~panicked /\ Representable(Missing)) =>
    Returned(Answer(stmt, Queried(stmt)))

\* A change that is done has changed the rows that WHERE takes and no
\* others, and INSERT has given each row a rowid of its own; a query has
\* changed nothing.
ChangesRight ==
  (Compiled /\ halted /\ ~failed /\ Representable(Missing)) =>
    Contents(leaves) = Changed(stmt, Contents(given))

\* The statement fails, and panics, on account of those.
FailsOn(missing) == (failed => missing # {}) /\ (halted => missing # {Failed})

PanicsOn(missing) ==
  /\ panicked => ~Representable(missing)
  /\ halted /\ checks => Representable(missing)
  /\ halted => missing \notin {{Trapped}, {Failed, Trapped}}

\* A statement fails when it computes something that has no value, and only
\* then: never on a cursor that is closed or at no row, on a register that
\* holds something of another kind, or on a program that does not compile.
FailsWhenItMust == Compiled => FailsOn(Missing)


\* An UPDATE that inserts rows where it is scanning never comes to a row
\* it has written: what a statement takes away is as the statement found it.
NothingTwice ==
  [][LET before == Contents(leaves)
         after == Contents(leaves')
     IN  \A r \in DOMAIN before \ DOMAIN after : before[r] = Contents(given)[r]]_leaves

\* The scans written by hand: from a key up or down, each row once.
ScansRight ==
  (~Compiled /\ halted /\ program.scan # <<>>) =>
    LET scan == program.scan
        key == scan[2]
        rows == Contents(given)
        in(r) == CASE scan[1] = "SeekGe" -> r >= key
                   [] scan[1] = "SeekGt" -> r > key
                   [] scan[1] = "SeekLe" -> r <= key
                   [] scan[1] = "SeekLt" -> r < key
                   [] scan[1] = "Last" -> TRUE
        up == Ascending({r \in DOMAIN rows : in(r)})
        way == IF scan[1] \in {"SeekGe", "SeekGt"} THEN up ELSE Reverse(up)
    IN  out = [i \in DOMAIN way |-> << IntV(way[i]) >>]

\* Every call of step() returns.
StepReturns == running ~> ~running
=============================================================================
