------------------------------- MODULE Parser -------------------------------
(***************************************************************************)
(* liter-parser: recursive descent over the tokens of liter-tokenizer.     *)
(* A parser is an operator from the place of its first token to the tree   *)
(* it reads and the place after it; place 0 is a syntax error, and what    *)
(* goes on from there fails too.  parse_all reads one statement per step.  *)
(***************************************************************************)
EXTENDS Integers, Sequences, SequencesExt

CONSTANT Legible \* the texts of integers that i64::from_str reads

VARIABLES
  input,  \* the tokens
  at,     \* the next of them
  stmts,  \* what parse_all has read
  failed  \* it returned a ParseError

vars == <<input, at, stmts, failed>>

-----------------------------------------------------------------------------
(* Tokens: keywords and punctuation, and those with a text.  An identifier *)
(* may be quoted.                                                          *)

Keywords ==
  {"ABORT", "ACTION", "ADD", "ALL", "ALTER", "ANALYZE", "AND", "AS", "ASC", "ATTACH",
   "AUTOINCREMENT", "BEFORE", "BEGIN", "BETWEEN", "BY", "CASCADE", "CASE", "CAST", "CHECK",
   "COLLATE", "COLUMN", "COMMIT", "CONFLICT", "CONSTRAINT", "CREATE", "CROSS", "CURRENT_DATE",
   "CURRENT_TIME", "CURRENT_TIMESTAMP", "DATABASE", "DEFAULT", "DEFERRABLE", "DEFERRED",
   "DELETE", "DESC", "DETACH", "DISTINCT", "DO", "DROP", "EACH", "ELSE", "END", "ESCAPE",
   "EXCEPT", "EXCLUSIVE", "EXISTS", "EXPLAIN", "FAIL", "FILTER", "FIRST", "FOLLOWING", "FOR",
   "FOREIGN", "FROM", "FULL", "GLOB", "GROUP", "GROUPS", "HAVING", "IF", "IGNORE", "IMMEDIATE",
   "IN", "INDEX", "INDEXED", "INITIALLY", "INNER", "INSERT", "INSTEAD", "INTERSECT", "INTO",
   "IS", "ISNULL", "JOIN", "KEY", "LAST", "LEFT", "LIKE", "LIMIT", "MATCH", "MATERIALIZED",
   "NATURAL", "NO", "NOT", "NOTHING", "NOTNULL", "NULL", "NULLS", "OF", "OFFSET", "ON", "OR",
   "ORDER", "OTHERS", "OUTER", "OVER", "PARTITION", "PLAN", "PRAGMA", "PRECEDING", "PRIMARY",
   "QUERY", "RAISE", "RANGE", "RECURSIVE", "REFERENCES", "REGEXP", "REINDEX", "RELEASE",
   "RENAME", "REPLACE", "RESTRICT", "RETURNING", "RIGHT", "ROLLBACK", "ROW", "ROWS",
   "SAVEPOINT", "SELECT", "SET", "TABLE", "TEMP", "TEMPORARY", "THEN", "TIES", "TO",
   "TRANSACTION", "TRIGGER", "UNBOUNDED", "UNION", "UNIQUE", "UPDATE", "USING", "VACUUM",
   "VALUES", "VIEW", "VIRTUAL", "WHEN", "WHERE", "WINDOW", "WITH", "WITHOUT"}

Punctuation ==
  {"(", ")", ",", ";", ".", "*", "/", "%", "+", "-", "&", "|", "~", "<<", ">>", "||",
   "=", "==", "<>", "!=", "<", "<=", ">", ">=", "->", "->>"}

Word(t) == [t |-> t, text |-> "", quoted |-> FALSE]
Text(t, text) == [t |-> t, text |-> text, quoted |-> FALSE]
Quoted(name) == [t |-> "Ident", text |-> name, quoted |-> TRUE]

Peek(i) == IF i \in DOMAIN input THEN input[i].t ELSE "none"

\* Mutant: the token is taken whatever it is.
ExpectAny(i, t) == IF i \in DOMAIN input THEN i + 1 ELSE 0

\* expect and consume_if.
Expect(i, t) == IF Peek(i) = t THEN i + 1 ELSE 0
ConsumeIf(i, t) == IF Peek(i) = t THEN i + 1 ELSE i

At(i, tree) == [at |-> i, tree |-> tree]

-----------------------------------------------------------------------------
(* Trees.  A name is kept with its quotes where the parser does not take   *)
(* them off.                                                               *)

Name(text, quoted) == [text |-> text, quoted |-> quoted]
NoName == Name("", FALSE)
NoExpr == [k |-> "none"]
Literal(k, text) == [k |-> "literal", type |-> k, text |-> text]
Column(name) == [k |-> "column", name |-> name]
Binary(op, l, r) == [k |-> "binary", op |-> op, l |-> l, r |-> r]
FunctionCall(name, form, args) == [k |-> "function", name |-> name, form |-> form, args |-> args]
Star == [k |-> "star"]
ResultColumn(expr, alias) == [k |-> "result", expr |-> expr, alias |-> alias]
TableRef(name, alias) == [name |-> name, alias |-> alias]
OrderingTerm(expr, desc, nulls) == [expr |-> expr, desc |-> desc, nulls |-> nulls]
LimitClause(limit, offset) == [limit |-> limit, offset |-> offset]
PrimaryKey(direction, auto) == [k |-> "primary key", direction |-> direction, autoincrement |-> auto]
NotNull == [k |-> "not null"]
Defined(name, type, constraints) == [name |-> name, type |-> type, constraints |-> constraints]
Assigned(column, value) == [column |-> column, value |-> value]

\* Statements; the parser fills no other fields of theirs.
SelectStmt(distinct, columns, from, where, group, having, order, limit) ==
  [k |-> "select", distinct |-> distinct, columns |-> columns, from |-> from, where |-> where,
   group |-> group, having |-> having, order |-> order, limit |-> limit]

CreateTable(if, name, columns) == [k |-> "create", if |-> if, name |-> name, columns |-> columns]
InsertStmt(table, columns, rows) == [k |-> "insert", table |-> table, columns |-> columns, rows |-> rows]
UpdateStmt(table, sets, where) == [k |-> "update", table |-> table, sets |-> sets, where |-> where]
DeleteStmt(table, where) == [k |-> "delete", table |-> table, where |-> where]

-----------------------------------------------------------------------------
(* Identifiers. *)

Raw(i) == At(i + 1, Name(input[i].text, input[i].quoted))

\* expect_ident takes the quotes off.
Ident(i) == IF Peek(i) = "Ident" THEN At(i + 1, Name(input[i].text, FALSE)) ELSE At(0, NoName)

Alias(i) ==
  CASE Peek(i) = "AS" -> Ident(i + 1)
    [] Peek(i) = "Ident" -> Raw(i)
    [] OTHER -> At(i, NoName)

-----------------------------------------------------------------------------
(* Expressions. *)

Comparisons == {"=", "==", "<>", "!=", "<", "<=", ">", ">="}

\* Mutant: operators group from the right.
BindingPowerRight(t) ==
  CASE t = "OR" -> <<1, 1>>
    [] t = "AND" -> <<3, 3>>
    [] t \in Comparisons -> <<5, 5>>
    [] t \in {"+", "-"} -> <<9, 9>>
    [] t \in {"*", "/", "%"} -> <<11, 11>>
    [] OTHER -> <<0, 0>>

BindingPower(t) ==
  CASE t = "OR" -> <<1, 2>>
    [] t = "AND" -> <<3, 4>>
    [] t \in Comparisons -> <<5, 6>>
    [] t \in {"+", "-"} -> <<9, 10>>
    [] t \in {"*", "/", "%"} -> <<11, 12>>
    [] OTHER -> <<0, 0>>

ToBinaryOp(t) == CASE t = "==" -> "=" [] t = "!=" -> "<>" [] OTHER -> t

\* An integer that does not fit becomes 0.
LiteralAt(i) ==
  LET text == input[i].text
  IN  Literal(Peek(i), IF Peek(i) = "Integer" /\ text \notin Legible THEN "0" ELSE text)

Constants == {"NULL", "CURRENT_DATE", "CURRENT_TIME", "CURRENT_TIMESTAMP",
              "Integer", "Float", "StringLit"}

RECURSIVE ExprBp(_, _), Climb(_, _), Primary(_), List(_, _)

\* What is read between commas.
Table(i) ==
  LET name == Ident(i)
      alias == Alias(name.at)
  IN  At(alias.at, TableRef(name.tree, alias.tree))

ColumnAt(i) ==
  LET expr == ExprBp(i, 0)
      alias == Alias(expr.at)
  IN  IF Peek(i) = "*" THEN At(i + 1, Star) ELSE At(alias.at, ResultColumn(expr.tree, alias.tree))

Term(i) ==
  LET expr == ExprBp(i, 0)
      direction == IF Peek(expr.at) \in {"ASC", "DESC"} THEN expr.at + 1 ELSE expr.at
      last == CASE Peek(direction) # "NULLS" -> direction
                [] Peek(direction + 1) \in {"FIRST", "LAST"} -> direction + 2
                [] OTHER -> 0
  IN  At(last, OrderingTerm(expr.tree, Peek(expr.at) = "DESC",
                 IF last > direction THEN Peek(direction + 1) ELSE "default"))

Row(i) ==
  LET exprs == List("expr", Expect(i, "("))
  IN  At(Expect(exprs.at, ")"), exprs.tree)

Assignment(i) ==
  LET name == Ident(i)
      value == ExprBp(Expect(name.at, "="), 0)
  IN  At(value.at, Assigned(name.tree, value.tree))

\* Column constraints, as many as there are.
RECURSIVE Constraints(_)
Constraints(i) ==
  LET key == Expect(i + 1, "KEY")
      direction == IF Peek(key) \in {"ASC", "DESC"} THEN key + 1 ELSE key
      last == IF Peek(i) = "PRIMARY" THEN ConsumeIf(direction, "AUTOINCREMENT")
              ELSE Expect(i + 1, "NULL")
      rest == Constraints(last)
      this == IF Peek(i) = "PRIMARY"
              THEN PrimaryKey(IF direction > key THEN Peek(key) ELSE "", last > direction)
              ELSE NotNull
  IN  IF Peek(i) \in {"PRIMARY", "NOT"} THEN At(rest.at, <<this>> \o rest.tree) ELSE At(i, <<>>)

ColumnDef(i) ==
  LET name == Ident(i)
      type == IF Peek(name.at) \in {"Ident", "Integer"} THEN Raw(name.at) ELSE At(name.at, NoName)
      constraints == Constraints(type.at)
  IN  At(constraints.at, Defined(name.tree, type.tree, constraints.tree))

Item(what, i) ==
  CASE what = "expr" -> ExprBp(i, 0)
    [] what = "name" -> Ident(i)
    [] what = "column" -> ColumnAt(i)
    [] what = "table" -> Table(i)
    [] what = "term" -> Term(i)
    [] what = "row" -> Row(i)
    [] what = "assignment" -> Assignment(i)
    [] what = "definition" -> ColumnDef(i)

List(what, i) ==
  LET before(this, rest) == At(rest.at, <<this.tree>> \o rest.tree)
      from(this) == IF Peek(this.at) = "," THEN before(this, List(what, this.at + 1))
                    ELSE At(this.at, <<this.tree>>)
  IN  from(Item(what, i))

Call(name, i) ==
  LET listed(args) == At(Expect(args.at, ")"), FunctionCall(name, "list", args.tree))
  IN  CASE Peek(i) = ")" -> At(i + 1, FunctionCall(name, "none", <<>>))
        [] Peek(i) = "*" -> At(Expect(i + 1, ")"), FunctionCall(name, "star", <<>>))
        [] OTHER -> listed(List("expr", i))

Primary(i) ==
  LET closed(inner) == At(Expect(inner.at, ")"), inner.tree)
  IN  CASE Peek(i) \in Constants -> At(i + 1, LiteralAt(i))
        [] Peek(i) = "Ident" /\ Peek(i + 1) = "(" -> Call(Raw(i).tree, i + 2)
        [] Peek(i) = "Ident" /\ Peek(i + 1) # "(" -> At(i + 1, Column(Raw(i).tree))
        [] Peek(i) = "(" -> closed(ExprBp(i + 1, 0))
        [] OTHER -> At(0, NoExpr)

\* The loop of parse_expr_bp, with the left operand read.
Climb(lhs, min) ==
  LET power == BindingPower(Peek(lhs.at))
      operand(rhs) ==
        IF rhs.at = 0 THEN rhs
        ELSE Climb(At(rhs.at, Binary(ToBinaryOp(Peek(lhs.at)), lhs.tree, rhs.tree)), min)
  IN  IF lhs.at = 0 \/ power[1] = 0 \/ power[1] < min THEN lhs
      ELSE operand(ExprBp(lhs.at + 1, power[2]))

ExprBp(i, min) == Climb(Primary(i), min)

-----------------------------------------------------------------------------
(* Statements. *)

\* A clause that may be missing.
ExprAfter(word, i) == IF Peek(i) = word THEN ExprBp(i + 1, 0) ELSE At(i, NoExpr)

ListAfter(word, what, i) ==
  IF Peek(i) = word THEN List(what, Expect(i + 1, "BY")) ELSE At(i, <<>>)

From(i) == IF Peek(i) = "FROM" THEN List("table", i + 1) ELSE At(i, <<>>)

\* LIMIT limit OFFSET offset, or LIMIT offset, limit.
Limit(i) ==
  LET limit(first, second) ==
        CASE Peek(first.at) = "OFFSET" -> At(second.at, LimitClause(first.tree, second.tree))
          [] Peek(first.at) = "," -> At(second.at, LimitClause(second.tree, first.tree))
          [] OTHER -> At(first.at, LimitClause(first.tree, NoExpr))
      from(first) == limit(first, ExprBp(first.at + 1, 0))
  IN  IF Peek(i) = "LIMIT" THEN from(ExprBp(i + 1, 0)) ELSE At(i, LimitClause(NoExpr, NoExpr))

Select(i) ==
  LET columns == List("column", IF Peek(i + 1) \in {"DISTINCT", "ALL"} THEN i + 2 ELSE i + 1)
      from == From(columns.at)
      where == ExprAfter("WHERE", from.at)
      group == ListAfter("GROUP", "expr", where.at)
      having == ExprAfter("HAVING", group.at)
      order == ListAfter("ORDER", "term", having.at)
      limit == Limit(order.at)
  IN  At(limit.at,
         SelectStmt(Peek(i + 1) = "DISTINCT", columns.tree, from.tree, where.tree, group.tree,
                    having.tree, order.tree, limit.tree))

Create(i) ==
  LET if == Peek(i + 2) = "IF"
      name == Ident(IF if THEN Expect(Expect(i + 3, "NOT"), "EXISTS") ELSE Expect(i + 1, "TABLE"))
      columns == List("definition", Expect(name.at, "("))
  IN  At(IF Peek(i + 1) = "TABLE" THEN Expect(columns.at, ")") ELSE 0,
         CreateTable(if, name.tree, columns.tree))

Insert(i) ==
  LET table == Ident(Expect(i + 1, "INTO"))
      names == List("name", table.at + 1)
      given == Peek(table.at) = "("
      rows == List("row", Expect(IF given THEN Expect(names.at, ")") ELSE table.at, "VALUES"))
  IN  At(rows.at, InsertStmt(table.tree, IF given THEN names.tree ELSE <<>>, rows.tree))

Update(i) ==
  LET table == Ident(i + 1)
      sets == List("assignment", Expect(table.at, "SET"))
      where == ExprAfter("WHERE", sets.at)
  IN  At(where.at, UpdateStmt(table.tree, sets.tree, where.tree))

Delete(i) ==
  LET table == Ident(Expect(i + 1, "FROM"))
      where == ExprAfter("WHERE", table.at)
  IN  At(where.at, DeleteStmt(table.tree, where.tree))

\* parse_transaction_stmt, and COMMIT, ROLLBACK, SAVEPOINT and RELEASE.
Begin(i) ==
  LET kinds == {"DEFERRED", "IMMEDIATE", "EXCLUSIVE"}
      kind == IF Peek(i + 1) \in kinds THEN Peek(i + 1) ELSE "DEFERRED"
  IN  At(ConsumeIf(IF Peek(i + 1) \in kinds THEN i + 2 ELSE i + 1, "TRANSACTION"),
         [k |-> "begin", kind |-> kind])

Commit(i) == At(ConsumeIf(i + 1, "TRANSACTION"), [k |-> "commit"])

Rollback(i) ==
  LET to == ConsumeIf(i + 1, "TRANSACTION")
      name == Ident(ConsumeIf(to + 1, "SAVEPOINT"))
  IN  IF Peek(to) = "TO" THEN At(name.at, [k |-> "rollback", to |-> name.tree])
      ELSE At(to, [k |-> "rollback", to |-> NoName])

Savepoint(i) == LET name == Ident(i + 1) IN At(name.at, [k |-> "savepoint", name |-> name.tree])

Release(i) ==
  LET name == Ident(ConsumeIf(i + 1, "SAVEPOINT"))
  IN  At(name.at, [k |-> "release", name |-> name.tree])

ParseStmt(i) ==
  CASE Peek(i) = "SELECT" -> Select(i)
    [] Peek(i) = "CREATE" -> Create(i)
    [] Peek(i) = "INSERT" -> Insert(i)
    [] Peek(i) = "UPDATE" -> Update(i)
    [] Peek(i) = "DELETE" -> Delete(i)
    [] Peek(i) = "BEGIN" -> Begin(i)
    [] Peek(i) = "COMMIT" -> Commit(i)
    [] Peek(i) = "ROLLBACK" -> Rollback(i)
    [] Peek(i) = "SAVEPOINT" -> Savepoint(i)
    [] Peek(i) = "RELEASE" -> Release(i)
    [] OTHER -> At(0, NoExpr)

-----------------------------------------------------------------------------
(* parse_all. *)

Parses(tokens) == input = tokens /\ at = 1 /\ stmts = <<>> /\ failed = FALSE

Finished == failed \/ at > Len(input)

ParseNext ==
  /\ ~Finished
  /\ \E stmt \in {ParseStmt(at)} :
       IF stmt.at = 0
       THEN failed' = TRUE /\ UNCHANGED <<at, stmts>>
       ELSE /\ stmts' = Append(stmts, stmt.tree)
            /\ at' = ConsumeIf(stmt.at, ";")
            /\ UNCHANGED failed
  /\ UNCHANGED input
=============================================================================
