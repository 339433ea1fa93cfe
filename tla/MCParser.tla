------------------------------ MODULE MCParser ------------------------------
(***************************************************************************)
(* Scripts for Grammar: every expression of two levels, every SELECT of    *)
(* some clauses, pairs of statements of all kinds, and damaged statements. *)
(***************************************************************************)
EXTENDS Grammar

MCLegible == {"1", "2"}

N(text) == Name(text, FALSE)
a == Column(N("a"))
b == Column(Name("b", TRUE))
one == Literal("Integer", "1")

Operators == {"OR", "AND", "=", "<", "+", "*"}

Leaves == {a, one}
Simple == Leaves \cup {Binary(op, l, r) : op \in Operators, l \in Leaves, r \in Leaves}
Exprs2 == Simple \cup {Binary(op, l, r) : op \in Operators, l \in Simple, r \in Simple}

Of(e) == SelectStmt(FALSE, << ResultColumn(e, NoName) >>, <<>>, NoExpr, <<>>, NoExpr, <<>>,
               LimitClause(NoExpr, NoExpr))

count == FunctionCall(N("count"), "star", <<>>)
none == FunctionCall(N("f"), "none", <<>>)
of == FunctionCall(N("f"), "list", << Binary("OR", a, one), none, Literal("StringLit", "s") >>)

T(name, alias) == TableRef(N(name), alias)

Queries ==
  {SelectStmt(distinct, columns, from, where, group, having, order, limit) :
     distinct \in BOOLEAN,
     columns \in { << Star >>, << ResultColumn(count, N("c")), ResultColumn(of, NoName) >> },
     from \in { <<>>, << T("t", NoName) >>, << T("t", N("x")), T("u", NoName) >> },
     where \in {NoExpr, Binary("AND", Binary("<", a, one), b)},
     group \in { <<>>, << a, one >> },
     having \in {NoExpr, Binary("<>", count, one)},
     order \in { <<>>, << OrderingTerm(a, TRUE, "default"), OrderingTerm(one, FALSE, "LAST") >> },
     limit \in {LimitClause(NoExpr, NoExpr), LimitClause(one, NoExpr), LimitClause(one, a)}}

Creation(if) ==
  CreateTable(if, N("t"),
    << Defined(N("a"), N("INT"), << PrimaryKey("DESC", TRUE), NotNull >>),
       Defined(N("b"), NoName, << PrimaryKey("", FALSE) >>), Defined(N("c"), NoName, <<>>) >>)

Others ==
  { Creation(TRUE), Creation(FALSE),
    InsertStmt(N("t"), << N("a"), N("b") >>, << <<one, a>>, <<of>> >>),
    InsertStmt(N("t"), <<>>, << << Literal("NULL", "") >> >>),
    UpdateStmt(N("t"), << Assigned(N("a"), Binary("=", a, one)), Assigned(N("b"), one) >>,
               Binary("=", a, one)),
    DeleteStmt(N("t"), NoExpr), DeleteStmt(N("t"), a),
    [k |-> "begin", kind |-> "DEFERRED"], [k |-> "begin", kind |-> "EXCLUSIVE"],
    [k |-> "commit"],
    [k |-> "rollback", to |-> NoName], [k |-> "rollback", to |-> N("p")],
    [k |-> "savepoint", name |-> N("p")], [k |-> "release", name |-> N("p")] }

Full == SelectStmt(TRUE, << Star, ResultColumn(Binary("+", one, of), Name("c", TRUE)) >>,
              << T("t", N("x")) >>, Binary("AND", Binary("<", a, one), b), << a >>,
              Binary("<>", count, one), << OrderingTerm(a, TRUE, "FIRST") >>, LimitClause(one, a))

Scripts ==
  { << Of(e) >> : e \in Exprs2 } \cup { << q >> : q \in Queries } \cup (Others \X (Others \cup {Full}))

ParserInit ==
  \/ \E script \in Scripts, long \in BOOLEAN :
       Parses(SpelledScript(script, long)) /\ meant = [whole |-> TRUE, script |-> script]
  \/ \E stmt \in Others \cup {Full} : \E tokens \in Damaged(SpelledScript(<<stmt, DeleteStmt(N("t"), a)>>, FALSE)) :
       Parses(tokens) /\ meant = [whole |-> FALSE, script |-> <<>>]

ParserNext == ParseNext /\ UNCHANGED meant

ParserSpec == ParserInit /\ [][ParserNext]_gvars
=============================================================================
