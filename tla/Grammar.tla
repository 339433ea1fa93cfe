------------------------------ MODULE Grammar ------------------------------
(***************************************************************************)
(* How statements are spelled, in a short way without the words that may   *)
(* be left out and in a long way with all of them, and what it means for   *)
(* Parser to read them: a script goes in as tokens, whole or with one      *)
(* missing, repeated or replaced.                                          *)
(***************************************************************************)
EXTENDS Parser

VARIABLE meant \* the statements that were spelled, and whether as they should be

gvars == <<vars, meant>>

-----------------------------------------------------------------------------
Words(ts) == [i \in DOMAIN ts |-> Word(ts[i])]

Commas(parts) ==
  FlattenSeq([i \in DOMAIN parts |-> IF i = 1 THEN parts[i] ELSE Words(<<",">>) \o parts[i]])

InParens(tokens) == Words(<<"(">>) \o tokens \o Words(<<")">>)

Only(yes, tokens) == IF yes THEN tokens ELSE <<>>

\* A name where it may be quoted, and one where the quotes are part of it.
Identifier(name, long) == IF long THEN << Quoted(name.text) >> ELSE << Text("Ident", name.text) >>
AsWritten(name) == << [Text("Ident", name.text) EXCEPT !.quoted = name.quoted] >>

\* Operators that bind tighter come later.
Rank(e) ==
  IF e.k # "binary" THEN 6
  ELSE CHOOSE r \in 1 .. 5 :
         e.op \in << {"OR"}, {"AND"}, Comparisons, {"+", "-"}, {"*", "/", "%"} >>[r]

RECURSIVE Spelled(_, _)
Spelled(e, long) ==
  LET operand(x, loose) == IF loose \/ (long /\ x.k = "binary") THEN InParens(Spelled(x, long))
                           ELSE Spelled(x, long)
      operator == CASE long /\ e.op = "=" -> "==" [] long /\ e.op = "<>" -> "!=" [] OTHER -> e.op
  IN  CASE e.k = "none" -> <<>>
        [] e.k = "star" -> Words(<<"*">>)
        [] e.k = "literal" -> << Text(e.type, e.text) >>
        [] e.k = "column" -> AsWritten(e.name)
        [] e.k = "function" ->
             AsWritten(e.name) \o InParens(
               IF e.form = "star" THEN Words(<<"*">>)
               ELSE Commas([i \in DOMAIN e.args |-> Spelled(e.args[i], long)]))
        [] e.k = "binary" ->
             operand(e.l, Rank(e.l) < Rank(e)) \o Words(<<operator>>)
               \o operand(e.r, Rank(e.r) <= Rank(e))
        [] e.k = "result" ->
             Spelled(e.expr, long) \o Only(e.alias # NoName, Only(long /\ ~e.alias.quoted, Words(<<"AS">>))
                                             \o AsWritten([e.alias EXCEPT !.quoted = @ \/ long]))

Clause(words, tokens) == Only(tokens # <<>>, Words(words) \o tokens)

Exprs(es, long) == Commas([i \in DOMAIN es |-> Spelled(es[i], long)])

SpelledTerm(term, long) ==
  Spelled(term.expr, long)
    \o Words(CASE term.desc -> <<"DESC">> [] ~term.desc /\ long -> <<"ASC">> [] OTHER -> <<>>)
    \o Only(term.nulls # "default", Words(<<"NULLS", term.nulls>>))

SpelledTable(table, long) ==
  Identifier(table.name, long)
    \o Only(table.alias # NoName, Only(long, Words(<<"AS">>)) \o Identifier(table.alias, long))

SpelledLimit(limit, long) ==
  IF long /\ limit.offset # NoExpr
  THEN Words(<<"LIMIT">>) \o Exprs(<<limit.offset, limit.limit>>, long)
  ELSE Clause(<<"LIMIT">>, Spelled(limit.limit, long))
         \o Clause(<<"OFFSET">>, Spelled(limit.offset, long))

SpelledSelect(s, long) ==
  Words(<<"SELECT">> \o CASE s.distinct -> <<"DISTINCT">> [] ~s.distinct /\ long -> <<"ALL">> [] OTHER -> <<>>)
    \o Exprs(s.columns, long)
    \o Clause(<<"FROM">>, Commas([i \in DOMAIN s.from |-> SpelledTable(s.from[i], long)]))
    \o Clause(<<"WHERE">>, Spelled(s.where, long))
    \o Clause(<<"GROUP", "BY">>, Exprs(s.group, long))
    \o Clause(<<"HAVING">>, Spelled(s.having, long))
    \o Clause(<<"ORDER", "BY">>, Commas([i \in DOMAIN s.order |-> SpelledTerm(s.order[i], long)]))
    \o SpelledLimit(s.limit, long)

SpelledConstraint(c) ==
  IF c.k = "not null" THEN Words(<<"NOT", "NULL">>)
  ELSE Words(<<"PRIMARY", "KEY">> \o (IF c.direction = "" THEN <<>> ELSE <<c.direction>>)
               \o (IF c.autoincrement THEN <<"AUTOINCREMENT">> ELSE <<>>))

SpelledDefinition(d, long) ==
  Identifier(d.name, long) \o Only(d.type # NoName, AsWritten(d.type))
    \o FlattenSeq([i \in DOMAIN d.constraints |-> SpelledConstraint(d.constraints[i])])

SpelledStmt(s, long) ==
  LET noise(t) == Only(long, Words(<<t>>))
  IN  CASE s.k = "select" -> SpelledSelect(s, long)
        [] s.k = "create" ->
             Words(<<"CREATE", "TABLE">>) \o Only(s.if, Words(<<"IF", "NOT", "EXISTS">>))
               \o Identifier(s.name, long)
               \o InParens(Commas([i \in DOMAIN s.columns |-> SpelledDefinition(s.columns[i], long)]))
        [] s.k = "insert" ->
             Words(<<"INSERT", "INTO">>) \o Identifier(s.table, long)
               \o Only(s.columns # <<>>,
                       InParens(Commas([i \in DOMAIN s.columns |-> Identifier(s.columns[i], long)])))
               \o Words(<<"VALUES">>)
               \o Commas([i \in DOMAIN s.rows |-> InParens(Exprs(s.rows[i], long))])
        [] s.k = "update" ->
             Words(<<"UPDATE">>) \o Identifier(s.table, long) \o Words(<<"SET">>)
               \o Commas([i \in DOMAIN s.sets |-> Identifier(s.sets[i].column, long)
                             \o Words(<<"=">>) \o Spelled(s.sets[i].value, long)])
               \o Clause(<<"WHERE">>, Spelled(s.where, long))
        [] s.k = "delete" ->
             Words(<<"DELETE", "FROM">>) \o Identifier(s.table, long)
               \o Clause(<<"WHERE">>, Spelled(s.where, long))
        [] s.k = "begin" ->
             Words(<<"BEGIN">>) \o Only(long \/ s.kind # "DEFERRED", Words(<<s.kind>>))
               \o noise("TRANSACTION")
        [] s.k = "commit" -> Words(<<"COMMIT">>) \o noise("TRANSACTION")
        [] s.k = "rollback" ->
             Words(<<"ROLLBACK">>) \o noise("TRANSACTION")
               \o Only(s.to # NoName, Words(<<"TO">>) \o noise("SAVEPOINT") \o Identifier(s.to, long))
        [] s.k = "savepoint" -> Words(<<"SAVEPOINT">>) \o Identifier(s.name, long)
        [] s.k = "release" ->
             Words(<<"RELEASE">>) \o noise("SAVEPOINT") \o Identifier(s.name, long)

\* Statements follow one another with semicolons or without.
SpelledScript(script, long) ==
  FlattenSeq([i \in DOMAIN script |-> SpelledStmt(script[i], long) \o Only(long, Words(<<";">>))])

\* One token is missing or there twice, or another stands in its place.
Damaged(tokens) ==
  {RemoveAt(tokens, i) : i \in DOMAIN tokens} \cup
  {InsertAt(tokens, i, tokens[i]) : i \in DOMAIN tokens} \cup
  {[tokens EXCEPT ![i] = Word(t)] : i \in DOMAIN tokens, t \in Keywords \cup Punctuation}

-----------------------------------------------------------------------------
(* Properties. *)

\* Statements are read as they were meant, whether spelled in the short way
\* or in the long: operators group by rank and from the left, clauses come to
\* the right fields, and each statement ends where the next begins (parse_all).
ReadsBack ==
  meant.whole => /\ ~failed
                 /\ IsPrefix(stmts, meant.script)
                 /\ Finished => stmts = meant.script

\* What a token is, without the quotes and the choice between two spellings.
Essence(token) == << ToBinaryOp(token.t), token.text >>

Noise == {"(", ")", ";", "AS", "ASC", "ALL", "DEFERRED", "TRANSACTION", "SAVEPOINT"}

Bare(tokens) ==
  LET kept == SelectSeq(tokens, LAMBDA token : token.t \notin Noise)
  IN  [i \in DOMAIN kept |-> Essence(kept[i])]

\* The parser accepts no token that it does not account for: what it has read
\* of a damaged script spells the statements it has returned, word for word,
\* but for the words that mean nothing (expect, consume_if).
NothingSkipped ==
  ~meant.whole =>
    \E long \in [DOMAIN stmts -> BOOLEAN] :
      Bare(SubSeq(input, 1, at - 1)) = FlattenSeq([i \in DOMAIN stmts |-> Bare(SpelledStmt(stmts[i], long[i]))])
=============================================================================
