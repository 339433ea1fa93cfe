-------------------------- MODULE CInterfaceProofs --------------------------
(***************************************************************************)
(* Connection and CInterface for any tables, rows, handles and number of   *)
(* commits and rollbacks that fail: in_txn and the pager's state agree,    *)
(* the text that a caller has a pointer to is that of the row its          *)
(* statement is on, the tables of the schema keep their pages, statements  *)
(* and transactions are those of Database, and undisturbed scans see every *)
(* row.                                                                    *)
(***************************************************************************)
EXTENDS CInterface, SequenceTheorems, FiniteSetTheorems, TLAPS

-----------------------------------------------------------------------------
(* Transactions.  That a pager left in Writer without BEGIN comes from a   *)
(* failure is inductive once faults is a number.  A pager that is not in   *)
(* Writer has a journal that nothing can go wrong with.                    *)

AgreeInv ==
  /\ inTxn => writer
  /\ ~writer => working = committed /\ journal = "whole"
  /\ writer /\ ~inTxn => faults > 0
  /\ \A p \in DOMAIN working \ dirty : working[p] = Original(committed, p)
  /\ faults \in Nat

\* Statements run without a write transaction change no page.
LEMMA ReadersChangeNothing ==
  ASSUME NEW s \in Statements, NEW root, NEW pages
  PROVE  Run(s, root, pages, FALSE).pages = pages
  BY DEF Run, Failing, Done, Statements

LEMMA OneMoreFault == ASSUME NEW n \in Nat PROVE n + 1 \in Nat /\ n + 1 > 0
  OBVIOUS

\* What the pager does keeps every page that is not dirty as it was committed.
LEMMA PagerSteps ==
  ASSUME AgreeInv, NEW pages
  PROVE  /\ Writes(pages) /\ (~writer => pages = working) /\ UNCHANGED inTxn => AgreeInv'
         /\ Saved(pages) /\ inTxn' = FALSE => AgreeInv'
         /\ Unsaved(pages) /\ UNCHANGED inTxn => AgreeInv'
         /\ RolledBack(pages) /\ inTxn' = FALSE => AgreeInv'
         /\ RolledHalfBack(pages) /\ UNCHANGED inTxn => AgreeInv'
         /\ Lost(pages) /\ UNCHANGED inTxn => AgreeInv'
  <1>0. faults + 1 \in Nat /\ faults + 1 > 0
    BY OneMoreFault DEF AgreeInv
  <1>1. ASSUME NEW p \in DOMAIN pages, p \notin dirty \cup Touched(pages)
        PROVE  pages[p] = Original(committed, p)
    BY <1>1 DEF AgreeInv, Touched
  <1>2. ASSUME Writes(pages), ~writer => pages = working, UNCHANGED inTxn PROVE AgreeInv'
    <2>1. \A p \in DOMAIN working' \ dirty' : working'[p] = Original(committed', p)
      BY <1>1, <1>2 DEF Writes
    <2>2. ~writer => journal' = "whole"
      BY <1>2 DEF Writes, Journal, AgreeInv
    <2> QED
      BY <1>2, <2>1, <2>2 DEF Writes, AgreeInv
  <1>3. ASSUME Saved(pages), inTxn' = FALSE PROVE AgreeInv'
    BY <1>3 DEF Saved, Ended, AgreeInv, Original
  <1>4. ASSUME Unsaved(pages), UNCHANGED inTxn PROVE AgreeInv'
    <2>1. \A p \in DOMAIN working' \ dirty' : working'[p] = Original(committed', p)
      BY <1>1, <1>4 DEF Unsaved
    <2>2. writer' = TRUE /\ faults' = faults + 1
      BY <1>4 DEF Unsaved
    <2> QED
      BY <1>0, <1>4, <2>1, <2>2, Zenon DEF AgreeInv
  <1>5. ASSUME RolledBack(pages), inTxn' = FALSE PROVE AgreeInv'
    BY <1>5 DEF RolledBack, Ended, AgreeInv, Original
  <1>6. ASSUME RolledHalfBack(pages), UNCHANGED inTxn PROVE AgreeInv'
    <2>1. PICK S : /\ working' = Restored(committed, pages, S)
                   /\ dirty' = (dirty \cup Touched(pages)) \ S
      BY <1>6 DEF RolledHalfBack
    <2>2. \A p \in DOMAIN working' \ dirty' : working'[p] = Original(committed', p)
      BY <1>1, <1>6, <2>1 DEF RolledHalfBack, Restored
    <2>3. writer' = TRUE /\ faults' = faults + 1
      BY <1>6 DEF RolledHalfBack
    <2> QED
      BY <1>0, <1>6, <2>2, <2>3, Zenon DEF AgreeInv
  <1>7. ASSUME Lost(pages), UNCHANGED inTxn PROVE AgreeInv'
    BY <1>7 DEF Lost, Journal, AgreeInv
  <1> QED
    BY <1>2, <1>3, <1>4, <1>5, <1>6, <1>7

LEMMA AgreeStep == AgreeInv /\ [Next]_vars => AgreeInv'
  <1> SUFFICES ASSUME AgreeInv, [Next]_vars PROVE AgreeInv'
    OBVIOUS
  <1>1. CASE Begin
    BY <1>1 DEF Begin, AgreeInv
  <1>2. CASE Commit
    BY <1>2, PagerSteps DEF Commit
  <1>3. CASE Rollback
    BY <1>3, PagerSteps DEF Rollback, Left
  <1>4. ASSUME NEW s \in Statements, Execute(s)
        PROVE  AgreeInv'
    <2>1. CASE inTxn
      <3>1. Writes(Run(s, RootOf(s), working, writer).pages) /\ writer /\ UNCHANGED inTxn
        BY <1>4, <2>1 DEF Execute, ExecuteInside, AgreeInv
      <3> QED
        BY <3>1, PagerSteps
    <2>2. CASE ~inTxn
      <3>1. inTxn' = FALSE /\ UNCHANGED inTxn /\ ExecuteAlone(s)
        BY <1>4, <2>2 DEF Execute
      <3> QED
        BY <3>1, PagerSteps DEF ExecuteAlone, Undone
    <2> QED BY <2>1, <2>2
  <1>5. CASE UNCHANGED <<pager, inTxn>>
    BY <1>5 DEF pager, AgreeInv
  <1>6. ASSUME NEW h \in Handles, Step(h)
        PROVE  AgreeInv'
    <2>1. CASE StepSelect(h)
      BY <1>5, <2>1 DEF StepSelect, store
    <2>2. CASE StepInsert(h)
      <3>1. UNCHANGED inTxn /\ (UNCHANGED pager \/ \E pages : writer /\ Writes(pages))
        BY <2>2 DEF StepInsert
      <3> QED
        BY <1>5, <3>1, PagerSteps
    <2> QED BY <1>6, <2>1, <2>2 DEF Step
  <1>7. CASE UNCHANGED store
    BY <1>5, <1>7 DEF store
  <1> QED
    BY <1>1, <1>2, <1>3, <1>4, <1>6, <1>7
    DEF Next, Transact, Reset, Finalize, Prepare, vars

\* Every call of the C interface is a step of the connection, or none.
LEMMA CallsAreSteps == [CNext]_cvars => [Next]_vars
  BY DEF CNext, cvars, Exec, PrepareV2, StepStatement, ResetStatement, FinalizeStatement,
         ColumnText, Next

\* After BEGIN, in_txn and the pager agree until COMMIT or ROLLBACK, a pager
\* left in Writer comes from a commit or a rollback that failed, and what it
\* sees otherwise than it was committed is dirty.
THEOREM TransactionsStayAgreed == CSpec => []TransactionsAgree
  <1>1. CInit => AgreeInv
    BY DEF CInit, Init, AgreeInv, Original
  <1>2. AgreeInv /\ [CNext]_cvars => AgreeInv'
    BY AgreeStep, CallsAreSteps
  <1>3. AgreeInv => TransactionsAgree
    BY DEF AgreeInv, TransactionsAgree
  <1> QED BY <1>1, <1>2, <1>3, PTL DEF CSpec

-----------------------------------------------------------------------------
(* Texts.  sqlite3_column_text takes the value of the row, so the rows of  *)
(* all statements must be rows of one value; that they stay so depends on  *)
(* where each statement is in its program.                                 *)

Counters(op) == IF op = "select" THEN {"start", "column", "row", "next", "halt"}
                ELSE {"start", "insert", "halt"}

RowStands(st) ==
  /\ DOMAIN st = {"op", "root", "pc", "at", "reg", "row", "done"}
  /\ st.pc \in Counters(st.op) /\ st.at \in Nat
  /\ st.row = <<>> \/ \E v : st.row = <<v>>

RowsStand == stmt = [h \in Handles |-> stmt[h]] /\ \A h \in Handles : Live(h) => RowStands(stmt[h])

TextInv == RowsStand /\ text = [h \in Handles |-> text[h]] /\ TextIsOfRow

LEMMA SelectKeepsRow ==
  ASSUME NEW st, RowStands(st), st.op = "select"
  PROVE  RowStands(Select(st))
  <1>1. ASSUME NEW i \in Nat, NEW v PROVE RowStands(Yield(st, i, v))
    BY DEF RowStands, Yield, Counters
  <1>2. RowStands(Finish(st))
    BY DEF RowStands, Finish, Counters
  <1>3. ASSUME NEW pc \in Counters("select") PROVE RowStands(Err(st, pc))
    BY DEF RowStands, Err
  <1>4. st.pc \in Counters("select") /\ st.at \in Nat /\ NextRow(st) \in Nat
    BY DEF RowStands, NextRow
  <1> DEFINE rows == working[st.root]
             From(i) == IF i \in DOMAIN rows THEN Yield(st, i, rows[i].val) ELSE Finish(st)
  <1>5. ASSUME NEW i \in Nat PROVE RowStands(From(i))
    BY <1>1, <1>2
  <1> HIDE DEF From
  <1>6. CASE st.pc = "start"
    <2>1. Select(st) = From(1) \/ Select(st) = Err(st, "column")
      BY <1>6 DEF Select, From
    <2> QED BY <2>1, <1>3, <1>5 DEF Counters
  <1>7. CASE st.pc = "column"
    <2>1. Select(st) = Err(st, "row")
      BY <1>7 DEF Select
    <2> QED BY <2>1, <1>3 DEF Counters
  <1>8. CASE st.pc = "row"
    <2>1. Select(st) = Yield(st, 0, st.reg)
      BY <1>8 DEF Select
    <2> QED BY <2>1, <1>1
  <1>9. CASE st.pc = "next"
    <2>1. CASE st.at = 0
      BY <1>2, <1>9, <2>1 DEF Select
    <2>2. CASE st.at > 0
      <3>1. Select(st) = From(NextRow(st)) \/ Select(st) = Err(st, "halt")
        BY <1>9, <2>2, <1>4 DEF Select, From
      <3> QED BY <3>1, <1>3, <1>4, <1>5 DEF Counters
    <2> QED BY <2>1, <2>2, <1>4
  <1>10. CASE st.pc = "halt"
    <2>1. Select(st) = Finish(st)
      BY <1>10 DEF Select
    <2> QED BY <2>1, <1>2
  <1> QED BY <1>4, <1>6, <1>7, <1>8, <1>9, <1>10 DEF Counters

LEMMA OnlyOneHandle ==
  ASSUME RowsStand, NEW h \in Handles, NEW new,
         stmt' = [stmt EXCEPT ![h] = new], new = Finalized \/ RowStands(new)
  PROVE  RowsStand'
  <1>1. stmt' = [g \in Handles |-> stmt'[g]] /\ stmt'[h] = new
    BY DEF RowsStand
  <1>2. ASSUME NEW g \in Handles, g # h PROVE stmt'[g] = stmt[g]
    BY <1>2 DEF RowsStand
  <1>3. ASSUME NEW g \in Handles, stmt'[g] # Finalized PROVE RowStands(stmt'[g])
    BY <1>1, <1>2, <1>3 DEF RowsStand, Live
  <1>4. ASSUME NEW g \in Handles, stmt'[g] # Finalized PROVE RowStands(stmt[g])'
    BY <1>3, <1>4 DEF RowStands
  <1> QED BY <1>1, <1>4 DEF RowsStand, Live

\* What a step makes of an INSERT.
Inserting(st) ==
  {Finish(st), Err(st, "insert")} \cup
  {[Finish(st) EXCEPT !.reg = r] : r \in DOMAIN Vals} \cup
  {[Err(st, "halt") EXCEPT !.reg = r] : r \in {st.reg, NewRowid(working[st.root])}}

LEMMA InsertingSteps ==
  ASSUME NEW h \in Handles, StepInsert(h)
  PROVE  /\ \E new \in Inserting(stmt[h]) : stmt' = [stmt EXCEPT ![h] = new]
         /\ stmt[h].op = "insert"
  BY Zenon DEF StepInsert, Inserting

LEMMA InsertingStands ==
  ASSUME NEW st, RowStands(st), st.op = "insert", NEW new \in Inserting(st)
  PROVE  RowStands(new) /\ new.op = "insert" /\ new.root = st.root
  <1>1. ASSUME NEW pc \in {"insert", "halt"}
        PROVE  /\ DOMAIN Err(st, pc) = DOMAIN st /\ Err(st, pc).pc = pc /\ Err(st, pc).op = st.op
               /\ Err(st, pc).at = st.at /\ Err(st, pc).row = st.row /\ Err(st, pc).root = st.root
    BY DEF Err, RowStands
  <1>2. /\ DOMAIN Finish(st) = DOMAIN st /\ Finish(st).pc = "halt" /\ Finish(st).op = st.op
        /\ Finish(st).at = st.at /\ Finish(st).row = <<>> /\ Finish(st).root = st.root
    BY DEF Finish, RowStands
  <1>3. ASSUME NEW old, RowStands(old), old.op = "insert", old.root = st.root, NEW r
        PROVE  LET x == [old EXCEPT !.reg = r]
               IN  RowStands(x) /\ x.op = "insert" /\ x.root = st.root
    BY <1>3 DEF RowStands
  <1>4. RowStands(Finish(st)) /\ RowStands(Err(st, "insert")) /\ RowStands(Err(st, "halt"))
    BY <1>1, <1>2 DEF RowStands, Counters
  <1>5. \/ new = Finish(st) \/ new = Err(st, "insert")
        \/ \E old \in {Finish(st), Err(st, "halt")} : \E r : new = [old EXCEPT !.reg = r]
    BY DEF Inserting
  <1>6. ASSUME NEW old \in {Finish(st), Err(st, "halt")}
        PROVE  RowStands(old) /\ old.op = "insert" /\ old.root = st.root
    BY <1>1, <1>2, <1>4, <1>6
  <1>7. ASSUME NEW old \in {Finish(st), Err(st, "halt")}, NEW r, new = [old EXCEPT !.reg = r]
        PROVE  RowStands(new) /\ new.op = "insert" /\ new.root = st.root
    <2>1. RowStands(old) /\ old.op = "insert" /\ old.root = st.root
      BY <1>6
    <2> QED
      BY <1>3, <1>7, <2>1
  <1>8. /\ Finish(st).op = "insert" /\ Finish(st).root = st.root
        /\ Err(st, "insert").op = "insert" /\ Err(st, "insert").root = st.root
    BY <1>1, <1>2
  <1> QED
    BY <1>4, <1>5, <1>7, <1>8, Zenon

\* What each operation makes of its statement.
LEMMA StatementSteps ==
  ASSUME RowsStand, NEW h \in Handles,
         Step(h) \/ Reset(h) \/ Finalize(h) \/ \E t \in Names, op \in {"select", "insert"} : Prepare(h, op, t)
  PROVE  \E new : stmt' = [stmt EXCEPT ![h] = new] /\ (new = Finalized \/ RowStands(new))
  <1>0. Live(h) => RowStands(stmt[h])
    BY DEF RowsStand
  <1>1. CASE Live(h) /\ StepSelect(h)
    <2>1. RowStands(Select(stmt[h]))
      BY <1>0, <1>1, SelectKeepsRow DEF StepSelect
    <2> QED BY <1>1, <2>1 DEF StepSelect
  <1>2. CASE Live(h) /\ StepInsert(h)
    <2>1. RowStands(stmt[h]) /\ stmt[h].op = "insert"
      BY <1>0, <1>2 DEF StepInsert
    <2>2. PICK new \in Inserting(stmt[h]) : stmt' = [stmt EXCEPT ![h] = new]
      BY <1>2, InsertingSteps
    <2> QED BY <2>1, <2>2, InsertingStands
  <1>3. CASE Reset(h)
    <2> DEFINE st == stmt[h]
               new == [st EXCEPT !.pc = "start", !.at = 0, !.row = <<>>, !.done = FALSE]
    <2>1. RowStands(st)
      BY <1>0, <1>3 DEF Reset
    <2>2. DOMAIN new = DOMAIN st /\ new.pc = "start" /\ new.at = 0 /\ new.row = <<>> /\ new.op = st.op
      BY <2>1, SMT DEF RowStands
    <2>3. RowStands(new)
      BY <2>1, <2>2 DEF RowStands, Counters
    <2>4. stmt' = [stmt EXCEPT ![h] = new]
      BY <1>3 DEF Reset
    <2> QED BY <2>3, <2>4
  <1>4. CASE Finalize(h)
    BY <1>4 DEF Finalize
  <1>5. ASSUME NEW t \in Names, NEW op \in {"select", "insert"}, Prepare(h, op, t)
        PROVE  \E new : stmt' = [stmt EXCEPT ![h] = new] /\ RowStands(new)
    <2>1. RowStands(Prepared(op, schema[t]))
      BY DEF RowStands, Prepared, Counters
    <2> QED BY <1>5, <2>1 DEF Prepare
  <1> QED BY <1>1, <1>2, <1>3, <1>4, <1>5 DEF Step

\* A call of one handle leaves the other statements and their texts alone.
LEMMA OtherTexts ==
  ASSUME TextInv, NEW h \in Handles, NEW new, NEW t,
         stmt' = [stmt EXCEPT ![h] = new], text' = [text EXCEPT ![h] = t],
         t # NoText => new # Finalized /\ new.row = <<t>>
  PROVE  text' = [g \in Handles |-> text'[g]] /\ TextIsOfRow'
  <1>1. stmt'[h] = new /\ text'[h] = t /\ text' = [g \in Handles |-> text'[g]]
    BY DEF TextInv, RowsStand
  <1>2. ASSUME NEW g \in Handles, g # h PROVE stmt'[g] = stmt[g] /\ text'[g] = text[g]
    BY <1>2 DEF TextInv, RowsStand
  <1>3. ASSUME NEW g \in Handles, text'[g] # NoText
        PROVE  stmt'[g] # Finalized /\ stmt'[g].row = <<text'[g]>>
    <2>1. CASE g = h
      BY <1>1, <1>3, <2>1
    <2>2. CASE g # h
      BY <1>2, <1>3, <2>2 DEF TextInv, TextIsOfRow, Live
    <2> QED BY <2>1, <2>2
  <1> QED BY <1>1, <1>3 DEF TextIsOfRow, Live

LEMMA TextStep == TextInv /\ [CNext]_cvars => TextInv'
  <1> SUFFICES ASSUME TextInv, [CNext]_cvars PROVE TextInv'
    OBVIOUS
  <1>1. CASE UNCHANGED <<stmt, text>>
    BY <1>1 DEF TextInv, RowsStand, RowStands, TextIsOfRow, Live
  <1>2. CASE Exec
    <2>1. UNCHANGED <<stmt, text>>
      BY <1>2 DEF Exec, Transact, Begin, Commit, Rollback, Execute
    <2> QED BY <1>1, <2>1
  <1>3. ASSUME NEW h \in Handles, PrepareV2(h) PROVE TextInv'
    <2>1. PICK t \in Names, op \in {"select", "insert"} : Prepare(h, op, t)
      BY <1>3 DEF PrepareV2
    <2>2. PICK new : stmt' = [stmt EXCEPT ![h] = new] /\ (new = Finalized \/ RowStands(new))
      BY <2>1, StatementSteps DEF TextInv
    <2>3. text[h] = NoText /\ text' = text
      BY <1>3, <2>1 DEF PrepareV2, Prepare, TextInv, TextIsOfRow, Live
    <2>4. text' = [text EXCEPT ![h] = NoText]
      BY <2>3 DEF TextInv
    <2> QED BY <2>2, <2>4, OnlyOneHandle, OtherTexts DEF TextInv
  <1>4. ASSUME NEW h \in Handles, StepStatement(h) \/ ResetStatement(h) \/ FinalizeStatement(h)
        PROVE  TextInv'
    <2>1. text' = [text EXCEPT ![h] = NoText]
      BY <1>4 DEF StepStatement, ResetStatement, FinalizeStatement, Cleared
    <2>2. \E new : stmt' = [stmt EXCEPT ![h] = new] /\ (new = Finalized \/ RowStands(new))
      <3>1. CASE Live(h) /\ UNCHANGED vars
        <4>1. stmt' = [stmt EXCEPT ![h] = stmt[h]] /\ RowStands(stmt[h])
          BY <3>1 DEF vars, TextInv, RowsStand
        <4> QED BY <4>1
      <3>2. CASE Step(h) \/ Reset(h) \/ Finalize(h)
        BY <3>2, StatementSteps DEF TextInv
      <3> QED BY <1>4, <3>1, <3>2 DEF StepStatement, ResetStatement, FinalizeStatement
    <2> QED BY <2>1, <2>2, OnlyOneHandle, OtherTexts DEF TextInv
  <1>5. ASSUME NEW h \in Handles, ColumnText(h) PROVE TextInv'
    <2> DEFINE t == stmt[h].row[1]
    <2>1. RowStands(stmt[h]) /\ stmt[h] # Finalized
      BY <1>5 DEF ColumnText, TextInv, RowsStand, Live
    <2>2. stmt[h].row = <<t>>
      BY <1>5, <2>1 DEF ColumnText, RowStands
    <2>3. stmt' = stmt /\ text' = [text EXCEPT ![h] = t]
      BY <1>5 DEF ColumnText, vars
    <2>4. stmt' = [stmt EXCEPT ![h] = stmt[h]]
      BY <2>3 DEF TextInv, RowsStand
    <2> QED BY <2>1, <2>2, <2>3, <2>4, OnlyOneHandle, OtherTexts DEF TextInv
  <1> QED BY <1>1, <1>2, <1>3, <1>4, <1>5 DEF CNext, cvars, vars

\* While a caller holds the text of a column, the statement is on the row
\* the text is of, whatever else was executed, stepped or finalized since.
THEOREM TextStaysOfRow == CSpec => []TextIsOfRow
  <1>1. CInit => TextInv
    BY DEF CInit, Init, TextInv, RowsStand, TextIsOfRow, Live
  <1>2. TextInv => TextIsOfRow
    BY DEF TextInv
  <1> QED BY <1>1, <1>2, TextStep, PTL DEF CSpec

-----------------------------------------------------------------------------
(* Tables.  What the schema knows and no ROLLBACK has made away with has a *)
(* page of its own that can be read -- among the committed pages too,      *)
(* unless a transaction was begun: a statement that fails outside of one   *)
(* goes back to them, or half-way.  That a page with rows is not a page of *)
(* zeros takes that its rows are a list.                                   *)

\* A list, whatever is on it.
IsList(pages) == \E S : pages \in Seq(S)

IsPages(pages) ==
  IsList(pages) /\ \A i \in DOMAIN pages : pages[i] = Blank \/ IsList(pages[i])

Standing == DOMAIN schema \ orphans

RootsKnown ==
  /\ \A t \in DOMAIN schema : t \in Names /\ schema[t] \in 1 .. MaxPages
  /\ \A h \in Handles : Live(h) => stmt[h].root \in 1 .. MaxPages /\ Names # {}

TablesApart ==
  \A t \in Standing :
    /\ Readable(working, schema[t])
    /\ \A u \in Standing \ {t} : schema[u] # schema[t]

TablesInv ==
  /\ IsPages(committed) /\ IsPages(working)
  /\ RootsKnown
  /\ TablesApart
  /\ ~inTxn => \A t \in Standing : Readable(committed, schema[t])

\* The empty list, a list of two, a longer one and a changed one are lists.
LEMMA ListFacts ==
  /\ IsList(<<>>)
  /\ \A a, b : IsList(<<a, b>>) /\ DOMAIN <<a, b>> = 1..2
  /\ \A pages, x : IsList(pages) =>
       /\ Len(pages) \in Nat /\ DOMAIN pages = 1..Len(pages)
       /\ IsList(Append(pages, x)) /\ DOMAIN Append(pages, x) = 1..(Len(pages) + 1)
  /\ \A pages, x : IsList(pages) => \A i \in DOMAIN pages :
       IsList([pages EXCEPT ![i] = x]) /\ DOMAIN [pages EXCEPT ![i] = x] = DOMAIN pages
  <1>1. IsList(<<>>)
    <2>1. <<>> \in Seq({})
      OBVIOUS
    <2> QED
      BY <2>1 DEF IsList
  <1>2. ASSUME NEW a, NEW b PROVE IsList(<<a, b>>) /\ DOMAIN <<a, b>> = 1..2
    <2>1. <<a, b>> \in Seq({a, b})
      OBVIOUS
    <2>2. DOMAIN <<a, b>> = 1..2
      OBVIOUS
    <2> QED
      BY <2>1, <2>2, Zenon DEF IsList
  <1>3. ASSUME NEW pages, NEW x, IsList(pages)
        PROVE  /\ Len(pages) \in Nat /\ DOMAIN pages = 1..Len(pages)
               /\ IsList(Append(pages, x)) /\ DOMAIN Append(pages, x) = 1..(Len(pages) + 1)
    <2>1. PICK S : pages \in Seq(S)
      BY <1>3 DEF IsList
    <2>2. pages \in Seq(S \cup {x})
      BY <2>1
    <2>3. Append(pages, x) \in Seq(S \cup {x}) /\ Len(Append(pages, x)) = Len(pages) + 1
      BY <2>2
    <2> QED
      BY <2>1, <2>3 DEF IsList
  <1>4. ASSUME NEW pages, NEW x, IsList(pages), NEW i \in DOMAIN pages
        PROVE  IsList([pages EXCEPT ![i] = x]) /\ DOMAIN [pages EXCEPT ![i] = x] = DOMAIN pages
    <2>1. PICK S : pages \in Seq(S)
      BY <1>4 DEF IsList
    <2>2. pages \in Seq(S \cup {x}) /\ i \in 1..Len(pages)
      BY <2>1
    <2>3. /\ [pages EXCEPT ![i] = x] \in Seq(S \cup {x})
          /\ Len([pages EXCEPT ![i] = x]) = Len(pages)
      BY <2>2, ExceptSeq
    <2> QED
      BY <2>2, <2>3 DEF IsList
  <1> QED
    BY <1>1, <1>2, <1>3, <1>4

LEMMA BlankIsNoList == ~IsList(Blank)
  <1> SUFFICES ASSUME IsList(Blank) PROVE FALSE
    OBVIOUS
  <1>1. Len(Blank) \in Nat /\ DOMAIN Blank = 1 .. Len(Blank)
    BY ListFacts
  <1>2. DOMAIN Blank = {0}
    BY DEF Blank
  <1>3. 0 \in 1 .. Len(Blank)
    BY <1>1, <1>2
  <1> QED
    BY <1>1, <1>3

LEMMA IndexedIsList ==
  ASSUME NEW n \in Nat, NEW f, f = [i \in 1 .. n |-> f[i]]
  PROVE  IsList(f)
  <1> DEFINE S == {f[i] : i \in 1 .. n}
  <1>1. f \in [1 .. n -> S]
    OBVIOUS
  <1> HIDE DEF S
  <1>2. f \in Seq(S)
    BY <1>1, SeqDef
  <1> QED
    BY <1>2 DEF IsList

LEMMA RowsOfListFinite ==
  ASSUME NEW rows, IsList(rows), NEW T \in SUBSET DOMAIN rows
  PROVE  Cardinality(T) \in Nat
  <1>1. Len(rows) \in Nat /\ DOMAIN rows = 1 .. Len(rows)
    BY ListFacts
  <1>2. IsFiniteSet(1 .. Len(rows))
    BY <1>1, FS_Interval
  <1>3. IsFiniteSet(T)
    BY <1>1, <1>2, FS_Subset
  <1> QED
    BY <1>3, FS_CardinalityType

\* An INSERT and a DELETE leave a list of rows.
LEMMA RowsStayList ==
  ASSUME NEW rows, IsList(rows), NEW v
  PROVE  IsList(With(rows, v)) /\ IsList(Without(rows, v))
  <1>1. IsList(With(rows, v))
    <2> DEFINE k == Cardinality({i \in DOMAIN rows : rows[i].rowid < v})
               row == [rowid |-> v, val |-> Vals[v]]
               S == {rows[i] : i \in Int} \cup {row}
    <2>1. k \in Nat /\ Len(rows) \in Nat
      <3>1. {i \in DOMAIN rows : rows[i].rowid < v} \in SUBSET DOMAIN rows
        OBVIOUS
      <3> QED
        BY <3>1, RowsOfListFinite, ListFacts
    <2>2. With(rows, v) = SubSeq(rows, 1, (k + 1) - 1) \o <<row>> \o SubSeq(rows, k + 1, Len(rows))
      BY DEF With, InsertAt
    <2> HIDE DEF k, row
    <2>3. ASSUME NEW m \in Int, NEW n \in Int PROVE SubSeq(rows, m, n) \in Seq(S)
      <3>1. \A i \in m .. n : rows[i] \in S
        OBVIOUS
      <3> HIDE DEF S
      <3> QED
        BY <3>1, SubSeqProperties
    <2>4. <<row>> \in Seq(S)
      OBVIOUS
    <2> HIDE DEF S
    <2>5. SubSeq(rows, 1, (k + 1) - 1) \in Seq(S) /\ SubSeq(rows, k + 1, Len(rows)) \in Seq(S)
      BY <2>1, <2>3
    <2>6. SubSeq(rows, 1, (k + 1) - 1) \o <<row>> \o SubSeq(rows, k + 1, Len(rows)) \in Seq(S)
      BY <2>4, <2>5, ConcatProperties
    <2> QED
      BY <2>2, <2>6 DEF IsList
  <1>2. IsList(Without(rows, v))
    <2> DEFINE kept == {i \in DOMAIN rows : rows[i].val # v}
               nth(k) == CHOOSE i \in kept : Cardinality(kept \cap 1 .. i) = k
    <2>1. PICK n \in Nat : n = Cardinality(kept)
      BY RowsOfListFinite
    <2>2. Without(rows, v) = [k \in 1 .. n |-> rows[nth(k)]]
      BY <2>1 DEF Without
    <2> HIDE DEF nth
    <2>3. Without(rows, v) = [k \in 1 .. n |-> Without(rows, v)[k]]
      BY <2>2
    <2> QED
      BY <2>3, IndexedIsList
  <1> QED
    BY <1>1, <1>2

\* A page gets other rows: it can still be read, and so can the others.
LEMMA PageChanged ==
  ASSUME NEW pages, IsPages(pages), NEW root, Readable(pages, root), NEW rows, IsList(rows)
  PROVE  LET new == [pages EXCEPT ![root] = rows]
         IN  /\ IsPages(new) /\ DOMAIN new = DOMAIN pages
             /\ \A i : Readable(pages, i) => Readable(new, i)
  <1> DEFINE new == [pages EXCEPT ![root] = rows]
  <1>1. IsList(new) /\ DOMAIN new = DOMAIN pages
    BY ListFacts DEF IsPages, Readable
  <1>2. rows # Blank
    BY BlankIsNoList
  <1>3. \A i \in DOMAIN pages : new[i] = IF i = root THEN rows ELSE pages[i]
    OBVIOUS
  <1> HIDE DEF new
  <1> QED
    BY <1>1, <1>2, <1>3 DEF IsPages, Readable, new

LEMMA PageAdded ==
  ASSUME NEW pages, IsPages(pages)
  PROVE  LET new == Append(pages, <<>>)
         IN  /\ IsPages(new) /\ DOMAIN pages \subseteq DOMAIN new
             /\ \A i : Readable(pages, i) => Readable(new, i)
             /\ Readable(new, Len(pages) + 1)
  <1> DEFINE new == Append(pages, <<>>)
  <1>1. PICK S : pages \in Seq(S)
    BY DEF IsPages, IsList
  <1>2. pages \in Seq(S \cup {<<>>}) /\ Len(pages) \in Nat /\ DOMAIN pages = 1 .. Len(pages)
    BY <1>1
  <1>3. DOMAIN new = 1 .. (Len(pages) + 1) /\ new[Len(pages) + 1] = <<>>
        /\ \A i \in 1 .. Len(pages) : new[i] = pages[i]
    BY <1>2
  <1>4. IsList(new) /\ IsList(<<>>)
    BY ListFacts DEF IsPages
  <1>5. <<>> # Blank
    BY <1>4, BlankIsNoList
  <1>6. \A i \in DOMAIN new : (i = Len(pages) + 1 /\ new[i] = <<>>) \/ (i \in DOMAIN pages /\ new[i] = pages[i])
    BY <1>2, <1>3
  <1>7. DOMAIN pages \subseteq DOMAIN new /\ Len(pages) + 1 \in DOMAIN new
    BY <1>2, <1>3
  <1> HIDE DEF new
  <1>8. IsPages(new)
    BY <1>4, <1>6 DEF IsPages
  <1>9. \A i \in DOMAIN pages : new[i] = pages[i]
    BY <1>2, <1>3
  <1> QED
    BY <1>3, <1>5, <1>7, <1>8, <1>9 DEF Readable, new

\* What a statement makes of the pages: CREATE adds one, the others keep them.
LEMMA RunKeepsPages ==
  ASSUME NEW s, NEW root, NEW pages, IsPages(pages), NEW w
  PROVE  LET r == Run(s, root, pages, w)
         IN  /\ IsPages(r.pages)
             /\ s.op = "create" /\ r.ok => r.pages = Append(pages, <<>>)
             /\ DOMAIN pages \subseteq DOMAIN r.pages
             /\ \A i : Readable(pages, i) => Readable(r.pages, i)
  <1> DEFINE new == [pages EXCEPT ![root] = With(@, NewRowid(@))]
             rest == [pages EXCEPT ![root] = Without(@, s.val)]
             longer == Append(pages, <<>>)
  <1>1. PICK p : p = Run(s, root, pages, w).pages
    OBVIOUS
  <1>2. p = pages \/ p = longer \/ (Readable(pages, root) /\ (p = new \/ p = rest))
    BY <1>1 DEF Run, Failing, Done
  <1>3. s.op = "create" /\ Run(s, root, pages, w).ok => p = longer
    BY <1>1 DEF Run, Failing, Done
  <1>4. ASSUME Readable(pages, root)
        PROVE  /\ IsPages(new) /\ DOMAIN new = DOMAIN pages
               /\ \A i : Readable(pages, i) => Readable(new, i)
               /\ IsPages(rest) /\ DOMAIN rest = DOMAIN pages
               /\ \A i : Readable(pages, i) => Readable(rest, i)
    <2>1. IsList(pages[root])
      BY <1>4 DEF IsPages, Readable
    <2>2. PICK a, b : /\ a = With(pages[root], NewRowid(pages[root])) /\ IsList(a)
                      /\ b = Without(pages[root], s.val) /\ IsList(b)
      BY <2>1, RowsStayList
    <2>3. new = [pages EXCEPT ![root] = a] /\ rest = [pages EXCEPT ![root] = b]
      BY <2>2
    <2> HIDE DEF new, rest
    <2> QED
      BY <1>4, <2>2, <2>3, PageChanged
  <1>5. /\ IsPages(longer) /\ DOMAIN pages \subseteq DOMAIN longer
        /\ \A i : Readable(pages, i) => Readable(longer, i)
    BY PageAdded
  <1> HIDE DEF new, rest, longer
  <1>6. IsPages(p) /\ DOMAIN pages \subseteq DOMAIN p /\ \A i : Readable(pages, i) => Readable(p, i)
    BY <1>2, <1>4, <1>5
  <1> QED
    BY <1>1, <1>3, <1>6 DEF longer

\* Some pages go back to what they were, others do not.
LEMMA RestoredPages ==
  ASSUME NEW old, IsPages(old), NEW pages, IsPages(pages), NEW S
  PROVE  LET new == Restored(old, pages, S)
         IN  /\ IsPages(new) /\ DOMAIN new = DOMAIN pages
             /\ \A i : Readable(pages, i) /\ Readable(old, i) => Readable(new, i)
  <1> DEFINE new == Restored(old, pages, S)
  <1>1. Len(pages) \in Nat /\ DOMAIN pages = 1 .. Len(pages)
    BY ListFacts DEF IsPages
  <1>2. /\ DOMAIN new = DOMAIN pages
        /\ \A i \in DOMAIN pages : new[i] = IF i \in S THEN Original(old, i) ELSE pages[i]
        /\ new = [i \in 1 .. Len(pages) |-> new[i]]
    BY <1>1 DEF Restored
  <1> HIDE DEF new
  <1>3. IsList(new)
    BY <1>1, <1>2, IndexedIsList
  <1>4. IsPages(new)
    BY <1>2, <1>3 DEF IsPages, Original
  <1> QED
    BY <1>2, <1>4 DEF Readable, Original, new

\* A prepared statement keeps its table while it is stepped and reset.
LEMMA RootsStay ==
  ASSUME RowsStand, NEW h \in Handles, Step(h) \/ Reset(h)
  PROVE  /\ Live(h)
         /\ \A g \in Handles : g # h => stmt'[g] = stmt[g]
         /\ stmt'[h].root = stmt[h].root
  <1> DEFINE st == stmt[h]
  <1>1. Live(h) /\ RowStands(st)
    BY DEF RowsStand, Step, Reset
  <1> HIDE DEF st
  <1>2. ASSUME NEW i, NEW v
        PROVE  Yield(st, i, v).root = st.root
    BY <1>1 DEF Yield, RowStands
  <1>3. Finish(st).root = st.root
    BY <1>1 DEF Finish, RowStands
  <1>4. \A pc : Err(st, pc).root = st.root
    BY <1>1 DEF Err, RowStands
  <1>5. CASE Step(h)
    <2>1. CASE StepSelect(h)
      <3>1. stmt' = [stmt EXCEPT ![h] = Select(st)]
        BY <2>1 DEF StepSelect, st
      <3>2. st.pc \in {"start", "column", "row", "next", "halt"} /\ st.at \in Nat
        BY <1>1, <2>1 DEF StepSelect, RowStands, Counters, st
      <3>3. Select(st).root = st.root
        BY <1>2, <1>3, <1>4, <3>2 DEF Select
      <3> QED
        BY <1>1, <3>1, <3>3 DEF RowsStand, st
    <2>2. CASE StepInsert(h)
      <3>1. PICK new : stmt' = [stmt EXCEPT ![h] = new] /\ new.root = st.root
        BY <1>1, <2>2, InsertingSteps, InsertingStands DEF st
      <3> QED
        BY <1>1, <3>1 DEF RowsStand, st
    <2> QED
      BY <1>5, <2>1, <2>2 DEF Step
  <1>6. CASE Reset(h)
    <2> DEFINE new == [st EXCEPT !.pc = "start", !.at = 0, !.row = <<>>, !.done = FALSE]
    <2>1. new.root = st.root
      BY <1>1 DEF RowStands
    <2>2. stmt' = [stmt EXCEPT ![h] = new]
      BY <1>6 DEF Reset, st
    <2> HIDE DEF new
    <2> QED
      BY <1>1, <2>1, <2>2 DEF RowsStand, st
  <1> QED
    BY <1>5, <1>6

\* The schema that Connection::open reads has tables that have pages.
LEMMA TablesInit == Init => TablesInv
  <1> SUFFICES ASSUME Init PROVE TablesInv
    OBVIOUS
  <1> USE DEF TablesInv, TablesApart, RootsKnown, Standing
  <1>1. /\ committed \in Files /\ working = committed /\ schema = Loaded(committed)
        /\ orphans = {} /\ \A h \in Handles : ~Live(h)
    BY DEF Init, Live
  <1>2. CASE committed = <<>>
    <2>1. DOMAIN schema = {} /\ DOMAIN committed = {}
      BY <1>1, <1>2 DEF Loaded
    <2> QED
      BY <1>1, <1>2, <2>1, ListFacts DEF IsPages
  <1>3. ASSUME NEW n \in Names, committed = << << [rowid |-> 1, val |-> <<n, 2>>] >>, With(<<>>, 1) >>
        PROVE  TablesInv
    <2> DEFINE row == [rowid |-> 1, val |-> <<n, 2>>]
               rows == << row >>
               named == {i \in DOMAIN rows : rows[i].val \in Names \X (1 .. MaxPages)}
               entry(t) == CHOOSE i \in named : rows[i].val[1] = t
    <2>0. IsList(rows) /\ IsList(With(<<>>, 1))
      <3>1. rows \in Seq({row})
        OBVIOUS
      <3> QED
        BY <3>1, ListFacts, RowsStayList DEF IsList
    <2>1. /\ IsList(committed) /\ DOMAIN committed = 1..2 /\ committed[1] = rows
          /\ committed[2] = With(<<>>, 1) /\ committed # <<>>
      BY <1>3, ListFacts
    <2>2. schema = Loaded(committed) /\ committed[1] = rows /\ committed # <<>>
      BY <1>1, <2>1
    <2>3. rows[1] = row /\ DOMAIN rows = {1} /\ row.val = <<n, 2>>
      OBVIOUS
    <2> HIDE DEF row, rows
    <2>4. schema = [t \in {rows[i].val[1] : i \in named} |-> rows[entry(t)].val[2]]
      BY ONLY <2>2 DEF Loaded
    <2>5. named \subseteq {1} /\ (named # {} => 2 \in 1 .. MaxPages)
      BY <2>3
    <2>6. ASSUME NEW t \in DOMAIN schema
          PROVE  t = n /\ schema[t] = 2 /\ 2 \in 1 .. MaxPages
      <3>1. named = {1} /\ t = n
        BY <2>4, <2>3, <2>5
      <3>2. entry(t) \in named
        BY <2>3, <3>1
      <3>3. schema[t] = rows[entry(t)].val[2]
        BY <2>4
      <3>4. entry(t) = 1 /\ 2 \in 1 .. MaxPages
        BY <2>5, <3>1, <3>2
      <3> HIDE DEF entry, named
      <3>5. rows[entry(t)].val[2] = 2
        BY <2>3, <3>4
      <3> QED
        BY <3>1, <3>3, <3>4, <3>5
    <2> HIDE DEF named, entry
    <2>7. IsPages(committed) /\ Readable(committed, 2)
      BY <2>0, <2>1, BlankIsNoList DEF IsPages, Readable
    <2> QED
      BY <1>1, <2>6, <2>7
  <1> QED
    BY <1>1, <1>2, <1>3 DEF Files

\* A statement that was run and is kept: a table that it creates has the
\* page that was added.
LEMMA CataloguedTables ==
  ASSUME TablesInv, NEW s \in Statements, s.op = "create" => Len(working) < MaxPages,
         NEW w, NEW kept, working' = Run(s, RootOf(s), working, w).pages,
         kept => Run(s, RootOf(s), working, w).ok, Catalogued(s, kept), UNCHANGED stmt
  PROVE  /\ IsPages(working') /\ RootsKnown' /\ TablesApart'
         /\ ~Known(s, kept) => UNCHANGED <<schema, orphans>>
  <1>1. IsPages(working) /\ TablesApart /\ RootsKnown
    BY DEF TablesInv
  <1>2. Len(working) \in Nat /\ DOMAIN working = 1..Len(working)
    BY <1>1, ListFacts DEF IsPages
  <1>3. s.op = "create" => NewPage \in 1 .. MaxPages /\ NewPage \notin DOMAIN working
    BY <1>2, ConnectionConstants DEF NewPage
  <1>4. /\ IsPages(working') /\ DOMAIN working \subseteq DOMAIN working'
        /\ \A i : Readable(working, i) => Readable(working', i)
        /\ Known(s, kept) => working' = Append(working, <<>>)
    BY <1>1, RunKeepsPages DEF Known
  <1>5. CASE ~Known(s, kept)
    <2>1. UNCHANGED <<schema, orphans>>
      BY <1>5 DEF Catalogued
    <2> QED
      BY <1>1, <1>4, <1>5, <2>1 DEF TablesApart, RootsKnown, Live, Standing
  <1>6. CASE Known(s, kept)
    <2>1. /\ DOMAIN schema' = DOMAIN schema \cup {s.table}
          /\ schema'[s.table] = NewPage
          /\ \A t \in DOMAIN schema \ {s.table} : schema'[t] = schema[t]
          /\ orphans' = orphans \ {s.table}
      BY <1>6 DEF Catalogued
    <2>2. NewPage \in 1 .. MaxPages /\ NewPage \notin DOMAIN working /\ Readable(working', NewPage)
      BY <1>1, <1>3, <1>4, <1>6, PageAdded DEF Known, NewPage
    <2>3. s.table \in Names
      BY DEF Statements
    <2>4. RootsKnown'
      BY <1>1, <2>1, <2>2, <2>3 DEF RootsKnown, Live
    <2>5. ASSUME NEW t \in Standing \ {s.table}
          PROVE  /\ schema'[t] = schema[t] /\ schema[t] \in DOMAIN working
                 /\ Readable(working', schema[t])
      BY <1>1, <1>4, <2>1 DEF TablesApart, Standing, Readable
    <2>6. Standing' \subseteq (Standing \ {s.table}) \cup {s.table}
      BY <2>1 DEF Standing
    <2>7. ASSUME NEW t \in Standing', NEW u \in Standing' \ {t} PROVE schema'[u] # schema'[t]
      <3>1. CASE t # s.table /\ u # s.table
        BY <1>1, <2>5, <2>6, <2>7, <3>1 DEF TablesApart
      <3>2. CASE t = s.table \/ u = s.table
        BY <2>1, <2>2, <2>5, <2>6, <2>7, <3>2
      <3> QED
        BY <3>1, <3>2
    <2>8. ASSUME NEW t \in Standing' PROVE Readable(working', schema'[t])
      BY <2>1, <2>2, <2>5, <2>6
    <2>9. TablesApart'
      BY <2>7, <2>8, Zenon DEF TablesApart, Readable, Standing
    <2> QED
      BY <1>4, <1>6, <2>4, <2>9
  <1> QED
    BY <1>5, <1>6

\* What is seen next can be read wherever what was seen, and committed, could.
LEMMA TablesUnchanged ==
  ASSUME TablesInv, UNCHANGED <<stmt, schema, orphans>>, IsPages(committed'), IsPages(working'),
         \A t \in Standing : Readable(working', schema[t]),
         ~inTxn' => \A t \in Standing : Readable(committed', schema[t])
  PROVE  TablesInv'
  BY DEF TablesInv, TablesApart, RootsKnown, Live, Standing, Readable

\* A statement that is executed.
LEMMA ExecuteKeepsTables ==
  ASSUME TablesInv, NEW s \in Statements, Execute(s)
  PROVE  TablesInv'
  <1>1. UNCHANGED <<inTxn, stmt>> /\ (s.op = "create" => Len(working) < MaxPages)
    BY DEF Execute
  <1>2. CASE inTxn
    <2> DEFINE r == Run(s, RootOf(s), working, writer)
    <2>1. working' = r.pages /\ Catalogued(s, r.ok) /\ UNCHANGED committed
      BY <1>2 DEF Execute, ExecuteInside, Writes
    <2>2. IsPages(working') /\ TablesApart' /\ RootsKnown'
      BY <1>1, <2>1, CataloguedTables
    <2> QED
      BY <1>1, <1>2, <2>1, <2>2 DEF TablesInv
  <1>3. CASE ~inTxn
    <2> DEFINE r == Run(s, RootOf(s), working, TRUE)
    <2>0. \A t \in Standing : Readable(working, schema[t]) /\ Readable(committed, schema[t])
      BY <1>3 DEF TablesInv, TablesApart
    <2>1. ExecuteAlone(s) /\ IsPages(committed) /\ IsPages(working)
      BY <1>3 DEF Execute, TablesInv
    <2>2. CASE Undone(r.pages) /\ UNCHANGED <<schema, orphans>>
      <3>1. CASE RolledBack(r.pages)
        BY <1>1, <2>0, <2>1, <2>2, <3>1, TablesUnchanged DEF RolledBack
      <3>2. CASE RolledHalfBack(r.pages)
        <4>1. PICK S : working' = Restored(committed, r.pages, S) /\ UNCHANGED committed
          BY <3>2 DEF RolledHalfBack
        <4>2. IsPages(r.pages) /\ \A i : Readable(working, i) => Readable(r.pages, i)
          BY <2>1, RunKeepsPages
        <4> HIDE DEF r
        <4>3. IsPages(working') /\ \A t \in Standing : Readable(working', schema[t])
          BY <2>0, <2>1, <4>1, <4>2, RestoredPages
        <4> QED
          BY <1>1, <2>0, <2>1, <2>2, <4>1, <4>3, TablesUnchanged
      <3>3. CASE Lost(r.pages)
        BY <1>1, <2>0, <2>1, <2>2, <3>3, TablesUnchanged DEF Lost
      <3> QED
        BY <2>2, <3>1, <3>2, <3>3 DEF Undone
    <2>3. CASE r.ok /\ Saved(r.pages) /\ Catalogued(s, TRUE)
      <3>1. working' = r.pages /\ committed' = r.pages
        BY <2>3 DEF Saved
      <3>2. IsPages(working') /\ TablesApart' /\ RootsKnown'
        BY <1>1, <2>3, <3>1, CataloguedTables
      <3> QED
        BY <3>1, <3>2 DEF TablesInv, TablesApart, Readable
    <2>4. CASE Unsaved(r.pages) /\ Catalogued(s, FALSE)
      <3>1. working' = r.pages /\ UNCHANGED committed
        BY <2>4 DEF Unsaved
      <3>2. /\ IsPages(working') /\ TablesApart' /\ RootsKnown' /\ UNCHANGED <<schema, orphans>>
        BY <1>1, <2>4, <3>1, CataloguedTables DEF Known
      <3> QED
        BY <1>1, <1>3, <2>0, <2>1, <3>1, <3>2 DEF TablesInv, Standing
    <2> HIDE DEF r
    <2> QED
      BY <2>1, <2>2, <2>3, <2>4 DEF ExecuteAlone, r
  <1> QED
    BY <1>2, <1>3

\* ROLLBACK: the tables that keep a page are those that still stand.
LEMMA RollbackKeepsTables ==
  ASSUME TablesInv, Rollback
  PROVE  TablesInv'
  <1>1. /\ UNCHANGED <<schema, stmt>>
        /\ orphans' = orphans \cup {t \in DOMAIN schema : ~Readable(working', schema[t])}
    BY DEF Rollback
  <1>2. IsPages(committed) /\ IsPages(working) /\ UNCHANGED committed /\ IsPages(working')
    <2>1. CASE RolledBack(working)
      BY <2>1 DEF RolledBack, TablesInv
    <2>2. CASE RolledHalfBack(working)
      BY <2>2, RestoredPages DEF RolledHalfBack, TablesInv
    <2>3. CASE Lost(working)
      BY <2>3 DEF Lost, TablesInv
    <2> QED
      BY <2>1, <2>2, <2>3 DEF Rollback
  <1>3. working' = committed \/ UNCHANGED inTxn
    BY DEF Rollback, RolledBack
  <1>4. Standing' = {t \in Standing : Readable(working', schema[t])}
    BY <1>1 DEF Standing
  <1>5. TablesApart' /\ RootsKnown'
    BY <1>1, <1>4 DEF TablesInv, TablesApart, RootsKnown, Live, Readable
  <1>6. ~inTxn' => \A t \in Standing' : Readable(committed', schema'[t])
    BY <1>1, <1>2, <1>3, <1>4 DEF TablesInv
  <1> QED
    BY <1>2, <1>5, <1>6, Zenon DEF TablesInv, IsPages, Readable

\* Every step of the connection.
LEMMA TablesStep ==
  ASSUME RowsStand, TablesInv, [Next]_vars
  PROVE  TablesInv'
  <1>0. /\ IsPages(committed) /\ IsPages(working) /\ RootsKnown
        /\ \A t \in Standing : Readable(working, schema[t])
        /\ ~inTxn => \A t \in Standing : Readable(committed, schema[t])
    BY DEF TablesInv, TablesApart
  <1>1. CASE Begin
    BY <1>0, <1>1, TablesUnchanged DEF Begin
  <1>2. CASE Commit
    <2>1. UNCHANGED <<schema, orphans, stmt>>
      BY <1>2 DEF Commit
    <2>2. CASE Saved(working)
      BY <1>0, <2>1, <2>2, TablesUnchanged DEF Saved
    <2>3. CASE Unsaved(working) /\ UNCHANGED inTxn
      BY <1>0, <2>1, <2>3, TablesUnchanged DEF Unsaved
    <2> QED
      BY <1>2, <2>2, <2>3 DEF Commit
  <1>3. CASE Rollback
    BY <1>3, RollbackKeepsTables
  <1>4. ASSUME NEW s \in Statements, Execute(s) PROVE TablesInv'
    BY <1>4, ExecuteKeepsTables
  <1>5. ASSUME NEW h \in Handles, Step(h) \/ Reset(h) PROVE TablesInv'
    <2>1. RootsKnown'
      <3>1. UNCHANGED schema
        BY <1>5 DEF Step, StepSelect, StepInsert, Reset, store
      <3> QED
        BY <1>0, <1>5, <3>1, RootsStay DEF RootsKnown, Live
    <2>2. CASE UNCHANGED <<pager, inTxn, schema, orphans>>
      BY <2>1, <2>2 DEF pager, TablesInv, TablesApart, Standing, Readable
    <2>3. CASE StepInsert(h)
      <3> DEFINE root == stmt[h].root
      <3>1. UNCHANGED <<inTxn, schema, orphans>>
        BY <2>3 DEF StepInsert
      <3>2. UNCHANGED pager \/
              \E rowid : Readable(working, root) /\ Writes([working EXCEPT ![root] = With(@, rowid)])
        BY <2>3 DEF StepInsert
      <3>3. ASSUME NEW rowid, Readable(working, root), Writes([working EXCEPT ![root] = With(@, rowid)])
            PROVE  TablesInv'
        <4>1. PICK rows : rows = With(working[root], rowid)
          OBVIOUS
        <4>2. IsList(rows)
          BY <1>0, <3>3, <4>1, RowsStayList DEF IsPages, Readable
        <4>3. working' = [working EXCEPT ![root] = rows] /\ UNCHANGED committed
          BY <3>3, <4>1 DEF Writes
        <4> HIDE DEF root
        <4>4. IsPages(working') /\ \A i : Readable(working, i) => Readable(working', i)
          BY <1>0, <3>3, <4>2, <4>3, PageChanged
        <4> QED
          BY <2>1, <3>1, <4>3, <4>4 DEF TablesInv, TablesApart, Standing
      <3> QED
        BY <2>2, <3>1, <3>2, <3>3
    <2> QED
      BY <1>5, <2>2, <2>3 DEF Step, StepSelect, Reset, store
  <1>6. ASSUME NEW h \in Handles, Finalize(h) PROVE TablesInv'
    <2>1. UNCHANGED store /\ stmt' = [stmt EXCEPT ![h] = Finalized]
      BY <1>6 DEF Finalize
    <2>2. \A g \in Handles : stmt'[g] = Finalized \/ stmt'[g] = stmt[g]
      BY <2>1 DEF RowsStand
    <2> QED
      BY <2>1, <2>2 DEF store, pager, TablesInv, TablesApart, RootsKnown, Live, Standing, Readable
  <1>7. ASSUME NEW h \in Handles, NEW t \in Names, NEW op \in {"select", "insert"}, Prepare(h, op, t)
        PROVE  TablesInv'
    <2>1. UNCHANGED store /\ t \in DOMAIN schema
          /\ stmt' = [stmt EXCEPT ![h] = Prepared(op, schema[t])]
      BY <1>7 DEF Prepare
    <2>2. \A g \in Handles : stmt'[g] = stmt[g] \/ stmt'[g].root = schema[t]
      BY <2>1 DEF RowsStand, Prepared
    <2> QED
      BY <2>1, <2>2 DEF store, pager, TablesInv, TablesApart, RootsKnown, Live, Standing, Readable
  <1>8. CASE UNCHANGED vars
    BY <1>0, <1>8, TablesUnchanged DEF vars, store, pager
  <1> QED
    BY <1>1, <1>2, <1>3, <1>4, <1>5, <1>6, <1>7, <1>8 DEF Next, Transact

\* Everything that was proved of the connection so far.
ConnInv == AgreeInv /\ TextInv /\ TablesInv

LEMMA ConnInvariant == CSpec => []ConnInv
  <1>1. CInit => ConnInv
    <2> SUFFICES ASSUME CInit PROVE ConnInv
      OBVIOUS
    <2>1. AgreeInv /\ TextInv
      BY DEF CInit, Init, AgreeInv, Original, TextInv, RowsStand, TextIsOfRow, Live
    <2> QED
      BY <2>1, TablesInit DEF CInit, ConnInv
  <1>2. ConnInv /\ [CNext]_cvars => ConnInv'
    BY AgreeStep, TextStep, TablesStep, CallsAreSteps DEF ConnInv, TextInv
  <1> QED
    BY <1>1, <1>2, PTL DEF CSpec

\* Every table of the schema has a page to itself, through statements and
\* transactions that fail, except those that a ROLLBACK, whole or half-way, has
\* made away with.
THEOREM TablesKeepTheirPages == CSpec => []TablesStand
  <1>1. ConnInv => TablesStand
    BY DEF ConnInv, TablesInv, TablesApart, TablesStand, Standing
  <1> QED
    BY <1>1, ConnInvariant, PTL

-----------------------------------------------------------------------------
(* The connection implements Database.                                     *)

\* How far a transaction is.
Progress == CASE inTxn -> "open" [] ~inTxn /\ writer -> "limbo" [] OTHER -> "none"

\* What the abstract database may do in one step.
PromiseStep == [Promise!Next]_<<committed, working, Progress, journal, faults>>

\* What a statement makes of the pages is what Database allows one to make.
LEMMA RunIsAllowed ==
  ASSUME ConnInv, NEW s \in Statements, NEW root,
         s.op = "create" \/ root \in 1 .. MaxPages,
         s.op = "create" => Len(working) < MaxPages
  PROVE  LET r == Run(s, root, working, TRUE)
         IN  /\ r.pages \in Partial(working)
             /\ r.ok => r.pages \in Whole(working)
  <1>1. PICK n \in 1 .. MaxPages : Run(s, n, working, TRUE) = Run(s, root, working, TRUE)
    <2>1. CASE s.op = "create"
      <3>1. Len(working) \in Nat
        BY ListFacts DEF ConnInv, TablesInv, IsPages
      <3>2. 1 \in 1 .. MaxPages
        BY <2>1, <3>1, ConnectionConstants
      <3>3. Run(s, 1, working, TRUE) = Run(s, root, working, TRUE)
        BY <2>1 DEF Run
      <3> QED
        BY <3>2, <3>3
    <2>2. CASE root \in 1 .. MaxPages
      BY <2>2
    <2> QED
      BY <2>1, <2>2
  <1>2. PICK r : r = Run(s, n, working, TRUE)
    OBVIOUS
  <1>3. r \in Runs(working)
    <2> DEFINE call == <<s, n>>
    <2>1. call \in Statements \X (1 .. MaxPages) /\ call[1] = s /\ call[2] = n
      OBVIOUS
    <2> HIDE DEF call
    <2> QED
      BY <1>2, <2>1 DEF Runs
  <1>4. r.pages \in Partial(working)
    BY <1>3 DEF Partial
  <1>5. r.ok => r.pages \in Whole(working)
    BY <1>3 DEF Whole
  <1> QED
    BY <1>1, <1>2, <1>4, <1>5

\* A rollback that fails leaves something half-way.
LEMMA HalfBackIsHalfway ==
  ASSUME NEW pages, RolledHalfBack(pages)
  PROVE  working' \in Halfway(committed, pages)
  <1>1. PICK S : working' = Restored(committed, pages, S)
    BY DEF RolledHalfBack
  <1>2. Restored(committed, pages, S) = Restored(committed, pages, S \cap DOMAIN pages)
    BY DEF Restored
  <1> QED
    BY <1>1, <1>2 DEF Halfway

\* Writing inside of a transaction.
LEMMA WritesArePromised ==
  ASSUME ConnInv, journal # "lost", NEW pages \in Partial(working), writer, Writes(pages), UNCHANGED inTxn
  PROVE  PromiseStep
  <1>1. working' = pages /\ journal' = Journal(pages) /\ UNCHANGED <<committed, writer, faults>>
    BY DEF Writes
  <1>2. CASE pages = working
    <2>1. Journal(pages) = journal
      BY <1>2 DEF Journal, Touched
    <2> QED
      BY <1>1, <1>2, <2>1 DEF PromiseStep, Progress
  <1>3. CASE pages # working
    <2>1. Promise!Inside
      BY <1>1, <1>3 DEF Promise!Inside, Journal
    <2> QED
      BY <2>1 DEF PromiseStep, Promise!Next
  <1> QED
    BY <1>2, <1>3

\* A statement executed at once.
LEMMA ExecuteIsPromised ==
  ASSUME ConnInv, journal # "lost", NEW s \in Statements, Execute(s)
  PROVE  PromiseStep
  <1> DEFINE root == RootOf(s)
             r == Run(s, root, working, TRUE)
  <1>1. s.op = "create" \/ root \in 1 .. MaxPages
    BY DEF Execute, RootOf, ConnInv, TablesInv, RootsKnown
  <1>2. r.pages \in Partial(working) /\ (r.ok => r.pages \in Whole(working))
    <2>1. s.op = "create" => Len(working) < MaxPages
      BY DEF Execute
    <2> HIDE DEF root
    <2> QED
      BY <1>1, <2>1, RunIsAllowed
  <1>3. UNCHANGED inTxn
    BY DEF Execute
  <1> HIDE DEF r, root
  <1>4. CASE inTxn
    <2>1. writer = TRUE
      BY <1>4 DEF ConnInv, AgreeInv, Init
    <2>2. Writes(r.pages)
      BY <1>4, <2>1 DEF Execute, ExecuteInside, r, root
    <2> QED
      BY <1>2, <1>3, <2>1, <2>2, WritesArePromised
  <1>5. CASE ~inTxn
    <2>1. ExecuteAlone(s)
      BY <1>5 DEF Execute
    <2>2. Journal(r.pages) # "spoiled" => journal # "spoiled"
      BY DEF Journal
    <2>3. CASE RolledBack(r.pages)
      <3>1. Promise!AloneUndone
        BY <1>3, <1>5, <2>2, <2>3 DEF Promise!AloneUndone, RolledBack, Ended
      <3> QED
        BY <3>1 DEF PromiseStep, Promise!Next
    <2>4. CASE RolledHalfBack(r.pages)
      <3>1. working' \in Halfway(committed, r.pages)
        BY <2>4, HalfBackIsHalfway
      <3>2. /\ Journal(r.pages) # "spoiled" /\ faults' = faults + 1 /\ writer' = TRUE
            /\ journal' \in {"whole", "frail"} /\ UNCHANGED committed
        BY <2>4 DEF RolledHalfBack
      <3>3. Promise!AloneHalfUndone
        BY <1>2, <1>3, <1>5, <2>2, <3>1, <3>2, Zenon DEF Promise!AloneHalfUndone, Promise!Fails
      <3> QED
        BY <3>3 DEF PromiseStep, Promise!Next
    <2>5. CASE Lost(r.pages)
      <3>1. writer /\ journal \in {"frail", "spoiled"}
        BY <2>5 DEF Lost, Journal, ConnInv, AgreeInv
      <3>2. Promise!Lose
        BY <1>3, <1>5, <2>5, <3>1 DEF Promise!Lose, Lost
      <3> QED
        BY <3>2 DEF PromiseStep, Promise!Next
    <2>6. CASE r.ok /\ Saved(r.pages)
      <3>1. /\ committed' = r.pages /\ working' = r.pages /\ writer' = FALSE /\ journal' = "whole"
            /\ UNCHANGED faults
        BY <2>6 DEF Saved, Ended
      <3>2. CASE r.pages # working
        <4>1. Promise!Alone
          BY <1>2, <1>3, <1>5, <2>6, <3>1, <3>2 DEF Promise!Alone
        <4> QED
          BY <4>1 DEF PromiseStep, Promise!Next
      <3>3. CASE r.pages = working /\ writer
        <4>1. Promise!Commit
          BY <1>3, <1>5, <3>1, <3>3 DEF Promise!Commit
        <4> QED
          BY <4>1 DEF PromiseStep, Promise!Next
      <3>4. CASE r.pages = working /\ ~writer
        BY <1>3, <1>5, <3>1, <3>4 DEF PromiseStep, Progress, ConnInv, AgreeInv
      <3> QED
        BY <3>2, <3>3, <3>4
    <2>7. CASE r.ok /\ Unsaved(r.pages)
      <3>1. /\ working' = r.pages /\ writer' = TRUE /\ faults' = faults + 1
            /\ journal' \in {"frail", "spoiled"} /\ UNCHANGED committed
            /\ journal = "spoiled" => journal' = "spoiled"
        BY <2>7 DEF Unsaved, Journal
      <3>2. Promise!AloneInLimbo
        BY <1>2, <1>3, <1>5, <2>7, <3>1 DEF Promise!AloneInLimbo, Promise!Fails
      <3> QED
        BY <3>2 DEF PromiseStep, Promise!Next
    <2> QED
      BY <2>1, <2>3, <2>4, <2>5, <2>6, <2>7 DEF ExecuteAlone, Undone, r, root
  <1> QED
    BY <1>4, <1>5

\* A prepared INSERT: in a transaction, or in what a failure left of one, it
\* is a statement inside of it; elsewhere it changes nothing.
LEMMA StepInsertIsPromised ==
  ASSUME ConnInv, journal # "lost", NEW h \in Handles, StepInsert(h)
  PROVE  PromiseStep
  <1> DEFINE root == stmt[h].root
             new(rowid) == [working EXCEPT ![root] = With(@, rowid)]
  <1>1. UNCHANGED inTxn
    BY DEF StepInsert
  <1>2. \/ UNCHANGED pager
        \/ \E rowid \in DOMAIN Vals : writer /\ Readable(working, root) /\ Writes(new(rowid))
    BY DEF StepInsert
  <1>3. CASE UNCHANGED pager
    BY <1>1, <1>3 DEF pager, PromiseStep, Progress
  <1>4. ASSUME NEW rowid \in DOMAIN Vals, writer, Readable(working, root), Writes(new(rowid))
        PROVE  PromiseStep
    <2>1. new(rowid) \in Partial(working)
      <3>1. root \in {p \in DOMAIN working : Readable(working, p)}
        BY <1>4 DEF Readable
      <3> HIDE DEF root
      <3> QED
        BY <3>1 DEF Partial
    <2> HIDE DEF new
    <2> QED
      BY <1>1, <1>4, <2>1, WritesArePromised
  <1> QED
    BY <1>2, <1>3, <1>4

\* ROLLBACK and COMMIT, whether they succeed or not.
LEMMA EndingsArePromised ==
  ASSUME ConnInv, journal # "lost", Commit \/ Rollback
  PROVE  PromiseStep
  <1>0. writer /\ Touched(working) = {} /\ Journal(working) = journal
    BY DEF Commit, Rollback, Touched, Journal
  <1>1. CASE Saved(working) /\ inTxn' = FALSE
    <2>1. Promise!Commit
      BY <1>0, <1>1 DEF Saved, Ended, Promise!Commit
    <2> QED
      BY <2>1 DEF PromiseStep, Promise!Next
  <1>2. CASE Unsaved(working) /\ UNCHANGED inTxn
    <2>1. Promise!CommitFails
      BY <1>0, <1>2 DEF Unsaved, Promise!CommitFails, Promise!Fails
    <2> QED
      BY <2>1 DEF PromiseStep, Promise!Next
  <1>3. CASE RolledBack(working) /\ inTxn' = FALSE
    <2>1. Promise!Rollback
      BY <1>0, <1>3 DEF RolledBack, Ended, Promise!Rollback
    <2> QED
      BY <2>1 DEF PromiseStep, Promise!Next
  <1>4. CASE RolledHalfBack(working) /\ UNCHANGED inTxn
    <2>1. working' \in Halfway(committed, working)
      BY <1>4, HalfBackIsHalfway
    <2>2. /\ journal # "spoiled" /\ faults' = faults + 1 /\ writer' = TRUE
          /\ journal' \in {"whole", "frail"} /\ UNCHANGED committed
      BY <1>0, <1>4 DEF RolledHalfBack
    <2>3. Promise!RollbackFails
      BY <1>0, <1>4, <2>1, <2>2 DEF Promise!RollbackFails, Promise!Fails
    <2> QED
      BY <2>3 DEF PromiseStep, Promise!Next
  <1>5. CASE Lost(working) /\ UNCHANGED inTxn
    <2>1. Promise!Lose
      BY <1>0, <1>5 DEF Lost, Promise!Lose
    <2> QED
      BY <2>1 DEF PromiseStep, Promise!Next
  <1> QED
    BY <1>1, <1>2, <1>3, <1>4, <1>5 DEF Commit, Rollback, Left

\* Statements and transactions are what Database says: no part of a statement
\* that failed outside of a transaction is ever committed unless its rollback
\* failed too; nothing is committed but by a commit; and what was committed
\* is lost only to a rollback that earlier failures had spoiled.
THEOREM ConnectionIsDatabase == CSpec => ImplementsDatabase
  <1>1. ConnInv /\ [CNext]_cvars => PromiseStep
    <2> SUFFICES ASSUME ConnInv, [Next]_vars PROVE PromiseStep
      BY CallsAreSteps
    <2>1. CASE UNCHANGED store
      BY <2>1 DEF store, pager, PromiseStep, Progress
    <2>2. CASE Next
      <3>0. journal # "lost"
        BY <2>2 DEF Next
      <3>1. CASE Begin
        <4>1. Promise!Begin
          BY <3>1 DEF Begin, Promise!Begin
        <4> QED
          BY <3>0, <4>1 DEF PromiseStep, Promise!Next
      <3>2. CASE Commit \/ Rollback
        BY <3>0, <3>2, EndingsArePromised
      <3>3. ASSUME NEW s \in Statements, Execute(s) PROVE PromiseStep
        BY <3>0, <3>3, ExecuteIsPromised
      <3>4. ASSUME NEW h \in Handles, Step(h) PROVE PromiseStep
        BY <2>1, <3>0, <3>4, StepInsertIsPromised DEF Step, StepSelect
      <3> QED
        BY <2>1, <2>2, <3>1, <3>2, <3>3, <3>4 DEF Next, Transact, Reset, Finalize, Prepare
    <2> QED
      BY <2>1, <2>2 DEF vars
  <1>2. CInit => Promise!Init
    BY DEF CInit, Init, Promise!Init
  <1> QED
    BY <1>1, <1>2, ConnInvariant, PTL DEF CSpec, ImplementsDatabase, Promise!Spec, PromiseStep,
       Progress

-----------------------------------------------------------------------------
(* Scans.  What a SELECT has yielded so far are the rows up to its cursor, *)
(* as long as nothing was taken out of its page or put before others: what *)
(* NewRowid numbers goes behind them.                                      *)

TrailStands(tr) == DOMAIN tr = {"seen", "sound"} /\ tr.sound \in BOOLEAN

\* The rowids of the first n rows of a page.
Rowids(rows, n) == [i \in 1 .. n |-> rows[i].rowid]

\* The statement has not started, or its scan was disturbed, or it has come
\* to a row and has seen the rows up to there.
ScanStands(h) ==
  Live(h) /\ stmt[h].op = "select" /\ ~stmt[h].done =>
    /\ stmt[h].pc = "start" => stmt[h].at = 0 /\ trail[h] = Fresh
    /\ stmt[h].pc # "start" /\ trail[h].sound =>
         /\ stmt[h].pc = "next" /\ Readable(working, stmt[h].root)
         /\ stmt[h].at \in DOMAIN working[stmt[h].root]
         /\ trail[h].seen = Rowids(working[stmt[h].root], stmt[h].at)

ScanInv ==
  /\ trail = [h \in Handles |-> trail[h]] /\ \A h \in Handles : TrailStands(trail[h])
  /\ \A h \in Handles : ScanStands(h)

LEMMA PrefixKeepsRows ==
  ASSUME NEW a, NEW b, IsList(a), IsList(b), IsPrefix(a, b)
  PROVE  DOMAIN a \subseteq DOMAIN b /\ \A i \in DOMAIN a : a[i] = b[i]
  <1>1. /\ Len(a) \in Nat /\ DOMAIN a = 1 .. Len(a)
        /\ Len(b) \in Nat /\ DOMAIN b = 1 .. Len(b)
    BY ListFacts
  <1>2. Len(a) <= Len(b) /\ SubSeq(a, 1, Len(a)) = SubSeq(b, 1, Len(a))
    BY DEF IsPrefix
  <1>3. ASSUME NEW c, IsList(c), Len(c) \in Nat, Len(a) <= Len(c)
        PROVE  \A i \in 1 .. Len(a) : SubSeq(c, 1, Len(a))[i] = c[i]
    <2>1. PICK S : c \in Seq(S)
      BY <1>3 DEF IsList
    <2> QED
      BY <1>1, <1>3, <2>1
  <1>4. \A i \in 1 .. Len(a) : a[i] = b[i]
    BY <1>1, <1>2, <1>3
  <1> QED
    BY <1>1, <1>2, <1>4

LEMMA RowidsGrow ==
  ASSUME NEW rows, NEW n \in Nat
  PROVE  Append(Rowids(rows, n), rows[n + 1].rowid) = Rowids(rows, n + 1)
  <1> DEFINE S == {rows[i].rowid : i \in 1 .. (n + 1)}
             f == Rowids(rows, n)
             g == Rowids(rows, n + 1)
  <1>1. f \in [1 .. n -> S] /\ g \in [1 .. (n + 1) -> S] /\ rows[n + 1].rowid \in S
    BY DEF Rowids
  <1>2. g[n + 1] = rows[n + 1].rowid /\ \A i \in 1 .. n : g[i] = f[i]
    BY DEF Rowids
  <1> HIDE DEF S, f, g
  <1>3. f \in Seq(S) /\ g \in Seq(S)
    BY <1>1, SeqDef
  <1>4. Len(f) = n /\ Len(g) = n + 1
    BY <1>1, <1>3
  <1>5. Append(f, rows[n + 1].rowid) = g
    BY <1>1, <1>2, <1>3, <1>4
  <1> QED
    BY <1>5 DEF f, g

\* A scan that nobody steps goes on as it stood, unless it was cut.
LEMMA ScanStays ==
  ASSUME ScanInv, IsPages(working), IsPages(working'), NEW h \in Handles,
         stmt'[h] = stmt[h],
         \/ UNCHANGED working /\ trail'[h] = trail[h]
         \/ trail'[h] = IF Cut(h) THEN Disturbed ELSE trail[h]
  PROVE  ScanStands(h)'
  <1> SUFFICES ASSUME stmt[h] # Finalized, stmt[h].op = "select", ~stmt[h].done
               PROVE  ScanStands(h)'
    BY DEF ScanStands, Live
  <1> DEFINE root == stmt[h].root
  <1>1. ScanStands(h)
    BY DEF ScanInv
  <1>2. stmt[h].pc = "start" => stmt[h].at = 0 /\ trail'[h] = Fresh
    BY <1>1 DEF ScanStands, Live, Cut
  <1>3. ASSUME stmt[h].pc # "start", trail'[h].sound
        PROVE  /\ stmt[h].pc = "next" /\ Readable(working', root)
               /\ stmt[h].at \in DOMAIN working'[root]
               /\ trail'[h].seen = Rowids(working'[root], stmt[h].at)
    <2>1. trail'[h] = trail[h] /\ (UNCHANGED working \/ ~Cut(h))
      BY <1>3 DEF Disturbed
    <2>2. /\ stmt[h].pc = "next" /\ Readable(working, root)
          /\ stmt[h].at \in DOMAIN working[root]
          /\ trail[h].seen = Rowids(working[root], stmt[h].at)
      BY <1>1, <1>3, <2>1 DEF ScanStands, Live
    <2>3. CASE UNCHANGED working
      BY <2>1, <2>2, <2>3
    <2>4. CASE ~Cut(h)
      <3>1. Readable(working', root) /\ IsPrefix(working[root], working'[root])
        BY <1>3, <2>4 DEF Cut
      <3>2. IsList(working[root]) /\ IsList(working'[root])
        BY <2>2, <3>1 DEF IsPages, Readable
      <3>3. DOMAIN working[root] \subseteq DOMAIN working'[root]
            /\ \A i \in DOMAIN working[root] : working[root][i] = working'[root][i]
        BY <3>1, <3>2, PrefixKeepsRows
      <3>4. \A i \in 1 .. stmt[h].at : i \in DOMAIN working[root]
        <4>1. Len(working[root]) \in Nat /\ DOMAIN working[root] = 1 .. Len(working[root])
          BY <3>2, ListFacts
        <4>2. PICK n \in Nat : n = Len(working[root])
          BY <4>1
        <4>3. stmt[h].at \in 1 .. n => \A i \in 1 .. stmt[h].at : i \in 1 .. n
          OBVIOUS
        <4> QED
          BY <2>2, <4>1, <4>2, <4>3
      <3>5. Rowids(working[root], stmt[h].at) = Rowids(working'[root], stmt[h].at)
        BY <3>3, <3>4 DEF Rowids
      <3> QED
        BY <2>1, <2>2, <3>1, <3>3, <3>5
    <2> QED
      BY <2>1, <2>3, <2>4
  <1> QED
    BY <1>2, <1>3, Zenon DEF ScanStands, Live, Readable

\* If this step ends h's scan, undisturbed, then it has yielded all rows.
SeesAll(h) ==
  (Live(h) /\ stmt[h].op = "select" /\ ~stmt[h].done /\ stmt'[h] = Finish(stmt[h])
     /\ trail[h].sound)
    => trail[h].seen = [i \in DOMAIN working[stmt[h].root] |-> working[stmt[h].root][i].rowid]

\* The three answers of a step.
LEMMA Answers ==
  ASSUME NEW st, RowStands(st)
  PROVE  /\ \A i, v : /\ Yield(st, i, v).pc = "next" /\ Yield(st, i, v).at = i
                      /\ Yield(st, i, v).done = st.done
                      /\ Yield(st, i, v).op = st.op /\ Yield(st, i, v).root = st.root
         /\ \A pc : /\ Err(st, pc).pc = pc /\ Err(st, pc).at = st.at /\ Err(st, pc).row = st.row
                    /\ Err(st, pc).done = st.done
                    /\ Err(st, pc).op = st.op /\ Err(st, pc).root = st.root
         /\ Finish(st).pc = "halt" /\ Finish(st).at = st.at /\ Finish(st).done = TRUE
         /\ Finish(st).op = st.op /\ Finish(st).root = st.root
  BY DEF RowStands, Yield, Err, Finish

LEMMA SelectGoesOn ==
  ASSUME ScanInv, RowsStand, IsPages(working), NEW h \in Handles, Live(h), ~stmt[h].done, StepSelect(h)
  PROVE  ScanStands(h)' /\ SeesAll(h) /\ TrailStands(trail'[h])
  <1>1. PICK st : st = stmt[h]
    OBVIOUS
  <1>2. PICK new : new = Select(st)
    OBVIOUS
  <1>3. PICK before : before = trail[h]
    OBVIOUS
  <1>4. PICK tr : tr = trail'[h]
    OBVIOUS
  <1> DEFINE rows == working[st.root]
             From(i) == IF i \in DOMAIN rows THEN Yield(st, i, rows[i].val) ELSE Finish(st)
  <1>5. RowStands(st) /\ st.op = "select" /\ ~st.done /\ st.at \in Nat /\ stmt'[h] = new
        /\ UNCHANGED working
    BY <1>1, <1>2 DEF RowsStand, RowStands, StepSelect, store, pager
  <1>6. TrailStands(before)
    BY <1>3 DEF ScanInv
  <1>7. tr = IF new.done THEN Fresh
             ELSE IF ~before.sound \/ (new.row = st.row /\ new.at = st.at) THEN Disturbed
             ELSE [before EXCEPT !.seen = Append(@, rows[new.at].rowid)]
    BY <1>1, <1>2, <1>3, <1>4 DEF StepSelect, ScanInv, Traced
  <1>8. TrailStands(tr) /\ (~new.done /\ tr.sound =>
           before.sound /\ tr.seen = Append(before.seen, rows[new.at].rowid))
    <2> HIDE DEF rows
    <2> QED
      BY <1>6, <1>7 DEF TrailStands, Fresh, Disturbed
  <1>9. /\ \A i, v : /\ Yield(st, i, v).pc = "next" /\ Yield(st, i, v).at = i
                     /\ Yield(st, i, v).done = st.done
                     /\ Yield(st, i, v).op = st.op /\ Yield(st, i, v).root = st.root
        /\ \A pc : /\ Err(st, pc).pc = pc /\ Err(st, pc).at = st.at /\ Err(st, pc).row = st.row
                   /\ Err(st, pc).done = st.done
                   /\ Err(st, pc).op = st.op /\ Err(st, pc).root = st.root
        /\ Finish(st).pc = "halt" /\ Finish(st).at = st.at /\ Finish(st).done = TRUE
        /\ Finish(st).op = st.op /\ Finish(st).root = st.root
    BY <1>5, Answers
  <1>10. /\ ~new.done /\ tr.sound =>
              /\ new.pc = "next" /\ Readable(working, st.root) /\ new.at \in DOMAIN rows
              /\ tr.seen = Rowids(rows, new.at)
         /\ new = Finish(st) /\ before.sound =>
              before.seen = [i \in DOMAIN rows |-> rows[i].rowid]
         /\ new.pc # "start" /\ new.op = st.op /\ new.root = st.root
    <2> HIDE DEF rows, From
    <2>1. /\ ScanStands(h) /\ stmt[h] = st
          /\ Readable(working, st.root) => IsList(rows)
      BY <1>1 DEF ScanInv, IsPages, Readable, rows
    <2>2. ASSUME NEW n \in Nat, before.seen = Rowids(rows, n), st.at = n, IsList(rows),
                 n = 0 \/ n \in DOMAIN rows, Readable(working, st.root), new = From(n + 1)
          PROVE  <1>10!1 /\ <1>10!2 /\ <1>10!3
      <3>1. Len(rows) \in Nat /\ DOMAIN rows = 1 .. Len(rows)
        BY <2>2, ListFacts
      <3>2. CASE n + 1 \in DOMAIN rows
        <4>1. new = Yield(st, n + 1, rows[n + 1].val)
          BY <2>2, <3>2 DEF From
        <4>2. new.pc = "next" /\ new.at = n + 1 /\ new.done = st.done /\ new.op = st.op /\ new.root = st.root
          <5>1. PICK i, v : i = n + 1 /\ new = Yield(st, i, v)
            BY <4>1
          <5>2. new.pc = "next" /\ new.at = i /\ new.done = st.done /\ new.op = st.op /\ new.root = st.root
            BY <1>9, <5>1
          <5> QED
            BY <5>1, <5>2
        <4>3. new # Finish(st)
          BY <1>9, <4>2
        <4>4. tr.sound => tr.seen = Rowids(rows, n + 1)
          BY <1>5, <1>8, <2>2, <4>2, RowidsGrow
        <4> QED
          BY <2>2, <3>2, <4>2, <4>3, <4>4
      <3>3. CASE n + 1 \notin DOMAIN rows
        <4>1. new = Finish(st)
          BY <2>2, <3>3 DEF From
        <4>2. new.pc = "halt" /\ new.done = TRUE /\ new.op = st.op /\ new.root = st.root
          BY <1>9, <4>1, Zenon
        <4>3. DOMAIN rows = 1 .. n
          <5>1. n \in Nat /\ (n = 0 \/ n \in 1 .. Len(rows)) /\ n + 1 \notin 1 .. Len(rows)
            BY <2>2, <3>1, <3>3
          <5>2. Len(rows) = n
            <6>1. \A k \in Nat : (n = 0 \/ n \in 1 .. k) /\ n + 1 \notin 1 .. k => k = n
              BY <5>1
            <6> QED
              BY <3>1, <5>1, <6>1
          <5> QED
            BY <3>1, <5>2
        <4> QED
          BY <2>2, <4>2, <4>3 DEF Rowids
      <3> QED
        BY <3>2, <3>3
    <2>3. CASE st.pc = "start" /\ Readable(working, st.root)
      <3>1. st.at = 0 /\ before.seen = <<>>
        BY <1>3, <1>5, <2>1, <2>3 DEF ScanStands, Live, Fresh
      <3>2. Rowids(rows, 0) = <<>>
        BY DEF Rowids
      <3>3. new = From(0 + 1)
        BY <1>2, <2>3 DEF Select, From, rows
      <3> QED
        BY <2>1, <2>2, <2>3, <3>1, <3>2, <3>3
    <2>4. CASE st.pc = "start" /\ ~Readable(working, st.root)
      <3>1. new = Err(st, "column")
        BY <1>2, <2>4 DEF Select
      <3>2. /\ new.pc = "column" /\ new.at = st.at /\ new.row = st.row /\ new.done = st.done
            /\ new.op = st.op /\ new.root = st.root
        BY <1>9, <3>1, Zenon
      <3>3. ~tr.sound /\ new # Finish(st)
        BY <1>5, <1>7, <1>9, <3>2 DEF Disturbed
      <3> QED
        BY <1>5, <3>2, <3>3
    <2>5. CASE st.pc # "start" /\ ~before.sound
      <3>1. new.pc # "start" /\ new.op = st.op /\ new.root = st.root
        <4>1. \/ \E i, v : new = Yield(st, i, v)
              \/ \E pc \in {"row", "halt"} : new = Err(st, pc)
              \/ new = Finish(st)
          BY <1>2, <1>5, <2>5 DEF Select, From, RowStands, Counters
        <4> QED
          <5>1. ASSUME NEW i, NEW v, new = Yield(st, i, v) PROVE <3>1
            <6>1. new.pc = "next" /\ new.op = st.op /\ new.root = st.root
              BY <1>9, <5>1
            <6> QED
              BY <6>1
          <5>2. ASSUME NEW pc \in {"row", "halt"}, new = Err(st, pc) PROVE <3>1
            <6>1. new.pc = pc /\ new.op = st.op /\ new.root = st.root
              BY <1>9, <5>2
            <6> QED
              BY <6>1
          <5>3. CASE new = Finish(st)
            BY <1>9, <5>3
          <5> QED
            BY <4>1, <5>1, <5>2, <5>3
      <3> QED
        BY <1>8, <2>5, <3>1
    <2>6. CASE st.pc # "start" /\ before.sound
      <3>1. /\ st.pc = "next" /\ Readable(working, st.root) /\ st.at \in DOMAIN rows
            /\ before.seen = Rowids(rows, st.at)
        BY <1>3, <1>5, <2>1, <2>6 DEF ScanStands, Live, rows
      <3>2. st.at > 0
        <4>1. DOMAIN rows = 1 .. Len(rows) /\ Len(rows) \in Nat
          BY <2>1, <3>1, ListFacts
        <4> QED
          BY <3>1, <4>1
      <3>3. new = From(st.at + 1)
        BY <1>2, <3>1, <3>2 DEF Select, From, rows, NextRow
      <3> QED
        BY <1>5, <2>1, <2>2, <3>1, <3>3
    <2> QED
      BY <2>3, <2>4, <2>5, <2>6
  <1> QED
    BY <1>1, <1>3, <1>4, <1>5, <1>8, <1>10 DEF ScanStands, SeesAll, Live

\* One step: what stands of every scan, and that a scan which ends has seen all.
LEMMA ScanStep ==
  ASSUME ConnInv, ScanInv, [Next]_vars, ~RowStands(Finalized)
  PROVE  ScanInv' /\ \A h \in Handles : SeesAll(h)
  <1> DEFINE Good == /\ trail' = [h \in Handles |-> trail'[h]]
                     /\ \A h \in Handles : TrailStands(trail'[h]) /\ ScanStands(h)' /\ SeesAll(h)
  <1>1. IsPages(working) /\ IsPages(working') /\ RowsStand
    <2>1. RowsStand /\ TablesInv /\ TablesInv'
      BY TablesStep DEF ConnInv, TextInv
    <2> QED
      BY <2>1 DEF TablesInv
  <1>2. ASSUME NEW h \in Handles, Live(h) PROVE RowStands(stmt[h])
    BY <1>1, <1>2 DEF RowsStand
  <1>3. ASSUME NEW h \in Handles, stmt'[h] = stmt[h] PROVE SeesAll(h)
    <2> SUFFICES ASSUME Live(h), ~stmt[h].done, stmt[h] = Finish(stmt[h]) PROVE FALSE
      BY <1>3 DEF SeesAll
    <2>1. Finish(stmt[h]).done = TRUE
      BY <1>2, Answers
    <2> QED
      BY <2>1
  <1>4. ASSUME UNCHANGED stmt, UNCHANGED trail, UNCHANGED working PROVE Good
    BY <1>1, <1>3, <1>4, ScanStays DEF ScanInv
  <1>5. ASSUME Trails
        PROVE  /\ trail' = [h \in Handles |-> trail'[h]]
               /\ \A h \in Handles : TrailStands(trail'[h])
               /\ \A h \in Handles : stmt'[h] = stmt[h] => ScanStands(h)'
    <2>1. /\ trail' = [h \in Handles |-> trail'[h]]
          /\ \A h \in Handles : trail'[h] = IF Cut(h) THEN Disturbed ELSE trail[h]
      BY <1>5 DEF Trails
    <2>2. TrailStands(Disturbed)
      BY DEF TrailStands, Disturbed
    <2>3. \A h \in Handles : TrailStands(trail'[h])
      BY <2>1, <2>2 DEF ScanInv
    <2>4. ASSUME NEW h \in Handles, stmt'[h] = stmt[h] PROVE ScanStands(h)'
      BY <1>1, <2>1, <2>4, ScanStays
    <2> QED
      BY <2>1, <2>3, <2>4
  <1>6. ASSUME NEW h \in Handles, NEW new, NEW tr, stmt' = [stmt EXCEPT ![h] = new],
               trail' = [trail EXCEPT ![h] = tr], UNCHANGED working, TrailStands(tr),
               ScanStands(h)', SeesAll(h)
        PROVE  Good
    <2>1. stmt'[h] = new /\ trail'[h] = tr /\ trail' = [g \in Handles |-> trail'[g]]
      BY <1>1, <1>6 DEF RowsStand, ScanInv
    <2>2. ASSUME NEW g \in Handles, g # h
          PROVE  TrailStands(trail'[g]) /\ ScanStands(g)' /\ SeesAll(g)
      <3>1. stmt'[g] = stmt[g] /\ trail'[g] = trail[g]
        BY <1>1, <1>6, <2>2 DEF RowsStand, ScanInv
      <3> QED
        BY <1>1, <1>3, <1>6, <3>1, ScanStays DEF ScanInv
    <2> QED
      BY <1>6, <2>1, <2>2
  <1>0. TrailStands(Fresh)
    BY DEF TrailStands, Fresh
  <1> HIDE DEF Good
  <1>7. ASSUME Transact PROVE Good
    <2>1. ASSUME Begin \/ Commit PROVE Good
      BY <1>4, <2>1 DEF Begin, Commit, Saved, Unsaved
    <2>2. ASSUME Rollback PROVE Good
      <3>1. UNCHANGED stmt /\ Trails
        BY <2>2 DEF Rollback
      <3> QED
        BY <1>3, <1>5, <3>1 DEF Good
    <2> QED
      BY <1>7, <2>1, <2>2 DEF Transact
  <1>8. ASSUME NEW s \in Statements, Execute(s) PROVE Good
    <2>1. UNCHANGED stmt /\ Trails
      BY <1>8 DEF Execute
    <2> QED
      BY <1>3, <1>5, <2>1 DEF Good
  <1>9. ASSUME NEW h \in Handles, Step(h) PROVE Good
    <2>1. Live(h) /\ ~stmt[h].done /\ RowStands(stmt[h])
      BY <1>2, <1>9 DEF Step
    <2>2. ASSUME StepSelect(h) PROVE Good
      <3>1. ScanStands(h)' /\ SeesAll(h) /\ TrailStands(trail'[h])
        BY <1>1, <2>1, <2>2, SelectGoesOn
      <3>2. /\ stmt' = [stmt EXCEPT ![h] = stmt'[h]] /\ trail' = [trail EXCEPT ![h] = trail'[h]]
            /\ UNCHANGED working
        BY <1>1, <2>2 DEF StepSelect, store, pager, RowsStand, ScanInv
      <3> QED
        BY <1>6, <3>1, <3>2
    <2>3. ASSUME StepInsert(h) PROVE Good
      <3>1. Trails /\ stmt[h].op = "insert"
            /\ \E new \in Inserting(stmt[h]) : stmt' = [stmt EXCEPT ![h] = new]
        BY <2>3, InsertingSteps DEF StepInsert
      <3>2. stmt'[h].op = "insert"
        BY <1>1, <2>1, <3>1, InsertingStands DEF RowsStand
      <3>3. ScanStands(h)' /\ SeesAll(h)
        BY <3>1, <3>2 DEF ScanStands, SeesAll
      <3>4. ASSUME NEW g \in Handles, g # h PROVE stmt'[g] = stmt[g]
        BY <1>1, <3>1, <3>4 DEF RowsStand
      <3> QED
        BY <1>3, <1>5, <3>1, <3>3, <3>4 DEF Good
    <2> QED
      BY <1>9, <2>2, <2>3 DEF Step
  <1>10. ASSUME NEW h \in Handles, Reset(h) PROVE Good
    <2> DEFINE new == [stmt[h] EXCEPT !.pc = "start", !.at = 0, !.row = <<>>, !.done = FALSE]
    <2>1. Live(h) /\ RowStands(stmt[h]) /\ UNCHANGED working
          /\ stmt' = [stmt EXCEPT ![h] = new] /\ trail' = [trail EXCEPT ![h] = Fresh]
      BY <1>2, <1>10 DEF Reset, store, pager
    <2>2. new.pc = "start" /\ new.at = 0 /\ stmt'[h] = new /\ trail'[h] = Fresh
      BY <1>1, <2>1 DEF RowStands, RowsStand, ScanInv
    <2>3. ScanStands(h)'
      BY <2>2 DEF ScanStands
    <2>4. SeesAll(h)
      <3>1. Finish(stmt[h]).pc = "halt"
        BY <2>1, Answers
      <3> QED
        BY <2>2, <3>1 DEF SeesAll
    <2> QED
      BY <1>6, <1>0, <2>1, <2>3, <2>4
  <1>11. ASSUME NEW h \in Handles, Finalize(h) PROVE Good
    <2>1. Live(h) /\ RowStands(stmt[h]) /\ UNCHANGED working /\ stmt'[h] = Finalized
          /\ stmt' = [stmt EXCEPT ![h] = Finalized] /\ trail' = [trail EXCEPT ![h] = Fresh]
      BY <1>1, <1>2, <1>11 DEF Finalize, store, pager, RowsStand
    <2>2. ScanStands(h)'
      BY <2>1 DEF ScanStands, Live
    <2>3. SeesAll(h)
      <3>1. RowStands(Finish(stmt[h]))
        BY <2>1, Zenon DEF RowStands, Finish, Counters
      <3> QED
        BY <2>1, <3>1 DEF SeesAll
    <2> QED
      BY <1>6, <1>0, <2>1, <2>2, <2>3
  <1>12. ASSUME NEW h \in Handles, NEW t \in Names, NEW op \in {"select", "insert"}, Prepare(h, op, t)
         PROVE  Good
    <2>1. ~Live(h) /\ UNCHANGED working /\ stmt' = [stmt EXCEPT ![h] = Prepared(op, schema[t])]
          /\ trail' = [trail EXCEPT ![h] = Fresh]
      BY <1>12 DEF Prepare, store, pager, Live
    <2>2. stmt'[h].pc = "start" /\ stmt'[h].at = 0 /\ trail'[h] = Fresh
      BY <1>1, <2>1 DEF RowsStand, Prepared, ScanInv
    <2>3. ScanStands(h)' /\ SeesAll(h)
      BY <2>1, <2>2 DEF ScanStands, SeesAll
    <2> QED
      BY <1>6, <1>0, <2>1, <2>3
  <1>13. ASSUME UNCHANGED vars PROVE Good
    BY <1>4, <1>13 DEF vars, store, pager
  <1>14. Good
    BY <1>7, <1>8, <1>9, <1>10, <1>11, <1>12, <1>13 DEF Next
  <1> QED
    BY <1>1, <1>14 DEF ScanInv, Good

\* A prepared SELECT that was stepped to its end, while other statements ran
\* that took no row out of its table and put none before others, has yielded
\* every row that the table then has, once and in order.  Finalized is no statement's record.
THEOREM ScansSeeAllRows ==
  ASSUME ~RowStands(Finalized)
  PROVE  CSpec => ScansWhole
  <1>1. CInit => ScanInv
    <2> SUFFICES ASSUME CInit PROVE ScanInv
      OBVIOUS
    <2>1. \A h \in Handles : trail[h] = Fresh /\ stmt[h] = Finalized
      BY DEF CInit, Init
    <2> QED
      BY <2>1 DEF ScanInv, TrailStands, Fresh, ScanStands, Live, CInit, Init
  <1>2. ConnInv /\ ScanInv /\ [CNext]_cvars => ScanInv' /\ [\A h \in Handles : SeesAll(h)]_vars
    BY CallsAreSteps, ScanStep
  <1>3. (\A h \in Handles : SeesAll(h)) <=>
        \A h \in Handles :
          (Live(h) /\ stmt[h].op = "select" /\ ~stmt[h].done /\ stmt'[h] = Finish(stmt[h])
             /\ trail[h].sound)
            => trail[h].seen = [i \in DOMAIN working[stmt[h].root] |-> working[stmt[h].root][i].rowid]
    BY DEF SeesAll
  <1> QED
    BY <1>1, <1>2, <1>3, ConnInvariant, PTL DEF CSpec, ScansWhole
=============================================================================
