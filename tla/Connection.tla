----------------------------- MODULE Connection -----------------------------
(***************************************************************************)
(* Connection and Statement of liter: statements executed at once, with or *)
(* without BEGIN, between the steps of prepared ones, all on one pager.    *)
(*                                                                         *)
(* The pager is what PageStore promises, with its rollback as it is when   *)
(* commits and rollbacks fail.  A table is one page, its root, with rows   *)
(* in the order of their rowids; pages are numbered from 1, and a new one  *)
(* comes after the last (allocate_page).                                   *)
(***************************************************************************)
EXTENDS Integers, Sequences, SequencesExt

CONSTANTS
  Names, Handles,
  Vals,       \* the values of rows: the row with rowid r holds Vals[r]
  Unwanted,   \* the values that a DELETE is for
  Null,       \* what a register holds that nothing was put in
  Finalized,  \* a handle without a statement
  MaxPages, MaxFaults

ASSUME ConnectionConstants == MaxPages \in Nat /\ MaxFaults \in Nat

VARIABLES
  committed, working, \* pages: as last committed, as the connection sees them
  writer,             \* the pager's state is Writer
  dirty,              \* the pages it has written since begin_write
  journal,            \* their records: "whole", "frail", "spoiled" or "lost"
  inTxn,              \* in_txn: BEGIN was executed
  schema,             \* from names of tables to their root pages
  stmt,               \* the prepared statements
  trail,              \* history: the scan each of them makes
  orphans,            \* history: tables whose creation was rolled back
  faults              \* commits and rollbacks that have failed

pager == <<committed, working, writer, dirty, journal, faults>>
store == <<pager, inTxn, schema, orphans>>
vars == <<store, stmt, trail>>

-----------------------------------------------------------------------------
\* Rows and statements

NewRowid(rows) == IF rows = <<>> THEN 1 ELSE Last(rows).rowid + 1

\* Before the rows from that rowid on.
With(rows, rowid) ==
  InsertAt(rows, Cardinality({i \in DOMAIN rows : rows[i].rowid < rowid}) + 1,
           [rowid |-> rowid, val |-> Vals[rowid]])

\* DELETE: the rows with another value stay, in their order.
Without(rows, v) ==
  LET kept == {i \in DOMAIN rows : rows[i].val # v}
      nth(k) == CHOOSE i \in kept : Cardinality(kept \cap 1 .. i) = k
  IN  [k \in 1 .. Cardinality(kept) |-> rows[nth(k)]]

Full(rows) == NewRowid(rows) > Len(Vals)

\* A page of zeros is of no kind a page can be of.
Blank == [offset \in {0} |-> 0]

Readable(pages, root) == root \in DOMAIN pages /\ pages[root] # Blank

\* An INSERT of one row, or of two of which the second cannot be computed.
Statements ==
  [op : {"create"}, table : Names] \cup
  [op : {"insert"}, table : Names, fails : BOOLEAN] \cup
  [op : {"delete"}, table : Names, val : Unwanted]

Failing(pages) == [pages |-> pages, ok |-> FALSE]
Done(pages) == [pages |-> pages, ok |-> TRUE]

\* A statement run from its start to its end or to its first error.  Pages
\* are only written under a write transaction, w.
Run(s, root, pages, w) ==
  IF s.op = "create" THEN IF w THEN Done(Append(pages, <<>>)) ELSE Failing(pages)
  ELSE IF ~Readable(pages, root) THEN Failing(pages)
  ELSE IF s.op = "insert"
         THEN IF ~w \/ Full(pages[root]) THEN Failing(pages)
              ELSE [pages |-> [pages EXCEPT ![root] = With(@, NewRowid(@))], ok |-> ~s.fails]
         ELSE LET rest == [pages EXCEPT ![root] = Without(@, s.val)]
              IN  IF w \/ rest = pages THEN Done(rest) ELSE Failing(pages)

-----------------------------------------------------------------------------
(* The pager.  The journal has a record of each dirty page; the next goes  *)
(* where its file was last read or written.  A commit that failed, and a   *)
(* rollback that could not read the journal, leave that place before the   *)
(* records ("frail"), and the next record goes over them ("spoiled").  A   *)
(* rollback from such records puts anything anywhere ("lost"), and what    *)
(* the connection does then is not followed.                               *)

Touched(pages) == {p \in DOMAIN pages : p \notin DOMAIN working \/ pages[p] # working[p]}

\* Only a page that is not dirty gets a record.
Journal(pages) ==
  IF journal = "frail" /\ ~(Touched(pages) \subseteq dirty) THEN "spoiled" ELSE journal

Writes(pages) ==
  /\ working' = pages /\ dirty' = dirty \cup Touched(pages) /\ journal' = Journal(pages)
  /\ UNCHANGED <<committed, writer, faults>>

Ended == writer' = FALSE /\ dirty' = {} /\ journal' = "whole"

Saved(pages) ==
  /\ committed' = pages /\ working' = pages /\ Ended
  /\ UNCHANGED faults

Unsaved(pages) ==
  /\ faults < MaxFaults /\ faults' = faults + 1
  /\ working' = pages /\ dirty' = dirty \cup Touched(pages) /\ writer' = TRUE
  /\ journal' = IF Journal(pages) = "spoiled" THEN "spoiled" ELSE "frail"
  /\ UNCHANGED committed

RolledBack(pages) ==
  /\ Journal(pages) # "spoiled"
  /\ working' = committed /\ Ended
  /\ UNCHANGED <<committed, faults>>

\* The record of a page that the transaction has added holds zeros.
Original(old, p) == IF p \in DOMAIN old THEN old[p] ELSE Blank

Restored(old, pages, S) ==
  [p \in DOMAIN pages |-> IF p \in S THEN Original(old, p) ELSE pages[p]]

\* The file fails before the journal is read to its end, or after some of
\* the pages were restored: the transaction goes on with those.
RolledHalfBack(pages) ==
  /\ faults < MaxFaults /\ faults' = faults + 1
  /\ Journal(pages) # "spoiled"
  /\ \E S \in SUBSET (dirty \cup Touched(pages)) :
       /\ working' = Restored(committed, pages, S)
       /\ dirty' = (dirty \cup Touched(pages)) \ S
       /\ journal' = "whole" \/ (S = {} /\ journal' = "frail")
  /\ writer' = TRUE
  /\ UNCHANGED committed

Lost(pages) ==
  /\ Journal(pages) = "spoiled" /\ journal' = "lost"
  /\ UNCHANGED <<committed, working, writer, dirty, faults>>

-----------------------------------------------------------------------------
\* Scans

Fresh == [seen |-> <<>>, sound |-> TRUE]
Disturbed == [seen |-> <<>>, sound |-> FALSE]

\* Rows were taken out of the page that h's SELECT is reading, or put before
\* others, or the page is not there, or not the same.
Cut(h) ==
  stmt[h] # Finalized /\ stmt[h].op = "select" /\ stmt[h].pc # "start" /\ ~stmt[h].done /\
  LET root == stmt[h].root
  IN  \/ ~Readable(working, root) \/ ~Readable(working', root)
      \/ ~IsPrefix(working[root], working'[root])

Trails == trail' = [h \in Handles |-> IF Cut(h) THEN Disturbed ELSE trail[h]]

-----------------------------------------------------------------------------
\* Connection::open

\* The tables that the rows of page 1 describe.
Loaded(pages) ==
  LET rows == IF pages = <<>> THEN <<>> ELSE pages[1]
      named == {i \in DOMAIN rows : rows[i].val \in Names \X (1 .. MaxPages)}
      entry(t) == CHOOSE i \in named : rows[i].val[1] = t
  IN  [t \in {rows[i].val[1] : i \in named} |-> rows[entry(t)].val[2]]

\* A new file, or one that another program gave a table.
Files ==
  { <<>> } \cup
  { << << [rowid |-> 1, val |-> <<t, 2>>] >>, With(<<>>, 1) >> : t \in Names }

Init ==
  /\ committed \in Files /\ working = committed
  /\ writer = FALSE /\ dirty = {} /\ journal = "whole" /\ inTxn = FALSE
  /\ schema = Loaded(committed)
  /\ stmt = [h \in Handles |-> Finalized]
  /\ trail = [h \in Handles |-> Fresh]
  /\ orphans = {} /\ faults = 0

-----------------------------------------------------------------------------
\* Connection::execute: transaction control

Begin ==
  /\ writer' = TRUE /\ inTxn' = TRUE
  /\ UNCHANGED <<committed, working, dirty, journal, faults, schema, orphans, stmt, trail>>

Commit ==
  /\ writer
  /\ \/ Saved(working) /\ inTxn' = FALSE
     \/ Unsaved(working) /\ UNCHANGED inTxn
  /\ UNCHANGED <<schema, orphans, stmt, trail>>

\* Mutant: in_txn stays as it is.
LeftAsWas == inTxn

Left == FALSE

\* The schema keeps the tables the transaction created.
Rollback ==
  /\ writer
  /\ \/ RolledBack(working) /\ inTxn' = Left
     \/ (RolledHalfBack(working) \/ Lost(working)) /\ UNCHANGED inTxn
  /\ orphans' = orphans \cup {t \in DOMAIN schema : ~Readable(working', schema[t])}
  /\ Trails
  /\ UNCHANGED <<schema, stmt>>

-----------------------------------------------------------------------------
\* Connection::execute: other statements

NewPage == Len(working) + 1

RootOf(s) == IF s.table \in DOMAIN schema THEN schema[s.table] ELSE 0

\* Mutant: a table is known under its name before it is committed.
KnownAtOnce(s, kept) == s.op = "create"

Known(s, kept) == s.op = "create" /\ kept

\* A table of the same name is forgotten, not refused.
Catalogued(s, kept) ==
  IF Known(s, kept)
    THEN /\ schema' = [t \in DOMAIN schema \cup {s.table} |->
                         IF t = s.table THEN NewPage ELSE schema[t]]
         /\ orphans' = orphans \ {s.table}
    ELSE UNCHANGED <<schema, orphans>>

\* Mutant: the rollback after an error is left out.
UndoneNot(pages) ==
  /\ working' = pages /\ writer' = TRUE
  /\ UNCHANGED <<committed, dirty, journal, faults>>

\* Whether that rollback fails is not looked at.
Undone(pages) == RolledBack(pages) \/ RolledHalfBack(pages) \/ Lost(pages)

\* Outside a transaction: begin_write, the program, then commit or rollback.
ExecuteAlone(s) ==
  LET r == Run(s, RootOf(s), working, TRUE)
  IN  \/ ~r.ok /\ Undone(r.pages) /\ UNCHANGED <<schema, orphans>>
      \/ r.ok /\ Saved(r.pages) /\ Catalogued(s, TRUE)
      \/ r.ok /\ Unsaved(r.pages) /\ Catalogued(s, FALSE)

\* Inside one, what a failing statement has done stays done.
ExecuteInside(s) ==
  LET r == Run(s, RootOf(s), working, writer)
  IN  Writes(r.pages) /\ Catalogued(s, r.ok)

Execute(s) ==
  /\ s.op = "create" \/ s.table \in DOMAIN schema
  /\ s.op = "create" => Len(working) < MaxPages
  /\ (s.op = "insert" /\ Readable(working, RootOf(s))) => ~Full(working[RootOf(s)])
  /\ IF inTxn THEN ExecuteInside(s) ELSE ExecuteAlone(s)
  /\ Trails
  /\ UNCHANGED <<inTxn, stmt>>

-----------------------------------------------------------------------------
\* Statements: SELECT, which yields the rows of a table, and INSERT of one row

Prepared(op, root) ==
  [op |-> op, root |-> root, pc |-> "start", at |-> 0, reg |-> Null,
   row |-> <<>>, done |-> FALSE]

Prepare(h, op, t) ==
  /\ stmt[h] = Finalized /\ t \in DOMAIN schema
  /\ stmt' = [stmt EXCEPT ![h] = Prepared(op, schema[t])]
  /\ trail' = [trail EXCEPT ![h] = Fresh]
  /\ UNCHANGED store

\* What step() answers.  After an error the machine is past the instruction
\* that failed, and the row before stays in the column cache.
Yield(st, i, value) ==
  [st EXCEPT !.pc = "next", !.at = i, !.reg = value, !.row = <<value>>]
Err(st, pc) == [st EXCEPT !.pc = pc]
Finish(st) == [st EXCEPT !.pc = "halt", !.row = <<>>, !.done = TRUE]

\* Mutant: after a row the cursor moves on twice.
NextRowSkips(st) == st.at + 2

NextRow(st) == st.at + 1

\* SELECT: Rewind, Column, ResultRow, Next.  A Rewind that failed leads to a
\* Column that fails and to a ResultRow with what was left in the register.
Select(st) ==
  LET there == Readable(working, st.root)
      rows == working[st.root]
      From(i) == IF i \in DOMAIN rows THEN Yield(st, i, rows[i].val) ELSE Finish(st)
  IN  CASE st.pc = "start" -> IF there THEN From(1) ELSE Err(st, "column")
        [] st.pc = "column" -> Err(st, "row")
        [] st.pc = "row" -> Yield(st, 0, st.reg)
        [] st.pc = "next" /\ st.at = 0 -> Finish(st)
        [] st.pc = "next" /\ st.at > 0 -> IF there THEN From(NextRow(st)) ELSE Err(st, "halt")
        [] st.pc = "halt" -> Finish(st)

Traced(tr, st, new) ==
  IF new.done THEN Fresh
  ELSE IF ~tr.sound \/ (new.row = st.row /\ new.at = st.at) THEN Disturbed
  ELSE [tr EXCEPT !.seen = Append(@, working[st.root][new.at].rowid)]

StepSelect(h) ==
  LET st == stmt[h]
      new == Select(st)
  IN  /\ st.op = "select"
      /\ stmt' = [stmt EXCEPT ![h] = new]
      /\ trail' = [trail EXCEPT ![h] = Traced(@, st, new)]
      /\ UNCHANGED store

\* INSERT: NewRowid, Insert, Halt.  A NewRowid that failed leads to an Insert
\* with what was left in the register, a rowid from before a reset or none;
\* after an Insert that failed only Halt is left.
StepInsert(h) ==
  LET st == stmt[h]
      there == Readable(working, st.root)
      rows == working[st.root]
      Becomes(new) == stmt' = [stmt EXCEPT ![h] = new]
      Insert(rowid) ==
        IF writer /\ there /\ rowid \in DOMAIN Vals
          THEN /\ Writes([working EXCEPT ![st.root] = With(@, rowid)])
               /\ Becomes([Finish(st) EXCEPT !.reg = rowid])
          ELSE UNCHANGED pager /\ Becomes([Err(st, "halt") EXCEPT !.reg = rowid])
  IN  /\ st.op = "insert"
      /\ \/ st.pc = "start" /\ there /\ ~Full(rows) /\ Insert(NewRowid(rows))
         \/ st.pc = "start" /\ ~there /\ UNCHANGED pager /\ Becomes(Err(st, "insert"))
         \/ st.pc = "insert" /\ (there => Len(rows) < Len(Vals)) /\ Insert(st.reg)
         \/ st.pc = "halt" /\ UNCHANGED pager /\ Becomes(Finish(st))
      /\ Trails
      /\ UNCHANGED <<inTxn, schema, orphans>>

Live(h) == stmt[h] # Finalized

\* step() on a statement that is done answers Done and does nothing.
Step(h) == Live(h) /\ ~stmt[h].done /\ (StepSelect(h) \/ StepInsert(h))

\* Of the registers reset clears only those with aggregate states.
Reset(h) ==
  /\ Live(h)
  /\ stmt' = [stmt EXCEPT ![h] = [@ EXCEPT !.pc = "start", !.at = 0, !.row = <<>>, !.done = FALSE]]
  /\ trail' = [trail EXCEPT ![h] = Fresh]
  /\ UNCHANGED store

Finalize(h) ==
  /\ Live(h)
  /\ stmt' = [stmt EXCEPT ![h] = Finalized]
  /\ trail' = [trail EXCEPT ![h] = Fresh]
  /\ UNCHANGED store

-----------------------------------------------------------------------------
Transact == Begin \/ Commit \/ Rollback

Next ==
  /\ journal # "lost"
  /\ \/ Transact
     \/ \E s \in Statements : Execute(s)
     \/ \E h \in Handles : Step(h) \/ Reset(h) \/ Finalize(h)
     \/ \E h \in Handles, t \in Names, op \in {"select", "insert"} : Prepare(h, op, t)

Spec == Init /\ [][Next]_vars

-----------------------------------------------------------------------------
\* Properties

Rows == [rowid : 1 .. Len(Vals), val : Range(Vals) \cup (Names \X (1 .. MaxPages))]
Pages == Seq(Seq(Rows) \cup {Blank})

TypeOK ==
  /\ committed \in Pages /\ working \in Pages
  /\ dirty \subseteq DOMAIN working /\ journal \in {"whole", "frail", "spoiled", "lost"}
  /\ writer \in BOOLEAN /\ inTxn \in BOOLEAN
  /\ DOMAIN schema \subseteq Names /\ \A t \in DOMAIN schema : schema[t] \in 1 .. MaxPages
  /\ orphans \subseteq DOMAIN schema
  /\ faults \in 0 .. MaxFaults

(* execute decides by in_txn whether a statement commits by itself, and    *)
(* the pager by its state whether there is anything to commit: after BEGIN *)
(* the two agree until COMMIT or ROLLBACK, whatever fails in between; a    *)
(* pager in Writer without BEGIN is left over from a commit or a rollback  *)
(* that failed, and every page it sees otherwise than it was committed is  *)
(* still dirty, so that the next rollback puts it back.                    *)
TransactionsAgree ==
  journal # "lost" =>
    /\ inTxn => writer
    /\ ~writer => working = committed
    /\ writer /\ ~inTxn => faults > 0
    /\ \A p \in DOMAIN working \ dirty : working[p] = Original(committed, p)

(* A table in the schema has a page that can be read, and none shares it   *)
(* with another -- except tables that a ROLLBACK, whole or half-way, has   *)
(* made away with and the schema still has: their page may by now be       *)
(* another table's (execute, ROLLBACK).                                    *)
TablesStand ==
  journal # "lost" =>
    \A t \in DOMAIN schema \ orphans :
      /\ Readable(working, schema[t])
      /\ \A u \in DOMAIN schema \ (orphans \cup {t}) : schema[u] # schema[t]

(* A prepared SELECT that is stepped to its end, with other statements     *)
(* executed between its steps, has yielded the rows that the table then    *)
(* has, each once and in their order, unless rows were taken out of it     *)
(* meanwhile or put before others, or an earlier step failed.              *)
ScansWhole ==
  [][\A h \in Handles :
       (Live(h) /\ stmt[h].op = "select" /\ ~stmt[h].done /\ stmt'[h] = Finish(stmt[h])
          /\ trail[h].sound)
         => trail[h].seen = [i \in DOMAIN working[stmt[h].root] |-> working[stmt[h].root][i].rowid]]_vars

Runs(pages) == {Run(r[1], r[2], pages, TRUE) : r \in Statements \X (1 .. MaxPages)}

Whole(pages) == {r.pages : r \in {x \in Runs(pages) : x.ok}}

\* A prepared INSERT may put its row anywhere.
Partial(pages) ==
  {r.pages : r \in Runs(pages)} \cup
  {[pages EXCEPT ![i] = With(@, rowid)] :
     i \in {p \in DOMAIN pages : Readable(pages, p)}, rowid \in DOMAIN Vals}

Halfway(old, new) == {Restored(old, new, S) : S \in SUBSET DOMAIN new}

Promise ==
  INSTANCE Database WITH
    Contents <- Files,
    current <- working,
    txn <- CASE inTxn -> "open" [] ~inTxn /\ writer -> "limbo" [] OTHER -> "none",
    undo <- journal,
    errors <- faults

(* Statements and transactions are what Database says: no part of a        *)
(* statement that failed outside a transaction is ever committed unless    *)
(* its rollback failed too; nothing is committed but by a commit; and what *)
(* was committed is lost only to a rollback after more was written behind  *)
(* a commit or a rollback that failed.                                     *)
ImplementsDatabase == Promise!Spec
=============================================================================
