----------------------------- MODULE CInterface -----------------------------
(***************************************************************************)
(* The C interface of liter-ffi around Connection: sqlite3_exec,           *)
(* sqlite3_prepare_v2, sqlite3_step, sqlite3_reset, sqlite3_finalize and   *)
(* the sqlite3_column functions, called from one thread.  A caller         *)
(* finalizes its statements before it closes the connection.               *)
(***************************************************************************)
EXTENDS Connection

CONSTANT NoText

VARIABLE text \* text_cache of each handle, which sqlite3_column_text points into

cvars == <<vars, text>>

CInit == Init /\ text = [h \in Handles |-> NoText]

Exec ==
  /\ Transact \/ \E s \in Statements : Execute(s)
  /\ UNCHANGED text

PrepareV2(h) ==
  /\ \E t \in Names, op \in {"select", "insert"} : Prepare(h, op, t)
  /\ UNCHANGED text

\* Mutant: the cached text outlives the row.
ClearedNot(h) == text

Cleared(h) == [text EXCEPT ![h] = NoText]

StepStatement(h) ==
  /\ Step(h) \/ (Live(h) /\ stmt[h].done /\ UNCHANGED vars)
  /\ text' = Cleared(h)

ResetStatement(h) == Reset(h) /\ text' = Cleared(h)

FinalizeStatement(h) == Finalize(h) /\ text' = [text EXCEPT ![h] = NoText]

\* A second call for a column returns the same pointer.
ColumnText(h) ==
  /\ Live(h) /\ text[h] = NoText
  /\ stmt[h].row # <<>> /\ stmt[h].row # <<Null>>
  /\ text' = [text EXCEPT ![h] = stmt[h].row[1]]
  /\ UNCHANGED vars

CNext ==
  /\ journal # "lost"
  /\ \/ Exec
     \/ \E h \in Handles :
          \/ PrepareV2(h) \/ StepStatement(h) \/ ResetStatement(h) \/ FinalizeStatement(h)
          \/ ColumnText(h)

CSpec == CInit /\ [][CNext]_cvars

-----------------------------------------------------------------------------
(* The text a caller has a pointer to is the text of the row that the      *)
(* statement is on, whatever was executed or stepped since                 *)
(* (sqlite3_column_text, sqlite3_column_int64).                            *)
TextIsOfRow ==
  \A h \in Handles : text[h] # NoText => Live(h) /\ stmt[h].row = <<text[h]>>
=============================================================================
