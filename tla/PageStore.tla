----------------------------- MODULE PageStore -----------------------------
(***************************************************************************)
(* What the pager promises its callers, with no file, cache, journal or    *)
(* log in sight: a map from page numbers to contents that one write        *)
(* transaction at a time may change, commit or roll back, with nested      *)
(* savepoints.  JournalPager and WalPager implement it.                    *)
(*                                                                         *)
(* The contents of a page past the end of the database are Zero.           *)
(***************************************************************************)
EXTENDS Integers, Sequences

CONSTANTS
  Pages,     \* page numbers
  Vals,      \* what a page may hold
  Zero       \* what a page that was never written holds

VARIABLES
  committed, \* what a reader that starts now must see
  working,   \* what the connection itself sees
  active,    \* a write transaction is open
  saves      \* the contents each open savepoint promises to bring back

vars == <<committed, working, active, saves>>

Contents == [Pages -> Vals]

TypeOK ==
  /\ committed \in Contents
  /\ working \in Contents
  /\ active \in BOOLEAN
  /\ saves \in Seq(Contents)

Init ==
  /\ committed \in Contents
  /\ working = committed
  /\ active = FALSE
  /\ saves = <<>>

Begin ==
  /\ ~active
  /\ active' = TRUE
  /\ UNCHANGED <<committed, working, saves>>

Write(p, v) ==
  /\ active
  /\ working' = [working EXCEPT ![p] = v]
  /\ UNCHANGED <<committed, active, saves>>

Commit ==
  /\ active
  /\ committed' = working
  /\ active' = FALSE
  /\ saves' = <<>>
  /\ UNCHANGED working

\* A rollback undoes the pages one after the other ...
UndoPage(p) ==
  /\ active
  /\ working' = [working EXCEPT ![p] = committed[p]]
  /\ UNCHANGED <<committed, active, saves>>

\* ... and is over when the whole of the committed contents is back.
Rollback ==
  /\ active
  /\ working' = committed
  /\ active' = FALSE
  /\ saves' = <<>>
  /\ UNCHANGED committed

Savepoint ==
  /\ active
  /\ saves' = Append(saves, working)
  /\ UNCHANGED <<committed, working, active>>

\* Savepoint n itself stays open: it can be rolled back to again.
RollbackTo(n) ==
  /\ active
  /\ n \in 1..Len(saves)
  /\ working' = saves[n]
  /\ saves' = SubSeq(saves, 1, n)
  /\ UNCHANGED <<committed, active>>

Release(n) ==
  /\ active
  /\ n \in 1..Len(saves)
  /\ saves' = SubSeq(saves, 1, n - 1)
  /\ UNCHANGED <<committed, working, active>>

\* The process stops: the open transaction is gone, what was committed stays.
Crash ==
  /\ working' = committed
  /\ active' = FALSE
  /\ saves' = <<>>
  /\ UNCHANGED committed

Next ==
  \/ Begin \/ Commit \/ Rollback \/ Savepoint \/ Crash
  \/ \E p \in Pages : UndoPage(p)
  \/ \E p \in Pages, v \in Vals : Write(p, v)
  \/ \E n \in 1..Len(saves) : RollbackTo(n) \/ Release(n)

Spec == Init /\ [][Next]_vars
=============================================================================
