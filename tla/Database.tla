------------------------------ MODULE Database ------------------------------
(***************************************************************************)
(* What a connection promises about statements and transactions: outside a *)
(* transaction each statement takes effect as a whole, at once and for     *)
(* good, or not at all; inside one, statements change what the connection  *)
(* sees until a commit or a rollback.                                      *)
(*                                                                         *)
(* Commits and rollbacks may fail.  What they should have ended, and the   *)
(* statement they belong to, is then in limbo: the connection sees it, and *)
(* the next commit or rollback, whoever asks for it, decides about it.     *)
(* Such a failure leaves the rollback frail: more changes may spoil it,    *)
(* and a spoiled rollback loses what was committed.                        *)
(***************************************************************************)
EXTENDS Naturals

CONSTANTS
  Contents,      \* the contents a database may be opened with
  Whole(_),      \* what one statement may make of some contents
  Partial(_),    \* the same, for a statement that may also fail half-way
  Halfway(_, _)  \* what a rollback that fails may make of some contents

VARIABLES
  committed,  \* what was last committed
  current,    \* what this connection sees
  txn,        \* "none", "open" or "limbo"
  undo,       \* the rollback: "whole", "frail", "spoiled", or "lost"
  errors      \* commits and rollbacks that have failed

Init ==
  /\ committed \in Contents
  /\ current = committed
  /\ txn = "none" /\ undo = "whole" /\ errors = 0

Fails == errors' = errors + 1

Begin ==
  /\ txn' = "open"
  /\ UNCHANGED <<committed, current, undo, errors>>

\* A statement inside a transaction.  In limbo only prepared statements run
\* so; executed ones end it.  A statement that changes nothing is no step.
Inside ==
  /\ txn # "none"
  /\ current' # current /\ current' \in Partial(current)
  /\ undo' = undo \/ (undo = "frail" /\ undo' = "spoiled")
  /\ UNCHANGED <<committed, txn, errors>>

\* One that changes nothing is, in limbo, a commit.
Alone ==
  /\ txn # "open"
  /\ current' # current /\ current' \in Whole(current)
  /\ committed' = current'
  /\ txn' = "none" /\ undo' = "whole"
  /\ UNCHANGED errors

\* A statement that fails takes with it what was in limbo.
AloneUndone ==
  /\ txn # "open" /\ undo # "spoiled"
  /\ current' = committed
  /\ txn' = "none" /\ undo' = "whole"
  /\ UNCHANGED <<committed, errors>>

AloneHalfUndone ==
  /\ txn # "open" /\ undo # "spoiled" /\ Fails
  /\ \E after \in Partial(current) : current' \in Halfway(committed, after)
  /\ txn' = "limbo" /\ undo' \in {"whole", "frail"}
  /\ UNCHANGED committed

AloneInLimbo ==
  /\ txn # "open" /\ Fails
  /\ current' \in Whole(current)
  /\ txn' = "limbo" /\ undo' \in {"frail", "spoiled"}
  /\ undo = "spoiled" => undo' = "spoiled"
  /\ UNCHANGED committed

Commit ==
  /\ txn # "none"
  /\ committed' = current
  /\ txn' = "none" /\ undo' = "whole"
  /\ UNCHANGED <<current, errors>>

CommitFails ==
  /\ txn # "none" /\ Fails
  /\ undo' = IF undo = "spoiled" THEN "spoiled" ELSE "frail"
  /\ UNCHANGED <<committed, current, txn>>

Rollback ==
  /\ txn # "none" /\ undo # "spoiled"
  /\ current' = committed
  /\ txn' = "none" /\ undo' = "whole"
  /\ UNCHANGED <<committed, errors>>

RollbackFails ==
  /\ txn # "none" /\ undo # "spoiled" /\ Fails
  /\ current' \in Halfway(committed, current)
  /\ undo' \in {"whole", "frail"}
  /\ UNCHANGED <<committed, txn>>

\* Here the promise ends.
Lose ==
  /\ txn # "none" /\ undo \in {"frail", "spoiled"}
  /\ undo' = "lost"
  /\ UNCHANGED <<committed, current, txn, errors>>

Next ==
  /\ undo # "lost"
  /\ \/ Begin \/ Inside \/ Alone \/ AloneUndone \/ AloneHalfUndone \/ AloneInLimbo
     \/ Commit \/ CommitFails \/ Rollback \/ RollbackFails \/ Lose

Spec == Init /\ [][Next]_<<committed, current, txn, undo, errors>>
=============================================================================
