------------------------------ MODULE OrderedMap ------------------------------
(***************************************************************************)
(* What a table B-tree and its cursor promise to the virtual machine that  *)
(* runs on them: a set of rows in rowid order, and a cursor that is at one *)
(* of them or at none.  liter-btree's BTreeCursor is shown to implement    *)
(* this in module BTree.                                                   *)
(***************************************************************************)
EXTENDS Integers

CONSTANTS Rowids, None

VARIABLES rows, at, ret

vars == <<rows, at, ret>>

Answers == {"row", "none", "ok", "Equal", "Greater", "Less", "Empty", "InvalidCursor"}

TypeOK == rows \subseteq Rowids /\ at \in rows \cup {None} /\ ret \in Answers

Init == rows = {} /\ at = None /\ ret = "none"

(* The cursor comes to the lowest or the highest row of a set, or to none. *)
Lowest(R) ==
  \/ R = {} /\ at' = None
  \/ \E r \in R : (\A x \in R : r <= x) /\ at' = r

Highest(R) ==
  \/ R = {} /\ at' = None
  \/ \E r \in R : (\A x \in R : x <= r) /\ at' = r

Found(R) == ret' = IF R = {} THEN "none" ELSE "row"

MoveToFirst == Lowest(rows) /\ Found(rows) /\ UNCHANGED rows

MoveToLast == Highest(rows) /\ Found(rows) /\ UNCHANGED rows

NextRow ==
  LET after == {r \in rows : at # None /\ r > at}
  IN  Lowest(after) /\ Found(after) /\ UNCHANGED rows

PreviousRow ==
  LET before == {r \in rows : at # None /\ r < at}
  IN  Highest(before) /\ Found(before) /\ UNCHANGED rows

MoveTo(r) ==
  LET from == {x \in rows : x >= r}
  IN  /\ Lowest(from)
      /\ \/ r \in rows /\ ret' = "Equal"
         \/ r \notin rows /\ from # {} /\ ret' = "Greater"
         \/ from = {} /\ ret' \in {"Less", "Empty"}
      /\ UNCHANGED rows

Insert(r) ==
  /\ r \notin rows
  /\ rows' = rows \cup {r} /\ at' = None /\ ret' = "ok"

(* A deletion leaves the cursor at the next row, if there is one. *)
Delete ==
  \/ /\ at # None
     /\ rows' = rows \ {at}
     /\ Lowest({r \in rows : r > at})
     /\ ret' = "ok"
  \/ at = None /\ ret' = "InvalidCursor" /\ UNCHANGED <<rows, at>>

Next ==
  \/ MoveToFirst \/ MoveToLast \/ NextRow \/ PreviousRow \/ Delete
  \/ \E r \in Rowids : Insert(r) \/ MoveTo(r)

Spec == Init /\ [][Next]_vars
=============================================================================
