------------------------------- MODULE MCBTree -------------------------------
(***************************************************************************)
(* Instances of BTree for TLC: what its rows take, and the callers of the  *)
(* runs.  SoundNext is what the tree can take without one of the findings. *)
(***************************************************************************)
EXTENDS BTree

CONSTANT Overflowing    \* the rowids whose payload takes an overflow chain

SmallRows == [r \in Rowids |-> [size |-> 1, chain |-> IF r \in Overflowing THEN 2 ELSE 0]]

Dividers == {c.key : c \in UNION {Range(pages[p].cells) : p \in TreePages("interior")}}

(* A seek for a rowid that is no divider and not beyond the leaf's rows. *)
SoundSeek(r) == r \notin Dividers /\ Search(r).answer \in {"Equal", "Greater"}

(* A deletion of a row that is not the last of its leaf. *)
SoundDelete ==
  cursor.valid => Last(cursor.stack).idx < Len(pages[Last(cursor.stack).page].cells)

Fitting(p, cells) == Bytes("leaf", cells) + PtrSize * Len(cells) <= Room(p, "leaf")

(* Leaf p, which is full, is dealt to two pages that have room. *)
HalvesFit(p, cell) ==
  LET plan == LeafPlan(WithCell(pages[p].cells, cell))
  IN  Len(pages[p].cells) > 2 /\ Fitting(p, plan.left) /\ Fitting(p, plan.right)

(* An insertion of a rowid that is no divider.  If its leaf splits, both   *)
(* halves have rows and fit their pages; if interior pages split in turn,  *)
(* none of them gives up the very divider that has come up to it.          *)
SoundInsert(r) ==
  LET path == PathTo(r)
      n == Len(path)
      arriving[k \in 1 .. n] ==
        IF k = n THEN NewCell(r)
        ELSE LET pg == pages[path[k + 1]]
             IN  [key |-> Plan(pg, WithCell(pg.cells, arriving[k + 1])).divider, page |-> path[k + 1]]
      splits(k) == \A j \in k .. n : ~Fits(path[j], arriving[j])
      own(k) == Plan(pages[path[k]], WithCell(pages[path[k]].cells, arriving[k])).divider
  IN  /\ r \notin Dividers
      /\ splits(n) => HalvesFit(path[n], NewCell(r))
      /\ \A k \in 1 .. n - 1 : splits(k) => own(k) # arriving[k].key

SoundNext ==
  \/ MoveToFirst \/ MoveToLast \/ NextRow \/ PreviousRow \/ Step
  \/ call = Idle /\ SoundDelete /\ Delete
  \/ \E r \in Rowids : call = Idle /\ SoundInsert(r) /\ Insert(r)
  \/ \E r \in Rowids : call = Idle /\ SoundSeek(r) /\ MoveTo(r)

SoundSpec == Init /\ [][SoundNext]_vars

(* Insertions alone, in any order. *)
InsertSpec == Init /\ [][Step \/ \E r \in Rowids : Insert(r)]_vars
=============================================================================
