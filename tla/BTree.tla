-------------------------------- MODULE BTree --------------------------------
(***************************************************************************)
(* The table B-tree of liter-btree (crates/liter-btree/src/lib.rs): one    *)
(* table rooted at Root, and one BTreeCursor on it.                        *)
(*                                                                         *)
(* A page is its kind, its cells in the order of the pointer array, the    *)
(* bytes its cell content area uses (a deletion drops the pointer and      *)
(* never gives the bytes back) and its rightmost child.  A cell is a key   *)
(* and a page: the child left of the divider on an interior page, the      *)
(* first overflow page of the payload (0: none) on a leaf.  Payloads are   *)
(* left out but for their sizes.  Cell indices are 1-based; index n + 1 of *)
(* an interior page stands for its rightmost child.                        *)
(*                                                                         *)
(* An insertion that finds its leaf full is taken page by page, in the     *)
(* order in which split_and_insert_at writes: between two of its steps the *)
(* tree is not one, and an error leaves it as it is then.                  *)
(***************************************************************************)
EXTENDS Integers, Sequences, SequencesExt, FiniteSets, FiniteSetsExt

CONSTANTS
  Rowids,          \* the rowids in play
  None,            \* what an invalid cursor is at
  Root,            \* the root page of the table; pages below it are others'
  Payload,         \* what a row takes: bytes in its cell, overflow pages
  PageSize,        \* bytes in a page
  DbHeader,        \* bytes of the database header on page 1
  LeafHeader, InteriorHeader,
  PtrSize,         \* bytes of a cell pointer
  DividerSize,     \* bytes of an interior cell
  MaxPages         \* bound: no insertion starts at this many pages

ASSUME BTreeAssumption ==
  /\ Rowids \subseteq Nat /\ None \notin Rowids
  /\ Root \in Nat \ {0} /\ MaxPages \in Nat
  /\ Payload \in [Rowids -> [size : Nat \ {0}, chain : Nat]]
  /\ {PageSize, DbHeader, LeafHeader, InteriorHeader, PtrSize, DividerSize} \subseteq Nat

VARIABLES
  pages,     \* the pages of the database, in page order
  cursor,    \* state, current_key and stack of the cursor
  call,      \* what is left to do of a split_and_insert_at
  ret,       \* what the last call answered
  rows       \* history: the rows inserted and not deleted

vars == <<pages, cursor, call, ret, rows>>

Invalid == [valid |-> FALSE, key |-> None, stack |-> <<>>]
Idle == [op |-> "none"]

-----------------------------------------------------------------------------
(* Pages *)

Blank(kind) == [kind |-> kind, cells |-> <<>>, used |-> 0, right |-> 0]

Room(p, kind) ==
  PageSize - (IF p = 1 THEN DbHeader ELSE 0)
           - (IF kind = "leaf" THEN LeafHeader ELSE InteriorHeader)

(* Two dividers have room on the smallest pages there are, and the database *)
(* header leaves page 1 some (MIN_PAGE_SIZE is 512 bytes).                  *)
ASSUME RoomAssumption ==
  0 <= Room(1, "leaf") /\ 2 * (DividerSize + PtrSize) <= Room(1, "interior")

CellSize(kind, cell) == IF kind = "leaf" THEN Payload[cell.key].size ELSE DividerSize

Bytes(kind, cells) == FoldSeq(LAMBDA c, n : CellSize(kind, c) + n, 0, cells)

(* The first cell whose key is not below r: the binary searches and the    *)
(* scan for the place of a new cell.                                       *)
Place(cells, r) ==
  Min({i \in DOMAIN cells : r <= cells[i].key} \cup {Len(cells) + 1})

WithCell(cells, cell) == InsertAt(cells, Place(cells, cell.key), cell)

\* Mutant: the pointer of the new cell is not counted.
FitsOffByOne(p, cell) ==
  pages[p].used + CellSize(pages[p].kind, cell) + PtrSize * Len(pages[p].cells)
    <= Room(p, pages[p].kind)

Fits(p, cell) ==
  LET pg == pages[p]
  IN  pg.used + CellSize(pg.kind, cell) + PtrSize * (Len(pg.cells) + 1) <= Room(p, pg.kind)

Put(pg, cell) ==
  [pg EXCEPT !.cells = WithCell(@, cell), !.used = @ + CellSize(pg.kind, cell)]

(* A page written anew with cells, up to the first that does not fit. *)
Rewritten(p, kind, cells, right) ==
  LET fit == {k \in 0 .. Len(cells) :
                Bytes(kind, SubSeq(cells, 1, k)) + PtrSize * k <= Room(p, kind)}
      kept == SubSeq(cells, 1, Max(fit))
  IN  [kind |-> kind, cells |-> kept, used |-> Bytes(kind, kept), right |-> right]

Child(pg, i) == IF i <= Len(pg.cells) THEN pg.cells[i].page ELSE pg.right

-----------------------------------------------------------------------------
(* Descents: what the cursor pushes on its way down from page p. *)

Frame(p, i) == [page |-> p, idx |-> i]

(* find_leaf_for_insert *)
PathTo(r) ==
  LET down[p \in DOMAIN pages] ==
        LET i == Place(pages[p].cells, r)
        IN  IF pages[p].kind # "interior" THEN <<p>> ELSE <<p>> \o down[Child(pages[p], i)]
  IN  down[Root]

(* descend_first and descend_last; a page without cells is not pushed, and *)
(* a leaf without cells ends the descent with no row.                      *)
DescendFirst(top) ==
  LET down[p \in DOMAIN pages] ==
        CASE pages[p].cells = <<>> /\ pages[p].kind # "interior" -> <<>>
          [] pages[p].cells = <<>> /\ pages[p].kind = "interior" -> down[pages[p].right]
          [] pages[p].cells # <<>> /\ pages[p].kind # "interior" -> <<Frame(p, 1)>>
          [] OTHER -> <<Frame(p, 1)>> \o down[Child(pages[p], 1)]
  IN  down[top]

DescendLastShort(top) ==
  LET down[p \in DOMAIN pages] ==
        LET n == Len(pages[p].cells)
        IN  CASE n = 0 -> <<>>
              [] n > 0 /\ pages[p].kind # "interior" -> <<Frame(p, n)>>
              [] OTHER -> <<Frame(p, n)>> \o down[pages[p].right]
  IN  down[top]

DescendLast(top) ==
  LET down[p \in DOMAIN pages] ==
        LET n == Len(pages[p].cells)
        IN  CASE n = 0 /\ pages[p].kind # "interior" -> <<>>
              [] n = 0 /\ pages[p].kind = "interior" -> down[pages[p].right]
              [] n > 0 /\ pages[p].kind # "interior" -> <<Frame(p, n)>>
              [] OTHER -> <<Frame(p, n + 1)>> \o down[pages[p].right]
  IN  down[top]

(* search: the frames pushed and the answer; a leaf is pushed only if it   *)
(* has a cell at or above r.                                               *)
Search(r) ==
  LET down[p \in DOMAIN pages] ==
        LET cells == pages[p].cells
            i == Place(cells, r)
            below == down[Child(pages[p], i)]
            here == Frame(p, i)
        IN  CASE cells = <<>> -> [stack |-> <<>>, answer |-> "Empty"]
              [] cells # <<>> /\ pages[p].kind = "interior" ->
                   [below EXCEPT !.stack = <<here>> \o @]
              [] OTHER ->
                   IF i > Len(cells) THEN [stack |-> <<>>, answer |-> "Less"]
                   ELSE [stack |-> <<here>>,
                         answer |-> IF cells[i].key = r THEN "Equal" ELSE "Greater"]
  IN  down[Root]

AtLeaf(stack) == stack # <<>> /\ pages[Last(stack).page].kind = "leaf"

(* A cursor that has loaded the cell its stack ends at. *)
On(stack) ==
  [valid |-> TRUE, stack |-> stack,
   key |-> pages[Last(stack).page].cells[Last(stack).idx].key]

-----------------------------------------------------------------------------
(* The cursor's moves.  The stack of an invalid cursor is never read again *)
(* (every call checks the state or clears it) and is left out.             *)

LandsOn(stack) ==
  /\ cursor' = IF AtLeaf(stack) THEN On(stack) ELSE Invalid
  /\ ret' = IF AtLeaf(stack) THEN "row" ELSE "none"

MoveToFirst == call = Idle /\ LandsOn(DescendFirst(Root)) /\ UNCHANGED <<pages, call, rows>>

MoveToLast == call = Idle /\ LandsOn(DescendLast(Root)) /\ UNCHANGED <<pages, call, rows>>

MoveTo(r) ==
  /\ call = Idle
  /\ LET found == Search(r)
     IN  /\ cursor' = IF found.answer \in {"Equal", "Greater"} THEN On(found.stack) ELSE Invalid
         /\ ret' = found.answer
  /\ UNCHANGED <<pages, call, rows>>

(* The frame at depth k goes to index i and the descent pushes what is     *)
(* below it.  A descent that ends in an empty leaf answers that there is   *)
(* no row, and leaves the cursor valid with the key it had.                *)
StepsTo(k, i, below) ==
  LET stack == SubSeq(cursor.stack, 1, k - 1)
                 \o <<Frame(cursor.stack[k].page, i)>> \o below
  IN  /\ cursor' = IF AtLeaf(stack) THEN On(stack) ELSE [cursor EXCEPT !.stack = stack]
      /\ ret' = IF AtLeaf(stack) THEN "row" ELSE "none"

NoRow == cursor' = Invalid /\ ret' = "none"

(* step_next and step_prev pop the stack down to a frame that can advance. *)
NextRow ==
  /\ call = Idle
  /\ LET last(k) == LET pg == pages[cursor.stack[k].page]
                    IN  Len(pg.cells) + (IF pg.kind = "leaf" THEN 0 ELSE 1)
         open == {k \in DOMAIN cursor.stack : cursor.stack[k].idx < last(k)}
         k == Max(open)
         pg == pages[cursor.stack[k].page]
         i == cursor.stack[k].idx + 1
     IN  \/ cursor.valid /\ open # {} /\ pg.kind = "leaf" /\ StepsTo(k, i, <<>>)
         \/ /\ cursor.valid /\ open # {} /\ pg.kind # "leaf"
            /\ StepsTo(k, i, DescendFirst(Child(pg, i)))
         \/ (~cursor.valid \/ open = {}) /\ NoRow
  /\ UNCHANGED <<pages, call, rows>>

PreviousRow ==
  /\ call = Idle
  /\ LET open == {k \in DOMAIN cursor.stack : cursor.stack[k].idx > 1}
         k == Max(open)
         pg == pages[cursor.stack[k].page]
         i == cursor.stack[k].idx - 1
     IN  \/ cursor.valid /\ open # {} /\ pg.kind = "leaf" /\ StepsTo(k, i, <<>>)
         \/ /\ cursor.valid /\ open # {} /\ pg.kind # "leaf"
            /\ StepsTo(k, i, DescendLast(Child(pg, i)))
         \/ (~cursor.valid \/ open = {}) /\ NoRow
  /\ UNCHANGED <<pages, call, rows>>

(* delete drops the cell pointer; the bytes stay in use.  The cursor stays *)
(* where the next cell of the page slid in, and is invalid after the last. *)
Delete ==
  /\ call = Idle
  /\ LET frame == Last(cursor.stack)
         p == frame.page
         left == RemoveAt(pages[p].cells, frame.idx)
     IN  \/ /\ cursor.valid /\ AtLeaf(cursor.stack) /\ frame.idx <= Len(pages[p].cells)
            /\ pages' = [pages EXCEPT ![p].cells = left]
            /\ rows' = rows \ {pages[p].cells[frame.idx].key}
            /\ cursor' = IF frame.idx <= Len(left)
                         THEN [cursor EXCEPT !.key = left[frame.idx].key] ELSE Invalid
            /\ ret' = "ok"
         \/ ~cursor.valid /\ ret' = "InvalidCursor" /\ UNCHANGED <<pages, cursor, rows>>
  /\ UNCHANGED call

-----------------------------------------------------------------------------
(* insert *)

(* write_overflow_chain allocates the chain from its last page to its      *)
(* first; the cell holds the first.                                        *)
ChainForward(r) ==
  [i \in 1 .. Payload[r].chain |->
     [Blank("overflow") EXCEPT !.right = IF i = Payload[r].chain THEN 0 ELSE Len(pages) + i + 1]]

Chain(r) == [i \in 1 .. Payload[r].chain |->
               [Blank("overflow") EXCEPT !.right = IF i = 1 THEN 0 ELSE Len(pages) + i - 1]]

(* The cell of a row, its chain being written next. *)
NewCell(r) ==
  [key |-> r, page |-> IF Payload[r].chain = 0 THEN 0 ELSE Len(pages) + Payload[r].chain]

(* The callers insert rowids that the table does not hold: NewRowid, and   *)
(* the rowid of a row just deleted.                                        *)
Insert(r) ==
  /\ call = Idle /\ r \notin rows /\ Len(pages) < MaxPages
  /\ LET chain == Chain(r)
         cell == NewCell(r)
         path == PathTo(r)
         leaf == Last(path)
     IN  \/ /\ Fits(leaf, cell)
            /\ pages' = [pages EXCEPT ![leaf] = Put(@, cell)] \o chain
            /\ UNCHANGED call
         \/ /\ ~Fits(leaf, cell)
            /\ pages' = pages \o chain
            /\ call' = [op |-> "split", path |-> path, cell |-> cell, todo |-> <<>>]
  /\ cursor' = Invalid /\ ret' = "ok" /\ rows' = rows \cup {r}

(* How the cells of a full page are dealt to two.  Every cell of a leaf    *)
(* stays on a leaf; mid counts from 0, as in the code.                     *)
LeafPlan(cells) ==
  LET n == Len(cells)
      mid == IF n = 1 THEN 0 ELSE Min({(n + 1) \div 2, n - 1})
  IN  [left |-> SubSeq(cells, 1, mid + 1), leftLast |-> 0,
       right |-> SubSeq(cells, mid + 2, n), rightLast |-> 0,
       divider |-> cells[IF mid < n - 1 THEN mid + 2 ELSE mid + 1].key]

LeafPlanDropsPivot(cells) ==
  [LeafPlan(cells) EXCEPT !.right = IF @ = <<>> THEN @ ELSE Tail(@)]

InteriorPlanNextDivider(pg, cells) ==
  LET half == Len(cells) \div 2
  IN  [left |-> SubSeq(cells, 1, half), leftLast |-> cells[half + 1].page,
       right |-> SubSeq(cells, half + 2, Len(cells)), rightLast |-> pg.right,
       divider |-> cells[half + 2].key]

(* An interior page gives its middle divider up, and the child left of it  *)
(* becomes the rightmost of the left half.                                 *)
InteriorPlan(pg, cells) ==
  LET half == Len(cells) \div 2
  IN  [left |-> SubSeq(cells, 1, half), leftLast |-> cells[half + 1].page,
       right |-> SubSeq(cells, half + 2, Len(cells)), rightLast |-> pg.right,
       divider |-> cells[half + 1].key]

PlanDropsPivot(pg, cells) ==
  IF pg.kind = "leaf" THEN LeafPlanDropsPivot(cells) ELSE InteriorPlan(pg, cells)

Plan(pg, cells) == IF pg.kind = "leaf" THEN LeafPlan(cells) ELSE InteriorPlan(pg, cells)

(* After a split: the pointers still to be set, from the inner call out. *)
Resume(todo) == IF todo = <<>> THEN Idle ELSE [op |-> "retarget", todo |-> todo]

(* An error leaves the pages as they are. *)
Abort(error) == call' = Idle /\ ret' = error

(* The root keeps its number and becomes the parent of two new pages. *)
SplitRoot ==
  /\ call.op = "split" /\ Last(call.path) = Root
  /\ LET pg == pages[Root]
         plan == Plan(pg, WithCell(pg.cells, call.cell))
         r == Len(pages) + 1
         l == Len(pages) + 2
         left == Rewritten(l, pg.kind, plan.left, plan.leftLast)
         right == Rewritten(r, pg.kind, plan.right, plan.rightLast)
         root == [kind |-> "interior", cells |-> <<[key |-> plan.divider, page |-> l]>>,
                  used |-> DividerSize, right |-> r]
     IN  \/ /\ left.cells = plan.left /\ right.cells = plan.right
            /\ pages' = [pages EXCEPT ![Root] = root] \o <<right, left>>
            /\ call' = Resume(call.todo) /\ UNCHANGED ret
         \/ /\ left.cells # plan.left
            /\ pages' = pages \o <<Blank(pg.kind), left>> /\ Abort("PageFull")
         \/ /\ left.cells = plan.left /\ right.cells # plan.right
            /\ pages' = pages \o <<right, left>> /\ Abort("PageFull")
  /\ UNCHANGED <<cursor, rows>>

(* The page above the last of a path. *)
ParentOf(path) == Last(Front(path))

(* Another page keeps its lower half; the divider goes to its parent, which *)
(* may be full in turn.                                                    *)
SplitBelow ==
  /\ call.op = "split" /\ Last(call.path) # Root
  /\ LET p == Last(call.path)
         parent == ParentOf(call.path)
         pg == pages[p]
         plan == Plan(pg, WithCell(pg.cells, call.cell))
         r == Len(pages) + 1
         left == Rewritten(p, pg.kind, plan.left, plan.leftLast)
         right == Rewritten(r, pg.kind, plan.right, plan.rightLast)
         divider == [key |-> plan.divider, page |-> p]
         todo == Append(call.todo, [key |-> plan.divider, page |-> r])
         split == [pages EXCEPT ![p] = left] \o <<right>>
         dealt == left.cells = plan.left /\ right.cells = plan.right
     IN  \/ /\ dealt /\ Fits(parent, divider)
            /\ pages' = [split EXCEPT ![parent] = Put(@, divider)]
            /\ call' = Resume(todo) /\ UNCHANGED ret
         \/ /\ dealt /\ ~Fits(parent, divider)
            /\ pages' = split
            /\ call' = [op |-> "split", path |-> Front(call.path), cell |-> divider, todo |-> todo]
            /\ UNCHANGED ret
         \/ /\ left.cells # plan.left
            /\ pages' = [pages EXCEPT ![p] = left] \o <<Blank(pg.kind)>> /\ Abort("PageFull")
         \/ /\ left.cells = plan.left /\ right.cells # plan.right
            /\ pages' = split /\ Abort("PageFull")
  /\ UNCHANGED <<cursor, rows>>

(* find_interior_page_with_divider: where a divider landed, 0 if nowhere. *)
PageWithDivider(key) ==
  LET down[p \in DOMAIN pages] ==
        LET i == Place(pages[p].cells, key)
        IN  CASE pages[p].kind # "interior" -> 0
              [] pages[p].kind = "interior" /\ i <= Len(pages[p].cells)
                 /\ pages[p].cells[i].key = key -> p
              [] OTHER -> down[Child(pages[p], i)]
  IN  down[Root]

PointRightmost(p, i, target) == [pages EXCEPT ![p].right = target]

(* The pages with child i of interior page p set. *)
PointTo(p, i, target) ==
  IF i <= Len(pages[p].cells) THEN [pages EXCEPT ![p].cells[i].page = target]
  ELSE [pages EXCEPT ![p].right = target]

(* The pointer after the divider still leads to the left half. *)
Retarget ==
  /\ call.op = "retarget"
  /\ LET todo == Last(call.todo)
         p == PageWithDivider(todo.key)
     IN  \/ p = 0 /\ Abort("Corrupt") /\ UNCHANGED pages
         \/ /\ p # 0
            /\ pages' = PointTo(p, Place(pages[p].cells, todo.key) + 1, todo.page)
            /\ call' = Resume(Front(call.todo)) /\ UNCHANGED ret
  /\ UNCHANGED <<cursor, rows>>

-----------------------------------------------------------------------------
Init ==
  /\ pages = [p \in 1 .. Root |-> Blank("leaf")]
  /\ cursor = Invalid /\ call = Idle /\ ret = "none" /\ rows = {}

Step == SplitRoot \/ SplitBelow \/ Retarget

Next ==
  \/ MoveToFirst \/ MoveToLast \/ NextRow \/ PreviousRow \/ Delete \/ Step
  \/ \E r \in Rowids : Insert(r) \/ MoveTo(r)

Spec == Init /\ [][Next]_vars
-----------------------------------------------------------------------------
(* Properties *)

Cells(kind) ==
  [key : Rowids, page : IF kind = "leaf" THEN 0 .. Len(pages) ELSE 1 .. Len(pages)]

(* Pages, cursor and call have their types: an interior page points only   *)
(* to pages there are, and the cell content of a page does not run into    *)
(* its pointer array (insert_cell_into_page).                              *)
TypeOK ==
  /\ \A p \in DOMAIN pages :
       /\ pages[p].kind \in {"leaf", "interior", "overflow"}
       /\ Range(pages[p].cells) \subseteq Cells(pages[p].kind)
       /\ pages[p].used \in Nat /\ pages[p].right \in 0 .. Len(pages)
  /\ cursor.valid \in BOOLEAN /\ cursor.key \in Rowids \cup {None}
  /\ \A f \in Range(cursor.stack) : f.page \in DOMAIN pages /\ f.idx >= 1
  /\ call.op \in {"none", "split", "retarget"}
  /\ ret \in {"row", "none", "ok", "Equal", "Greater", "Less", "Empty",
              "InvalidCursor", "PageFull", "Corrupt"}
  /\ rows \subseteq Rowids

(* The keys on the leaves below page p, from left to right. *)
KeysBelow[p \in DOMAIN pages] ==
  LET pg == pages[p]
  IN  IF pg.kind # "interior" THEN [i \in DOMAIN pg.cells |-> pg.cells[i].key]
      ELSE FlattenSeq([i \in 1 .. Len(pg.cells) + 1 |-> KeysBelow[Child(pg, i)]])

ChainFrom[p \in 0 .. Len(pages)] ==
  IF p = 0 THEN <<>> ELSE <<p>> \o ChainFrom[pages[p].right]

(* The pages of the tree below page p and of its rows' overflow chains. *)
Walk[p \in DOMAIN pages] ==
  LET pg == pages[p]
  IN  <<p>> \o (IF pg.kind # "interior"
                THEN FlattenSeq([i \in DOMAIN pg.cells |-> ChainFrom[pg.cells[i].page]])
                ELSE FlattenSeq([i \in 1 .. Len(pg.cells) + 1 |-> Walk[Child(pg, i)]]))

TreePages(kind) == {p \in Range(Walk[Root]) : pages[p].kind = kind}

(* Between calls the leaves hold the rows inserted and not deleted, each   *)
(* once and in rowid order from left to right: splitting, promoting the    *)
(* divider through full parents and setting the pointer after it neither   *)
(* loses nor repeats nor misplaces a row (insert, split_and_insert_at).    *)
TreeHoldsRows ==
  call = Idle => LET keys == KeysBelow[Root]
                 IN  /\ Range(keys) = rows
                     /\ \A i \in 1 .. Len(keys) - 1 : keys[i] < keys[i + 1]

(* Between calls every divider separates: the rows left of it are at most  *)
(* it and those right of it at least, so that the next descent comes to    *)
(* the leaf where its rowid belongs (find_leaf_for_insert, search).        *)
DividersSeparate ==
  call = Idle => \A p \in TreePages("interior") : \A i \in DOMAIN pages[p].cells :
    LET key == pages[p].cells[i].key
    IN  /\ \A r \in Range(KeysBelow[Child(pages[p], i)]) : r <= key
        /\ \A r \in Range(KeysBelow[Child(pages[p], i + 1)]) : r >= key

Depths[p \in DOMAIN pages] ==
  LET pg == pages[p]
  IN  IF pg.kind # "interior" THEN {1}
      ELSE {d + 1 : d \in UNION {Depths[Child(pg, i)] : i \in 1 .. Len(pg.cells) + 1}}

(* Between calls no page has two places: two child pointers never lead to  *)
(* one page, not even to the half that a split left behind, and no two     *)
(* rows share an overflow page (the pointer update after a promotion); and *)
(* all leaves are at one depth, for the tree grows at the root alone.      *)
EachPageOnce == call = Idle => IsInjective(Walk[Root]) /\ Cardinality(Depths[Root]) = 1

(* Every cell is whole: in each page, at each step of a split, the cells   *)
(* and the bytes of deleted ones leave room for the pointers, and between  *)
(* calls the overflow chain of a row is as long as its payload needs and   *)
(* ends where it should (free_bytes, write_overflow_chain).                *)
CellsWhole ==
  /\ \A p \in DOMAIN pages :
       pages[p].used + PtrSize * Len(pages[p].cells) <= Room(p, pages[p].kind)
  /\ call = Idle => \A p \in TreePages("leaf") : \A c \in Range(pages[p].cells) :
       Len(ChainFrom[c.page]) = Payload[c.key].chain

(* A row in the table is found by its rowid (move_to). *)
EveryRowSeekable == call = Idle => \A r \in rows : Search(r).answer = "Equal"

(* NewRowid numbers a row after the last of the table: max_rowid answers   *)
(* the rowid of the last entry, and 0 only for an empty table.             *)
MaxRowid == LET stack == DescendLast(Root) IN IF AtLeaf(stack) THEN On(stack).key ELSE 0

MaxRowidIsLast == call = Idle => MaxRowid = Max(rows \cup {0})

(* The tree and its cursor implement the ordered map: a scan, in either    *)
(* direction and across splits and deletions, visits the rows in order.    *)
Map == INSTANCE OrderedMap WITH at <- IF cursor.valid THEN cursor.key ELSE None

ImplementsOrderedMap == Map!Spec
=============================================================================
