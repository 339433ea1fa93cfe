--------------------------------- MODULE Vdbe ---------------------------------
(***************************************************************************)
(* The virtual machine of liter-vdbe: programs run on registers and        *)
(* cursors over one table, an instruction a step.  A caller calls step()   *)
(* until the program has halted or failed, and may reset it in between.    *)
(*                                                                         *)
(* The table is its leaves, each a map from rowids (unsigned) to rows; n   *)
(* leaves are kept apart by the n - 1 lowest of Dividers.  The cursor      *)
(* moves as module BTree has it, on a tree whose pages do not split        *)
(* meanwhile.                                                              *)
(***************************************************************************)
EXTENDS Mem

CONSTANTS
  Dividers,   \* the keys of an interior page
  MaxResets   \* bound on how often a caller resets

VARIABLES
  program,    \* its instructions, registers and cursors, and what they are for
  pc, regs, callStack, halted,
  row,        \* last_result_row
  aggs,
  cursors,    \* the statement's: closed, on the table, or a sorter
  running,    \* a call of step() is under way
  failed,     \* the last call returned an error
  checks,     \* the build has overflow checks
  panicked,   \* and the last call panicked: there is no other
  leaves,     \* the table
  npages,     \* pages of the database, for CREATE TABLE
  out,        \* history: the rows step() has returned since the start
  given,      \* history: the table at the start
  resets

machine == <<regs, callStack, halted, row, aggs, cursors>>
caller == <<program, checks, given, resets>>
vars == <<program, pc, machine, running, failed, checks, panicked, leaves, npages, out, given, resets>>

Opcodes ==
  {"Init", "Halt", "Goto", "Gosub", "Return", "AddInt", "SubtractInt", "MultiplyInt", "DivideInt",
   "RemainderInt", "Integer", "Real", "String8", "Null", "Move", "Copy", "Eq", "Ne", "Lt", "Le",
   "Gt", "Ge", "OpenRead", "OpenWrite", "OpenEphemeral", "Close", "SeekGe", "SeekGt", "SeekLe",
   "SeekLt", "Next", "Prev", "Rewind", "Last", "Column", "MakeRecord", "Insert", "InsertInt",
   "Delete", "RowId", "NewRowid", "NullRow", "CreateTable", "ParseSchema", "AutoCommit",
   "Transaction", "ResultRow", "If", "IfNot", "IsNull", "NotNull", "DecrJumpZero", "SorterOpen",
   "SorterInsert", "SorterSort", "SorterData", "SorterNext", "Function", "AggStep", "AggFinal",
   "Noop"}

NotExecuted == {"OpenEphemeral", "ParseSchema", "AutoCommit", "Transaction"}

Ops == program.ops
op == Ops[pc + 1]

-----------------------------------------------------------------------------
(* The table and the cursors on it. *)

NoRow == 0

Closed == [kind |-> "closed", leaf |-> 0, at |-> NoRow, data |-> <<>>]
Invalid == [Closed EXCEPT !.kind = "btree"]
Sorter(records, pos) == [kind |-> "sorter", records |-> records, pos |-> pos]

On(i, r) == [kind |-> "btree", leaf |-> i, at |-> r, data |-> leaves[i][r]]

IsValid(k) == k.kind = "btree" /\ k.at # NoRow

Keys(i) == DOMAIN leaves[i]

LeafOf(r) == Min({Len(leaves), 1 + Cardinality({d \in Dividers : d < r})})

AtLowest(i, S) == IF S = {} THEN Invalid ELSE On(i, Min(S))
AtHighest(i, S) == IF S = {} THEN Invalid ELSE On(i, Max(S))

First == AtLowest(1, Keys(1))
Final == AtHighest(Len(leaves), Keys(Len(leaves)))

\* next and previous: whether there is a row, and the cursor.  A step into
\* an empty leaf answers no and leaves the cursor as it was.
Moved(k, i, S, to) ==
  CASE ~IsValid(k) -> [found |-> FALSE, k |-> k]
    [] IsValid(k) /\ S # {} -> [found |-> TRUE, k |-> On(k.leaf, to)]
    [] IsValid(k) /\ S = {} /\ i \notin DOMAIN leaves -> [found |-> FALSE, k |-> Invalid]
    [] OTHER -> [found |-> Keys(i) # {}, k |-> IF Keys(i) = {} THEN k ELSE
                   On(i, IF i > k.leaf THEN Min(Keys(i)) ELSE Max(Keys(i)))]

\* Mutant: next stays within its leaf.
NextInLeaf(k) ==
  LET above == {r \in Keys(k.leaf) : r > k.at}
  IN  Moved(k, 0, above, Min(above))

NextOf(k) ==
  LET above == {r \in Keys(k.leaf) : r > k.at}
  IN  Moved(k, k.leaf + 1, above, Min(above))

PreviousOf(k) ==
  LET below == {r \in Keys(k.leaf) : r < k.at}
  IN  Moved(k, k.leaf - 1, below, Max(below))

\* move_to: the answer and the cursor.
Sought(r) ==
  LET i == LeafOf(r)
      from == {x \in Keys(i) : x >= r}
  IN  [answer |-> CASE Keys(i) = {} -> "Empty"
                    [] Keys(i) # {} /\ from = {} -> "Less"
                    [] r \in from -> "Equal"
                    [] OTHER -> "Greater",
       k |-> AtLowest(i, from)]

WithRow(r, values) ==
  [leaves EXCEPT ![LeafOf(r)] = [x \in DOMAIN @ \cup {r} |-> IF x = r THEN values ELSE @[x]]]

WithoutRow(i, r) == [leaves EXCEPT ![i] = [x \in DOMAIN @ \ {r} |-> @[x]]]

-----------------------------------------------------------------------------
(* What the instructions have in common. *)

Reg(r) == regs[r]
Set(r, m) == regs' = [regs EXCEPT ![r] = m]
Point(k) == cursors' = [cursors EXCEPT ![op.p1] = k]
Continue == pc' = pc + 1
JumpIf(yes) == pc' = IF yes THEN op.p2 ELSE pc + 1

Args(start, n) == [i \in 1 .. n |-> regs[start + i - 1]]

\* The errors of the instructions; the machine has gone past them by then.
Erroneous ==
  LET on(kind) == cursors[op.p1].kind = kind
      blob(r) == regs[r].t = "blob"
  IN  CASE op.o = "Return" -> callStack = <<>>
        [] op.o \in {"AddInt", "SubtractInt", "MultiplyInt"} ->
             ~IsNumber(regs[op.p1]) \/ ~IsNumber(regs[op.p2])
        [] op.o \in {"DivideInt", "RemainderInt"} ->
             ~IsNumber(regs[op.p1]) \/ ~IsNumber(regs[op.p2]) \/ ToInt(regs[op.p1]) = 0
        [] op.o \in {"Rewind", "Last", "Next", "Prev", "NewRowid", "SeekGe", "SeekGt", "SeekLe",
                     "SeekLt"} -> ~on("btree")
        [] op.o \in {"Delete", "RowId"} -> ~IsValid(cursors[op.p1])
        [] op.o = "Column" -> ~on("sorter") /\ ~IsValid(cursors[op.p1])
        [] op.o = "MakeRecord" -> \E i \in 1 .. op.p2 : Args(op.p1, op.p2)[i].t = "agg"
        [] op.o = "Insert" -> ~on("btree") \/ ~blob(op.p2) \/ regs[op.p3].t # "int"
        [] op.o = "InsertInt" -> ~on("btree") \/ ~blob(op.p2)
        [] op.o = "DecrJumpZero" -> regs[op.p1].t # "int"
        [] op.o = "SorterInsert" -> ~on("sorter") \/ ~blob(op.p2)
        [] op.o \in {"SorterSort", "SorterData", "SorterNext"} -> ~on("sorter")
        [] op.o = "Function" -> Function(op.fn, Args(op.p2, op.p1)) = Failed
        [] op.o = "AggStep" -> regs[op.p3].t \notin {"null", "agg"}
        [] op.o = "AggFinal" -> regs[op.p1].t \notin {"null", "agg"}
        [] op.o \in NotExecuted -> TRUE
        [] OTHER -> FALSE

\* The plain operators on i64 that the build does not let pass.
Panics ==
  LET with(o, a, b) == Traps(o, a, b) \/ (checks /\ Overflows(o, a, b))
  IN  CASE op.o \in Arithmetic -> with(op.o, ToInt(regs[op.p2]), ToInt(regs[op.p1]))
        [] op.o = "DecrJumpZero" -> with("SubtractInt", regs[op.p1].v, 1)
        [] op.o = "NewRowid" -> with("AddInt", Wrap(Final.at, IntBits), 1)
        [] OTHER -> FALSE

Fetched == running /\ pc < Len(Ops)

At(opcodes) == Fetched /\ op.o \in opcodes /\ ~Erroneous /\ ~Panics

\* An instruction after which the machine goes on to the next one.
Quiet == UNCHANGED <<caller, halted, row, running, failed, panicked, out>>

Fail ==
  /\ Fetched /\ Erroneous
  /\ Continue /\ running' = FALSE /\ failed' = TRUE
  /\ UNCHANGED <<caller, machine, panicked, leaves, npages, out>>

\* Nothing catches a panic.
Panic ==
  /\ Fetched /\ ~Erroneous /\ Panics
  /\ Continue /\ running' = FALSE /\ panicked' = TRUE
  /\ UNCHANGED <<caller, machine, failed, leaves, npages, out>>

-----------------------------------------------------------------------------
(* Control. *)

Halt ==
  /\ At({"Halt"})
  /\ Continue /\ halted' = TRUE /\ running' = FALSE
  /\ UNCHANGED <<caller, regs, callStack, row, aggs, cursors, failed, panicked, leaves, npages, out>>

\* The program ends without Halt.
RunOff ==
  /\ running /\ pc >= Len(Ops)
  /\ halted' = TRUE /\ running' = FALSE /\ row' = <<>>
  /\ UNCHANGED <<caller, pc, regs, callStack, aggs, cursors, failed, panicked, leaves, npages, out>>

Jump ==
  /\ At({"Init", "Goto", "Gosub"})
  /\ pc' = op.p2
  /\ callStack' = IF op.o = "Gosub" THEN Append(callStack, pc + 1) ELSE callStack
  /\ Quiet /\ UNCHANGED <<regs, aggs, cursors, leaves, npages>>

Return ==
  /\ At({"Return"})
  /\ pc' = Last(callStack) /\ callStack' = Front(callStack)
  /\ Quiet /\ UNCHANGED <<regs, aggs, cursors, leaves, npages>>

Branch ==
  /\ At({"Eq", "Ne", "Lt", "Le", "Gt", "Ge", "If", "IfNot", "IsNull", "NotNull"})
  /\ LET m == regs[op.p1]
     IN  JumpIf(CASE op.o = "If" -> IsTruthy(m)
                  [] op.o = "IfNot" -> ~IsTruthy(m)
                  [] op.o = "IsNull" -> IsNull(m)
                  [] op.o = "NotNull" -> ~IsNull(m)
                  [] OTHER -> Compare(op.o, regs[op.p3], m))
  /\ Quiet /\ UNCHANGED <<regs, callStack, aggs, cursors, leaves, npages>>

DecrJumpZero ==
  /\ At({"DecrJumpZero"})
  /\ LET less == Reckon("SubtractInt", regs[op.p1].v, 1)
     IN  Set(op.p1, less) /\ JumpIf(less.v <= 0)
  /\ Quiet /\ UNCHANGED <<callStack, aggs, cursors, leaves, npages>>

ResultRow ==
  /\ At({"ResultRow"})
  /\ Continue /\ running' = FALSE
  /\ row' = <<op.p1, op.p2>>
  /\ out' = Append(out, Args(op.p1, op.p2))
  /\ UNCHANGED <<caller, regs, callStack, halted, aggs, cursors, failed, panicked, leaves, npages>>

-----------------------------------------------------------------------------
(* Registers. *)

Compute ==
  /\ At({"Integer", "Real", "String8", "Null", "Copy", "Noop"} \cup Arithmetic)
  /\ CASE op.o = "Integer" -> Set(op.p2, IntV(op.p1))
       [] op.o \in {"Real", "String8"} -> Set(op.p2, op.v)
       [] op.o = "Null" -> Set(op.p2, Null)
       [] op.o = "Copy" -> Set(op.p2, regs[op.p1])
       [] op.o = "Noop" -> UNCHANGED regs
       [] OTHER -> Set(op.p3, Reckon(op.o, ToInt(regs[op.p2]), ToInt(regs[op.p1])))
  /\ Continue
  /\ Quiet /\ UNCHANGED <<callStack, aggs, cursors, leaves, npages>>

Dispatch ==
  /\ At({"Function"})
  /\ Set(op.p3, Function(op.fn, Args(op.p2, op.p1)))
  /\ Continue
  /\ Quiet /\ UNCHANGED <<callStack, aggs, cursors, leaves, npages>>

Move ==
  /\ At({"Move"})
  /\ regs' = [regs EXCEPT ![op.p1] = Null, ![op.p2] = regs[op.p1]]
  /\ Continue
  /\ Quiet /\ UNCHANGED <<callStack, aggs, cursors, leaves, npages>>

MakeRecord ==
  /\ At({"MakeRecord"})
  /\ Set(op.p3, BlobV(Args(op.p1, op.p2)))
  /\ Continue
  /\ Quiet /\ UNCHANGED <<callStack, aggs, cursors, leaves, npages>>

AggStep ==
  /\ At({"AggStep"})
  /\ LET fresh == IsNull(regs[op.p3])
         known == IF fresh THEN Append(aggs, NewAgg(op.fn)) ELSE aggs
         i == IF fresh THEN Len(known) ELSE regs[op.p3].v
     IN  /\ aggs' = [known EXCEPT ![i] = AggStepped(@, Args(op.p2, op.p1))]
         /\ Set(op.p3, AggV(i))
  /\ Continue
  /\ Quiet /\ UNCHANGED <<callStack, cursors, leaves, npages>>

AggFinal ==
  /\ At({"AggFinal"})
  /\ LET m == regs[op.p1]
         s == IF IsNull(m) THEN NewAgg(op.fn) ELSE aggs[m.v]
     IN  Set(op.p1, AggFinalized(s))
  /\ aggs' = IF regs[op.p1].t = "agg" /\ op.fn \in {"sum", "min", "max"}
             THEN [aggs EXCEPT ![regs[op.p1].v].m = Null] ELSE aggs
  /\ Continue
  /\ Quiet /\ UNCHANGED <<callStack, cursors, leaves, npages>>

-----------------------------------------------------------------------------
(* Cursors. *)

Open ==
  /\ At({"OpenRead", "OpenWrite", "SorterOpen", "Close", "NullRow"})
  /\ Point(CASE op.o \in {"OpenRead", "OpenWrite"} -> Invalid
             [] op.o = "SorterOpen" -> Sorter(<<>>, 1)
             [] op.o \in {"Close", "NullRow"} -> Closed)
  /\ Continue
  /\ Quiet /\ UNCHANGED <<regs, callStack, aggs, leaves, npages>>

\* To an end of the table; the jump is taken where there is no row.
GoToEnd ==
  /\ At({"Rewind", "Last"})
  /\ LET k == IF op.o = "Rewind" THEN First ELSE Final
     IN  Point(k) /\ JumpIf(~IsValid(k))
  /\ Quiet /\ UNCHANGED <<regs, callStack, aggs, leaves, npages>>

\* Mutant: Next after a deletion moves on.
AdvancedAlways(k) == NextOf(k)

Advanced(k) ==
  IF op.p5 # 0 /\ IsValid(k) THEN [found |-> TRUE, k |-> k] ELSE NextOf(k)

\* To a neighbour; the jump is taken where there is a row.
Step ==
  /\ At({"Next", "Prev"})
  /\ LET k == cursors[op.p1]
         moved == IF op.o = "Next" THEN Advanced(k) ELSE PreviousOf(k)
     IN  Point(moved.k) /\ JumpIf(moved.found)
  /\ Quiet /\ UNCHANGED <<regs, callStack, aggs, leaves, npages>>

\* SeekLe and SeekLt look for a row at or above the key and step back; below
\* the key alone, they find none and go on.
SeekTo(r) ==
  LET s == Sought(r)
      next == NextOf(s.k)
      back == PreviousOf(s.k)
      In(found, k) == [found |-> found, k |-> k]
  IN  CASE op.o = "SeekGe" -> In(s.answer \in {"Equal", "Greater"}, s.k)
        [] op.o = "SeekGt" ->
             IF s.answer = "Equal" THEN next ELSE In(s.answer = "Greater", s.k)
        [] op.o = "SeekLe" ->
             IF s.answer = "Greater" THEN back ELSE In(s.answer # "Empty", s.k)
        [] op.o = "SeekLt" ->
             IF s.answer \in {"Equal", "Greater"} THEN back ELSE In(s.answer # "Empty", s.k)

Seek ==
  /\ At({"SeekGe", "SeekGt", "SeekLe", "SeekLt"})
  /\ LET m == regs[op.p3]
         s == SeekTo(IF IsNumber(m) THEN Unsigned(ToInt(m)) ELSE 0)
     IN  Point(s.k) /\ JumpIf(~s.found)
  /\ Quiet /\ UNCHANGED <<regs, callStack, aggs, leaves, npages>>

\* A record may have fewer values than the table has columns.
Read ==
  /\ At({"Column", "RowId"})
  /\ LET k == cursors[op.p1]
         values == IF k.kind = "sorter" THEN k.records[k.pos] ELSE k.data
     IN  IF op.o = "RowId" THEN Set(op.p2, IntV(Wrap(k.at, IntBits)))
         ELSE Set(op.p3, IF op.p2 < Len(values) THEN values[op.p2 + 1] ELSE Null)
  /\ Continue
  /\ Quiet /\ UNCHANGED <<callStack, aggs, cursors, leaves, npages>>

NewRowid ==
  /\ At({"NewRowid"})
  /\ Point(Final)
  /\ Set(op.p2, Reckon("AddInt", Wrap(Final.at, IntBits), 1))
  /\ Continue
  /\ Quiet /\ UNCHANGED <<callStack, aggs, leaves, npages>>

Insert ==
  /\ At({"Insert", "InsertInt"})
  /\ LET r == IF op.o = "Insert" THEN regs[op.p3].v ELSE op.p3
     IN  leaves' = WithRow(Unsigned(r), regs[op.p2].v)
  /\ Point(Invalid)
  /\ Continue
  /\ Quiet /\ UNCHANGED <<regs, callStack, aggs, npages>>

\* The cursor stays where the next row of the leaf slides in.
DeletedAt(k) == AtLowest(k.leaf, {r \in Keys(k.leaf) : r > k.at})

Delete ==
  /\ At({"Delete"})
  /\ LET k == cursors[op.p1]
     IN  Point(DeletedAt(k)) /\ leaves' = WithoutRow(k.leaf, k.at)
  /\ Continue
  /\ Quiet /\ UNCHANGED <<regs, callStack, aggs, npages>>

CreateTable ==
  /\ At({"CreateTable"})
  /\ npages' = npages + 1
  /\ Set(op.p2, IntV(npages + 1))
  /\ Continue
  /\ Quiet /\ UNCHANGED <<callStack, aggs, cursors, leaves>>

-----------------------------------------------------------------------------
(* Sorters; pos counts from 1. *)

SorterInsert ==
  /\ At({"SorterInsert"})
  /\ cursors' = [cursors EXCEPT ![op.p1].records = Append(@, regs[op.p2].v)]
  /\ Continue
  /\ Quiet /\ UNCHANGED <<regs, callStack, aggs, leaves, npages>>

SorterSort ==
  /\ At({"SorterSort"})
  /\ Point(Sorter(Sorted(cursors[op.p1].records), 1))
  /\ JumpIf(cursors[op.p1].records = <<>>)
  /\ Quiet /\ UNCHANGED <<regs, callStack, aggs, leaves, npages>>

SorterData ==
  /\ At({"SorterData"})
  /\ Set(op.p2, BlobV(cursors[op.p1].records[cursors[op.p1].pos]))
  /\ Continue
  /\ Quiet /\ UNCHANGED <<callStack, aggs, cursors, leaves, npages>>

SorterNext ==
  /\ At({"SorterNext"})
  /\ LET k == cursors[op.p1]
     IN  Point(Sorter(k.records, k.pos + 1)) /\ JumpIf(k.pos < Len(k.records))
  /\ Quiet /\ UNCHANGED <<regs, callStack, aggs, leaves, npages>>

-----------------------------------------------------------------------------
(* The caller. *)

\* A program p about to be stepped for the first time, over this table.
Starts(p, table) ==
  /\ program = p /\ leaves = table /\ given = table
  /\ pc = 0 /\ callStack = <<>> /\ halted = FALSE /\ row = <<>> /\ aggs = <<>>
  /\ regs = [r \in 0 .. p.nregs - 1 |-> Null]
  /\ cursors = [k \in 0 .. p.ncur - 1 |-> Closed]
  /\ checks \in BOOLEAN /\ panicked = FALSE
  /\ running = FALSE /\ failed = FALSE /\ out = <<>> /\ resets = 0
  /\ npages = 1 + Len(table)

\* step(); on a program that has halted it only answers Done.
Call ==
  /\ ~running /\ ~halted /\ ~failed /\ ~panicked
  /\ running' = TRUE
  /\ UNCHANGED <<caller, pc, machine, failed, panicked, leaves, npages, out>>

\* Mutant: the program goes on where it was.
RestartNot == pc

Restart == 0

\* reset(): of the registers only aggregate states are cleared; the
\* statement drops its cursors.
Reset ==
  /\ ~running /\ ~panicked /\ resets < MaxResets
  /\ pc' = Restart /\ halted' = FALSE /\ row' = <<>> /\ aggs' = <<>>
  /\ regs' = [r \in DOMAIN regs |-> IF regs[r].t = "agg" THEN Null ELSE regs[r]]
  /\ cursors' = [k \in DOMAIN cursors |-> Closed]
  /\ failed' = FALSE /\ out' = <<>> /\ given' = leaves /\ resets' = resets + 1
  /\ UNCHANGED <<program, checks, callStack, running, panicked, leaves, npages>>

Instruction ==
  \/ Fail \/ Panic \/ Halt \/ RunOff \/ Jump \/ Return \/ Branch \/ DecrJumpZero \/ ResultRow
  \/ Compute \/ Dispatch \/ Move \/ MakeRecord \/ AggStep \/ AggFinal
  \/ Open \/ GoToEnd \/ Step \/ Seek \/ Read \/ NewRowid \/ Insert \/ Delete \/ CreateTable
  \/ SorterInsert \/ SorterSort \/ SorterData \/ SorterNext

Next == Instruction \/ Call \/ Reset

\* A thread in step() runs on: the loop over the instructions has no other
\* way out than a row, the end, or an error.
Fairness == WF_vars(Instruction)
=============================================================================
