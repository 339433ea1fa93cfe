--------------------------------- MODULE Mem ---------------------------------
(***************************************************************************)
(* The values of liter-vdbe's registers and what they are compared and     *)
(* reckoned by.  A value is its type and a number: an integer, a real      *)
(* counted in twelfths (an average of four integers is one), the place of  *)
(* a text among the texts of the instance (0 is the empty one), the index  *)
(* of an aggregate state.  The blob that MakeRecord writes is the sequence *)
(* of the values in it.                                                    *)
(***************************************************************************)
EXTENDS Integers, Sequences, FiniteSets, SequencesExt

CONSTANTS
  IntBits,  \* width of an i64
  LitBits,  \* width of the i32 operands of an instruction
  RealBits  \* width of the significand of an f64

ASSUME MemConstants ==
  IntBits \in Nat \ {0} /\ LitBits \in 1 .. IntBits /\ RealBits \in Nat \ {0}

Null == [t |-> "null", v |-> 0]
IntV(n) == [t |-> "int", v |-> n]
RealV(h) == [t |-> "real", v |-> h]

One == 12  \* the real 1.0
TextV(k) == [t |-> "text", v |-> k]
BlobV(values) == [t |-> "blob", v |-> values]
AggV(i) == [t |-> "agg", v |-> i]

IsNull(m) == m.t = "null"

IsNumber(m) == m.t \in {"int", "real"}

\* The casts: a two's complement number of the width, and an i64 as a u64.
Wrap(n, bits) == ((n + 2 ^ (bits - 1)) % (2 ^ bits)) - 2 ^ (bits - 1)
Unsigned(n) == n % (2 ^ IntBits)

LowInt == -(2 ^ (IntBits - 1))
HighInt == 2 ^ (IntBits - 1) - 1
FitsInt(n) == n \in LowInt .. HighInt

\* Division and remainder of Rust: towards zero, and the sign of the dividend.
Abs(n) == IF n < 0 THEN -n ELSE n
DivTrunc(a, b) == IF (a < 0) = (b < 0) THEN Abs(a) \div Abs(b) ELSE -(Abs(a) \div Abs(b))
RemTrunc(a, b) == a - b * DivTrunc(a, b)

\* A cast to i64 stays within its range.
ToInt(m) ==
  IF m.t = "int" THEN m.v ELSE Max({LowInt, Min({HighInt, DivTrunc(m.v, One)})})

\* How far from each other reals of that magnitude are, where they are further
\* than integers: from 2 ^ RealBits on.
Spacing(h) ==
  Max({1} \cup {One * 2 ^ k : k \in {j \in 1 .. IntBits + 2 : Abs(h) >= One * 2 ^ (RealBits + j - 1)}})

\* The multiple of unit next to h, and of two as near the even one.
Nearest(h, unit) ==
  unit * ((2 * h + unit) \div (2 * unit)
            - IF (2 * h + unit) % (4 * unit) = 2 * unit THEN 1 ELSE 0)

Rounded(h) == Nearest(h, Spacing(h))

ToReal(m) == IF m.t = "int" THEN Rounded(One * m.v) ELSE m.v

IsTruthy(m) ==
  \/ m.t \in {"int", "real", "text"} /\ m.v # 0
  \/ m.t = "blob" /\ m.v # <<>>

TypeClass(m) ==
  CASE m.t = "null" -> 1
    [] m.t \in {"int", "real"} -> 2
    [] m.t = "text" -> 3
    [] m.t = "blob" -> 4
    [] m.t = "agg" -> 5

AreNumbers(a, b) == IsNumber(a) /\ IsNumber(b)

\* Mem::cmp, as a strict order: Null < numbers < texts < blobs.  Integers are
\* compared as such, an integer and a real as reals.
Less(a, b) ==
  \/ TypeClass(a) < TypeClass(b)
  \/ a.t = b.t /\ a.t \in {"int", "text"} /\ a.v < b.v
  \/ AreNumbers(a, b) /\ {a.t, b.t} # {"int"} /\ ToReal(a) < ToReal(b)

\* What the comparison opcodes do: they compare numbers as reals, integers
\* too, and everything else by cmp and PartialEq.
Below(a, b) == IF AreNumbers(a, b) THEN ToReal(a) < ToReal(b) ELSE Less(a, b)

Same(a, b) ==
  IF AreNumbers(a, b) THEN ToReal(a) = ToReal(b) ELSE a.t = b.t /\ a.v = b.v

Compare(o, a, b) ==
  CASE o = "Eq" -> Same(a, b)
    [] o = "Ne" -> ~Same(a, b)
    [] o = "Lt" -> Below(a, b)
    [] o = "Le" -> ~Below(b, a)
    [] o = "Gt" -> Below(b, a)
    [] o = "Ge" -> ~Below(a, b)

Divisions == {"DivideInt", "RemainderInt"}
Arithmetic == {"AddInt", "SubtractInt", "MultiplyInt"} \cup Divisions

\* What the arithmetic opcodes compute; the divisor is not zero.
Exactly(o, a, b) ==
  CASE o = "AddInt" -> a + b
    [] o = "SubtractInt" -> a - b
    [] o = "MultiplyInt" -> a * b
    [] o = "DivideInt" -> DivTrunc(a, b)
    [] o = "RemainderInt" -> RemTrunc(a, b)


\* Builds with overflow checks panic.
Overflows(o, a, b) == ~FitsInt(Exactly(o, a, b))

\* A division whose quotient is no i64 panics in every build, and so does its
\* remainder.
Traps(o, a, b) == o \in Divisions /\ ~FitsInt(DivTrunc(a, b))

\* Builds without the checks wrap.
Reckon(o, a, b) == IntV(Wrap(Exactly(o, a, b), IntBits))

\* Records are sorted field by field, and by length where one is a prefix.
RecordLess(x, y) ==
  LET n == IF Len(x) < Len(y) THEN Len(x) ELSE Len(y)
      differ == {i \in 1 .. n : Less(x[i], y[i]) \/ Less(y[i], x[i])}
  IN  \/ \E i \in differ : Less(x[i], y[i]) /\ \A j \in differ : i <= j
      \/ differ = {} /\ Len(x) < Len(y)

\* sort_by of the sorter, which is stable: how many records come before the
\* i-th, and the records in their order.
Before(records, i) ==
  Cardinality({j \in DOMAIN records :
    \/ RecordLess(records[j], records[i])
    \/ j < i /\ ~RecordLess(records[i], records[j])})

Sorted(records) ==
  [p \in DOMAIN records |-> records[CHOOSE i \in DOMAIN records : Before(records, i) = p - 1]]

-----------------------------------------------------------------------------
(* liter-functions: aggregate states.  A state is its function's name, a   *)
(* count and a value; the sum of avg is the value.                         *)

Aggregates == {"count", "sum", "avg", "min", "max"}

NewAgg(fn) == [fn |-> fn, n |-> 0, m |-> Null]

\* A text adds 0.0.
Addend(m) == IF IsNumber(m) THEN ToReal(m) ELSE 0

\* checked_add: a sum that leaves the integers becomes a real one.
SumStep(acc, m) ==
  IF IsNull(acc) THEN IF m.t = "int" THEN m ELSE RealV(Addend(m))
  ELSE IF acc.t = "int" /\ m.t = "int" /\ FitsInt(acc.v + m.v) THEN IntV(acc.v + m.v)
  ELSE RealV(Rounded(ToReal(acc) + Addend(m)))

AggStepped(s, args) ==
  LET m == IF args = <<>> THEN Null ELSE args[1]
      takes ==
        CASE s.fn = "count" -> args = <<>> \/ ~IsNull(m)
          [] s.fn = "sum" -> ~IsNull(m)
          [] s.fn = "avg" -> IsNumber(m)
          [] s.fn = "min" -> ~IsNull(m) /\ (IsNull(s.m) \/ Less(m, s.m))
          [] s.fn = "max" -> ~IsNull(m) /\ (IsNull(s.m) \/ Less(s.m, m))
  IN  IF ~takes THEN s
      ELSE CASE s.fn = "count" -> [s EXCEPT !.n = @ + 1]
             [] s.fn = "sum" -> [s EXCEPT !.m = SumStep(@, m)]
             [] s.fn = "avg" -> [s EXCEPT !.n = @ + 1, !.m = RealV(Rounded(@.v + ToReal(m)))]
             [] OTHER -> [s EXCEPT !.m = m]

\* The state after the rows whose arguments these are.
RECURSIVE AggOver(_, _)
AggOver(fn, rows) ==
  IF rows = <<>> THEN NewAgg(fn) ELSE AggStepped(AggOver(fn, Front(rows)), Last(rows))

\* finalize; sum, min and max give their value away (take).
AggFinalized(s) ==
  CASE s.fn = "count" -> IntV(s.n)
    [] s.fn = "avg" -> IF s.n = 0 THEN Null ELSE RealV(DivTrunc(s.m.v, s.n))
    [] OTHER -> s.m

-----------------------------------------------------------------------------
(* liter-functions: the scalar functions that look at no characters.       *)

Failed == [t |-> "error", v |-> 0]

FirstOf(args) == IF args = <<>> THEN Null ELSE args[1]

\* i64::MIN has no opposite.
AbsOf(m) ==
  CASE m.t = "int" -> IntV(Min({Abs(m.v), HighInt}))
    [] m.t = "real" -> RealV(Abs(m.v))
    [] OTHER -> Null

SignOf(m) ==
  CASE IsNull(m) -> Null
    [] IsNumber(m) -> IntV(IF m.v = 0 THEN 0 ELSE m.v \div Abs(m.v))
    [] OTHER -> IntV(0)

Coalesce(args) == FirstOf(SelectSeq(args, LAMBDA m : ~IsNull(m)))

\* The first of the arguments that none betters.  (compare_mem is as cmp,
\* blobs apart.)
Greatest(args) == FirstOf(SelectSeq(args, LAMBDA m : \A i \in DOMAIN args : ~Less(m, args[i])))
Least(args) == FirstOf(SelectSeq(args, LAMBDA m : \A i \in DOMAIN args : ~Less(args[i], m)))

Function(fn, args) ==
  CASE fn = "abs" -> AbsOf(FirstOf(args))
    [] fn = "sign" -> SignOf(FirstOf(args))
    [] fn = "coalesce" -> Coalesce(args)
    [] fn = "ifnull" -> IF Len(args) = 2 THEN Coalesce(args) ELSE Failed
    [] fn = "max" -> Greatest(args)
    [] fn = "min" -> Least(args)
    [] OTHER -> Failed
=============================================================================
