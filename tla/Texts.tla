------------------------------- MODULE Texts -------------------------------
(***************************************************************************)
(* The text functions of liter-functions.  A text is a sequence of         *)
(* characters, and arguments are values of the machine.                    *)
(***************************************************************************)
EXTENDS Integers, Sequences, SequencesExt, FiniteSetsExt, Functions

Null == [t |-> "null", v |-> 0]
Integer(n) == [t |-> "int", v |-> n]
Text(s) == [t |-> "text", v |-> s]

WrongArgCount == [t |-> "error", v |-> 0]
Panic == [t |-> "panic", v |-> 0] \* the slice ends before it begins

-----------------------------------------------------------------------------
(* Texts of values, and values of texts. *)

Digits == <<"0", "1", "2", "3", "4", "5", "6", "7", "8", "9">>

Decimal(n) ==
  LET of[k \in Nat] == (IF k < 10 THEN <<>> ELSE of[k \div 10]) \o << Digits[(k % 10) + 1] >>
  IN  IF n < 0 THEN <<"-">> \o of[-n] ELSE of[n]

MemToString(m) ==
  CASE m.t = "text" -> m.v
    [] m.t = "int" -> Decimal(m.v)
    [] OTHER -> <<>>

\* str::parse, with 0 for what is no number.
Parsed(s) ==
  LET signed == s # <<>> /\ s[1] \in {"+", "-"}
      digits == IF signed THEN Tail(s) ELSE s
      digit(c) == CHOOSE d \in 0 .. 9 : Digits[d + 1] = c
      number == FoldLeft(LAMBDA n, c : 10 * n + digit(c), 0, digits)
  IN  CASE digits = <<>> \/ ToSet(digits) \ ToSet(Digits) # {} -> 0
        [] signed /\ s[1] = "-" -> -number
        [] OTHER -> number

IsNumber(m) == m.t \in {"int", "text"}

AnyNull(args) == \E i \in DOMAIN args : args[i].t = "null"

ToInt(m) == IF m.t = "int" THEN m.v ELSE Parsed(m.v)

-----------------------------------------------------------------------------
Length(args) ==
  CASE args # <<>> /\ args[1].t = "text" -> Integer(Len(args[1].v))
    [] args # <<>> /\ args[1].t = "zeroblob" -> Integer(args[1].v)
    [] OTHER -> Null

\* The letters that have two cases here.
Pairs == [a |-> "A", b |-> "B"]

UpperCase(c) == IF c \in DOMAIN Pairs THEN Pairs[c] ELSE c
LowerCase(c) == IF c \in Range(Pairs) THEN CHOOSE l \in DOMAIN Pairs : Pairs[l] = c ELSE c

InCase(args, Case(_)) ==
  IF args # <<>> /\ args[1].t = "text" THEN Text([i \in DOMAIN args[1].v |-> Case(args[1].v[i])]) ELSE Null

Upper(args) == InCase(args, UpperCase)
Lower(args) == InCase(args, LowerCase)

ZeroBlob(args) ==
  CASE Len(args) # 1 -> WrongArgCount
    [] Len(args) = 1 /\ AnyNull(args) -> Null
    [] OTHER -> [t |-> "zeroblob", v |-> IF args[1].t = "int" THEN Max({0, args[1].v}) ELSE 0]

TypeOf(args) ==
  CASE args = <<>> \/ AnyNull(args) -> "null"
    [] args # <<>> /\ args[1].t = "int" -> "integer"
    [] args # <<>> /\ args[1].t = "text" -> "text"
    [] OTHER -> "blob"

\* Places count from 1, from the end when they are negative; a negative length
\* takes what comes before the place.
Substr(args) ==
  LET s == MemToString(args[1])
      start == ToInt(args[2])
      first == CASE start > 0 -> start - 1
                 [] start < 0 -> Max({Len(s) + start, 0})
                 [] OTHER -> 0
      length == IF Len(args) = 3 /\ IsNumber(args[3]) THEN ToInt(args[3]) ELSE Len(s) - first
      counted == Len(args) = 3 /\ IsNumber(args[3])
      inside(i) == Max({0, Min({i, Len(s)})})
      slice(from, to) == IF from > to THEN Panic ELSE Text(SubSeq(s, from + 1, to))
  IN  CASE Len(args) \notin {2, 3} -> WrongArgCount
        [] Len(args) \in {2, 3} /\ (AnyNull(<<args[1]>>) \/ ~IsNumber(args[2])) -> Null
        [] OTHER -> IF counted /\ length < 0
                    THEN slice(Max({first + length, 0}), inside(first))
                    ELSE slice(inside(first), inside(first + length))

Occurrences(haystack, needle) ==
  {i \in 1 .. Len(haystack) - Len(needle) + 1 :
     SubSeq(haystack, i, i + Len(needle) - 1) = needle}

\* Mutant: the offset of what is found, which counts from 0.
InstrOffset(args) ==
  LET at == Occurrences(MemToString(args[1]), MemToString(args[2]))
  IN  CASE Len(args) # 2 -> WrongArgCount
        [] Len(args) = 2 /\ AnyNull(args) -> Null
        [] OTHER -> Integer(IF at = {} THEN 0 ELSE Min(at) - 1)

Instr(args) ==
  LET at == Occurrences(MemToString(args[1]), MemToString(args[2]))
  IN  CASE Len(args) # 2 -> WrongArgCount
        [] Len(args) = 2 /\ AnyNull(args) -> Null
        [] OTHER -> Integer(IF at = {} THEN 0 ELSE Min(at))

\* str::replace: from the left, and before each character and behind the last
\* when the pattern is empty.
Replaced(s, pattern, by) ==
  LET n == Len(pattern)
      from[i \in 1 .. Len(s) + 1] ==
        LET here == i \in Occurrences(s, pattern)
            rest == IF here /\ n > 0 THEN from[i + n] ELSE <<s[i]>> \o from[i + 1]
        IN  (IF here THEN by ELSE <<>>) \o (IF i > Len(s) THEN <<>> ELSE rest)
  IN  from[1]

Replace(args) ==
  CASE Len(args) # 3 -> WrongArgCount
    [] Len(args) = 3 /\ AnyNull(args) -> Null
    [] OTHER -> Text(Replaced(MemToString(args[1]), MemToString(args[2]), MemToString(args[3])))

\* Blanks are taken off unless a text says what.
Trim(args) ==
  LET s == MemToString(args[1])
      off == IF Len(args) = 2 /\ args[2].t = "text" THEN ToSet(args[2].v) ELSE {" "}
      kept == {i \in DOMAIN s : s[i] \notin off}
  IN  CASE Len(args) \notin {1, 2} -> WrongArgCount
        [] Len(args) \in {1, 2} /\ AnyNull(<<args[1]>>) -> Null
        [] OTHER -> Text(IF kept = {} THEN <<>> ELSE SubSeq(s, Min(kept), Max(kept)))

-----------------------------------------------------------------------------
(* What the functions promise one another. *)

\* A text is what substr makes of its beginning and its end, wherever it is
\* cut and from whichever end the place is counted.
CutsMeet(s) ==
  \A k \in 1 .. Len(s) :
    LET head == Substr(<<Text(s), Integer(1), Integer(k - 1)>>)
        tail == Substr(<<Text(s), Integer(k)>>)
    IN  /\ head.v \o tail.v = s
        /\ head = Substr(<<Text(s), Integer(k), Integer(-Len(s))>>)
        /\ tail = Substr(<<Text(s), Integer(k - Len(s) - 1)>>)

\* What instr finds is there, and nowhere before; replace changes what instr
\* finds, one after the other, and nothing where it finds nothing.
FindsAndReplaces(s, pattern, by) ==
  LET at == Instr(<<Text(s), Text(pattern)>>).v
      replaced == Replace(<<Text(s), Text(pattern), Text(by)>>).v
      before == Substr(<<Text(s), Integer(1), Integer(at - 1)>>).v
      rest == Substr(<<Text(s), Integer(at + Len(pattern))>>).v
  IN  IF at = 0 THEN replaced = s /\ Occurrences(s, pattern) = {}
      ELSE /\ Substr(<<Text(s), Integer(at), Integer(Len(pattern))>>).v = pattern
           /\ \A j \in 1 .. at - 1 : Substr(<<Text(s), Integer(j), Integer(Len(pattern))>>).v # pattern
           /\ pattern # <<>> =>
                replaced = before \o by \o Replace(<<Text(rest), Text(pattern), Text(by)>>).v

\* Case changes back and forth without a letter lost, and finds what is there
\* in the other case; a zeroblob is as long as it was asked to be.
KeepsLength(s, pattern) ==
  LET upper == Upper(<<Text(s)>>)
      blob == ZeroBlob(<<Length(<<Text(s)>>)>>)
  IN  /\ Length(<<upper>>) = Length(<<Text(s)>>)
      /\ Lower(<<upper>>) = Lower(<<Text(s)>>)
      /\ Instr(<<upper, Upper(<<Text(pattern)>>)>>) = Instr(<<Lower(<<Text(s)>>), Lower(<<Text(pattern)>>)>>)
      /\ Length(<<blob>>) = Length(<<upper>>) /\ TypeOf(<<blob>>) = "blob"

\* Trim leaves a part of the text that neither begins nor ends with what it
\* takes off, and takes nothing else.
TrimsEnds(s, off) ==
  LET trimmed == Trim(<<Text(s), Text(off)>>).v
      at == Instr(<<Text(s), Text(trimmed)>>).v
      outside == SubSeq(s, 1, at - 1) \o SubSeq(s, at + Len(trimmed), Len(s))
  IN  /\ at > 0
      /\ ToSet(outside) \subseteq ToSet(off)
      /\ trimmed # <<>> => {trimmed[1], Last(trimmed)} \cap ToSet(off) = {}
=============================================================================
