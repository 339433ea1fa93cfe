-------------------------------- MODULE Rows --------------------------------
(***************************************************************************)
(* How a row is laid down and found again: liter-record makes a record of  *)
(* its values, liter-btree a cell of the record, whose end goes to a chain *)
(* of overflow pages when it is long.  Bytes are numbers, an i64 or u64 is *)
(* its eight bytes from the highest, a real is opaque.                     *)
(***************************************************************************)
EXTENDS Integers, Sequences, FiniteSets, SequencesExt, FiniteSetsExt, TLC

CONSTANT PageSize \* at least 512

U64(n) == [i \in 1 .. 8 |-> IF i <= 4 THEN 0 ELSE (n \div 256 ^ (8 - i)) % 256]

\* The number of a few bits or bytes; lengths and serial types are small.
Number(digits, base) == FoldLeft(LAMBDA n, d : base * n + d, 0, digits)

NatOf(u) == Number(u, 256)

Bits(u) == [i \in 1 .. 64 |-> (u[(i - 1) \div 8 + 1] \div 2 ^ (7 - ((i - 1) % 8))) % 2]

FromBits(bits) == [i \in 1 .. 8 |-> Number(SubSeq(bits, 8 * i - 7, 8 * i), 2)]

Failed == [ok |-> FALSE]

-----------------------------------------------------------------------------
(* Varints: seven bits to a byte, high bits first; eight in a ninth byte.  *)

\* Groups of seven bits in the lowest 7 * n, all but the last marked if so.
Groups(bits, n, marked) ==
  [i \in 1 .. n |->
     Number(SubSeq(bits, Len(bits) - 7 * (n - i + 1) + 1, Len(bits) - 7 * (n - i)), 2)
       + IF i < n \/ marked THEN 128 ELSE 0]

EncodeVarint(u) ==
  LET bits == Bits(u)
      used == {n \in 1 .. 8 : \A i \in 1 .. 64 - 7 * n : bits[i] = 0}
  IN  IF u[1] # 0 THEN Append(Groups(SubSeq(bits, 1, 56), 8, TRUE), u[8])
      ELSE Groups(bits, Min(used), FALSE)

\* The varint that starts at a place of buf, and the bytes it takes.
DecodeVarint(buf, at) ==
  LET ends == {i \in 1 .. 9 : at + i - 1 <= Len(buf) /\ (i = 9 \/ buf[at + i - 1] < 128)}
      n == Min(ends)
      low(byte, width) == [k \in 1 .. width |-> (byte \div 2 ^ (width - k)) % 2]
      bits == FlattenSeq([i \in 1 .. n |-> low(buf[at + i - 1], IF i = 9 THEN 8 ELSE 7)])
  IN  IF ends = {} THEN Failed
      ELSE [ok |-> TRUE, n |-> n, value |-> FromBits([i \in 1 .. 64 - Len(bits) |-> 0] \o bits)]

-----------------------------------------------------------------------------
(* Values. *)

Null == [t |-> "null", v |-> <<>>]
Integer(u) == [t |-> "int", v |-> u]

Widths == <<1, 2, 3, 4, 6, 8>>  \* of serial types 1 to 6

\* Mutant: without a look at the sign.
ExtendsUnsigned(u, width) == \A i \in 1 .. 8 - width : u[i] = 0

\* The high bytes of an i64 that repeat the sign of the others.
Extends(u, width) == \A i \in 1 .. 8 - width : u[i] = IF u[9 - width] >= 128 THEN 255 ELSE 0

IntType(u) ==
  CASE u = U64(0) -> 8
    [] u = U64(1) -> 9
    [] OTHER -> Min({k \in DOMAIN Widths : Extends(u, Widths[k])})

SerialType(m) ==
  CASE m.t = "null" -> 0
    [] m.t = "int" -> IntType(m.v)
    [] m.t = "real" -> 7
    [] m.t = "blob" -> 2 * Len(m.v) + 12
    [] m.t = "text" -> 2 * Len(m.v) + 13

Width(type) ==
  CASE type \in {0, 8, 9} -> 0
    [] type \in 1 .. 6 -> Widths[type]
    [] type = 7 -> 8
    [] OTHER -> (type - 12) \div 2

SignExtended(bytes) ==
  [i \in 1 .. 8 - Len(bytes) |-> IF bytes[1] >= 128 THEN 255 ELSE 0] \o bytes

DecodeValue(type, bytes) ==
  CASE type = 0 -> Null
    [] type \in {8, 9} -> Integer(U64(type - 8))
    [] type \in 1 .. 6 -> Integer(SignExtended(bytes))
    [] type = 7 -> [t |-> "real", v |-> bytes]
    [] OTHER -> [t |-> IF type % 2 = 0 THEN "blob" ELSE "text", v |-> bytes]

-----------------------------------------------------------------------------
(* Records. *)

Tail8(u, n) == SubSeq(u, 9 - n, 8)

Payload(m) ==
  CASE m.t = "int" -> Tail8(m.v, Width(IntType(m.v)))
    [] m.t = "null" -> <<>>
    [] OTHER -> m.v

\* The size of a header counts the bytes of its own varint: what the loop
\* that makes room for them comes to.
HeaderSize(n) == n + Min({k \in 1 .. 9 : Len(EncodeVarint(U64(n + k))) = k})

\* A zeroblob cannot be written.
EncodeRecord(values) ==
  LET header == FlattenSeq([i \in DOMAIN values |-> EncodeVarint(U64(SerialType(values[i])))])
      payload == FlattenSeq([i \in DOMAIN values |-> Payload(values[i])])
  IN  IF \E i \in DOMAIN values : values[i].t = "zeroblob" THEN Failed
      ELSE [ok |-> TRUE, bytes |-> EncodeVarint(U64(HeaderSize(Len(header)))) \o header \o payload]

Invalid == {10, 11} \* serial types

\* The serial types between the size of the header and its end; one that is
\* cut off is not valid either.
TypesIn(buf, first, size) ==
  LET from[at \in 1 .. Len(buf) + 1] ==
        LET type == DecodeVarint(buf, at)
        IN  CASE at > size -> <<>>
              [] at <= size /\ ~type.ok -> <<10>>
              [] OTHER -> <<NatOf(type.value)>> \o from[at + type.n]
  IN  from[first]

DecodeRecord(buf) ==
  LET size == DecodeVarint(buf, 1)
      head == NatOf(size.value)
      types == TypesIn(buf, size.n + 1, head)
      start[k \in 1 .. Len(types) + 1] ==
        IF k = 1 THEN head ELSE start[k - 1] + Width(types[k - 1])
  IN  CASE buf = <<>> -> [ok |-> TRUE, values |-> <<>>]
        [] buf # <<>> /\ (~size.ok \/ head > Len(buf)) -> Failed
        [] Invalid \cap ToSet(types) # {} -> Failed
        [] start[Len(types) + 1] > Len(buf) -> Failed
        [] OTHER -> [ok |-> TRUE, values |->
                      [k \in DOMAIN types |->
                         DecodeValue(types[k], SubSeq(buf, start[k] + 1, start[k + 1]))]]

-----------------------------------------------------------------------------
(* Cells: pages are overflow pages, each the number of the next and data.  *)

MaxLocal == PageSize - 35
MinLocal == Max({0, ((PageSize - 12) * 32) \div 255 - 23})
Capacity == PageSize - 4

\* The bytes of a payload that stay in the cell.
LocalSize(n) ==
  LET local == MinLocal + ((n - MinLocal) % Capacity)
  IN  CASE n <= MaxLocal -> n
        [] n > MaxLocal /\ local <= MaxLocal -> local
        [] OTHER -> MinLocal

Overflows(n) == n > MaxLocal

\* A chain laid down behind size pages, its last page first.
WriteChain(extra, size) ==
  LET n == (Len(extra) + Capacity - 1) \div Capacity
      chunk(i) == SubSeq(extra, Capacity * (i - 1) + 1, Min({Capacity * i, Len(extra)}))
  IN  [p \in size + 1 .. size + n |->
         [next |-> IF p = size + 1 THEN 0 ELSE p - 1,
          data |-> chunk(n - (p - size) + 1)]]

\* A page is filled up with zeros; of the last one what is left is read.
ReadChain(pages, first, remaining) ==
  LET filled(p) == pages[p].data \o [i \in 1 .. Capacity - Len(pages[p].data) |-> 0]
      read[n \in 0 .. remaining, p \in DOMAIN pages \cup {0}] ==
        IF p = 0 \/ n = 0 THEN <<>>
        ELSE LET take == Min({n, Capacity})
             IN  SubSeq(filled(p), 1, take) \o read[n - take, pages[p].next]
  IN  read[remaining, first]

BuildLeafCell(rowid, payload, size) ==
  LET n == Len(payload)
      chain == WriteChain(SubSeq(payload, LocalSize(n) + 1, n), size)
  IN  [bytes |-> EncodeVarint(U64(n)) \o EncodeVarint(rowid) \o SubSeq(payload, 1, LocalSize(n))
                   \o (IF Overflows(n) THEN Tail8(U64(size + Cardinality(DOMAIN chain)), 4) ELSE <<>>),
       pages |-> chain]

LoadCell(cell, pages) ==
  LET length == DecodeVarint(cell, 1)
      rowid == DecodeVarint(cell, length.n + 1)
      n == NatOf(length.value)
      s == length.n + rowid.n
      end == s + LocalSize(n)
      local == SubSeq(cell, s + 1, end)
  IN  [rowid |-> rowid.value,
       data |-> IF ~Overflows(n) THEN local
                ELSE local \o ReadChain(pages, NatOf(SubSeq(cell, end + 1, end + 4)),
                                        n - LocalSize(n))]

-----------------------------------------------------------------------------
(* What a row that was stored must come to. *)

\* A row goes to a record and the record to a cell and its chain, behind size
\* other pages, and comes back the same with its rowid; the part in the cell
\* is short enough for a page, and the chain as long as it has to be.  A
\* record of which the end is missing is not taken for a row, and one with a
\* zeroblob is not made (encode_record, decode_record, load_cell).
RowComesBack(row, rowid, size) ==
  LET record == EncodeRecord(row)
      n == Len(record.bytes)
      cell == BuildLeafCell(rowid, record.bytes, size)
      pages == [p \in 1 .. size |-> [next |-> size, data |-> <<255>>]] @@ cell.pages
      found == LoadCell(cell.bytes, pages)
  IN  IF ~record.ok THEN \E i \in DOMAIN row : row[i].t = "zeroblob"
      ELSE /\ found = [rowid |-> rowid, data |-> record.bytes]
           /\ DecodeRecord(found.data) = [ok |-> TRUE, values |-> row]
           /\ LocalSize(n) <= MaxLocal
           /\ Cardinality(DOMAIN cell.pages) * Capacity \in n - LocalSize(n) .. n - LocalSize(n) + Capacity - 1
           /\ \A cut \in {1, 2, n \div 2, n - 1} \cap 1 .. n - 1 :
                ~DecodeRecord(SubSeq(record.bytes, 1, cut)).ok
=============================================================================
