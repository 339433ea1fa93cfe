--------------------------- MODULE BTreeShapeProofs --------------------------
(***************************************************************************)
(* Proofs about the table B-tree, first part: what the pages hold, what    *)
(* splitting one of them does to it, and how descents go through them.     *)
(*                                                                         *)
(* The pages are related to a search tree, a function from page numbers to *)
(* nodes: a node has a level, the range of rowids it is responsible for,   *)
(* its keys and its children, and child i is responsible for the slice of  *)
(* the range between keys i - 1 and i.  TreeInv says that there is such a  *)
(* tree, that the pages show it but for the pointers a split has still to  *)
(* set, and that every row has its overflow chain.  The lemmas go from     *)
(* recursion and sequences over trees and cells to pages; SplitBelowKeeps, *)
(* SplitRootKeeps and RetargetKeeps say that the steps of a split keep it, *)
(* the last ones give the recursive definitions of the model, descents and *)
(* what is gathered below a page, their equations.                         *)
(***************************************************************************)
EXTENDS MCBTree, FiniteSetTheorems, SequenceTheorems, TLAPS

-----------------------------------------------------------------------------
\* Induction

\* A set of naturals that is not empty has a least element.
LEMMA LeastNatural ==
  ASSUME NEW S \in SUBSET Nat, S # {}
  PROVE  \E m \in S : \A n \in S : m <= n
  <1> DEFINE below == {0 .. n : n \in S}
  <1>1. below \subseteq FiniteSubsetsOf(Nat)
    <2> SUFFICES ASSUME NEW n \in S
                 PROVE  0 .. n \in SUBSET Nat /\ IsFiniteSet(0 .. n)
      BY DEF FiniteSubsetsOf
    <2> QED
      BY FS_Interval
  <1>2. below # {}
    OBVIOUS
  <1>3. IsWellFoundedOn(StrictSubsetOrdering(Nat), FiniteSubsetsOf(Nat))
    BY FS_StrictSubsetOrderingWellFounded
  <1> HIDE DEF below
  <1>4. PICK x \in below : \A y \in below : ~ (<<y, x>> \in StrictSubsetOrdering(Nat))
    BY <1>1, <1>2, <1>3, WFMin
  <1>5. PICK m \in S : x = 0 .. m
    BY <1>4 DEF below
  <1>6. ASSUME NEW n \in S, ~(m <= n)
        PROVE  FALSE
    <2>1. 0 .. n \in below
      BY DEF below
    <2>2. 0 .. n \subseteq 0 .. m /\ 0 .. n \subseteq Nat /\ 0 .. m \subseteq Nat
      BY <1>6
    <2>3. m \in 0 .. m /\ m \notin 0 .. n
      BY <1>6
    <2> QED
      BY <1>4, <1>5, <2>1, <2>2, <2>3 DEF StrictSubsetOrdering
  <1> QED
    BY <1>6

\* Induction on naturals.
LEMMA Induction ==
  ASSUME NEW S, 0 \in S, \A n \in Nat : n \in S => n + 1 \in S
  PROVE  \A n \in Nat : n \in S
  <1> DEFINE out == Nat \ S
  <1>1. SUFFICES ASSUME out # {} PROVE FALSE
    OBVIOUS
  <1>2. PICK m \in out : \A n \in out : m <= n
    BY <1>1, LeastNatural
  <1>3. m # 0 /\ m - 1 \in Nat /\ m - 1 \notin out
    BY <1>2
  <1> QED
    BY <1>2, <1>3

-----------------------------------------------------------------------------
\* Recursive functions

\* The elements of D have ranks below a bound.
Ranked(D, rank, bound) ==
  rank \in [D -> Nat] /\ bound \in Nat /\ \A p \in D : rank[p] < bound

\* body[<<p, f>>] is what a definition gives at p if f is what is being defined;
\* it looks at f only where the rank is lower.
LooksBelow(D, V, rank, body) ==
  /\ body \in [D \X [D -> V] -> V]
  /\ \A p \in D : \A f, g \in [D -> V] :
       (\A q \in D : rank[q] < rank[p] => f[q] = g[q]) => body[<<p, f>>] = body[<<p, g>>]

Defined(D, V, body) ==
  \E f \in [D -> V] : \A p \in D : f[p] = body[<<p, f>>]

\* Then there is a function with that definition.
LEMMA RecursiveFunction ==
  ASSUME NEW D, NEW V, V # {}, NEW rank, NEW bound, Ranked(D, rank, bound),
         NEW body, LooksBelow(D, V, rank, body)
  PROVE  Defined(D, V, body)
  <1> USE DEF Ranked, LooksBelow, Defined
  <1> DEFINE Upto(n) == \E f \in [D -> V] : \A p \in D : rank[p] < n => f[p] = body[<<p, f>>]
             S == {n \in Nat : Upto(n)}
  <1>1. 0 \in S
    <2>1. PICK v \in V : TRUE
      OBVIOUS
    <2>2. [p \in D |-> v] \in [D -> V] /\ \A p \in D : ~(rank[p] < 0)
      OBVIOUS
    <2>3. Upto(0)
      BY <2>2
    <2> QED
      BY <2>3
  <1>2. ASSUME NEW n \in Nat, n \in S
        PROVE  n + 1 \in S
    <2>1. PICK f \in [D -> V] : \A p \in D : rank[p] < n => f[p] = body[<<p, f>>]
      BY <1>2
    <2> DEFINE g == [p \in D |-> body[<<p, f>>]]
    <2>2. g \in [D -> V]
      OBVIOUS
    <2>3. ASSUME NEW p \in D, rank[p] < n + 1
          PROVE  g[p] = body[<<p, g>>]
      <3>1. \A q \in D : rank[q] < rank[p] => f[q] = g[q]
        BY <2>1, <2>3
      <3>2. body[<<p, f>>] = body[<<p, g>>]
        BY <2>2, <3>1
      <3> QED
        BY <3>2
    <2>4. Upto(n + 1)
      <3> HIDE DEF g
      <3> QED
        BY <2>2, <2>3
    <2> QED
      BY <2>4
  <1>3. \A n \in Nat : n \in S
    <2> HIDE DEF S
    <2> QED
      BY <1>1, <1>2, Induction
  <1>4. Upto(bound)
    BY <1>3
  <1> QED
    BY <1>4

\* The same for a function of the subsets of a finite set, which takes an
\* element out and adds what it weighs: what the folds of the libraries do.
Weighs(D, w, out) ==
  /\ w \in [SUBSET D -> Nat] /\ out \in [SUBSET D -> SUBSET D]
  /\ \A s \in SUBSET D : s # {} => out[s] # s /\ out[s] \subseteq s

Weighed(D, w, out) ==
  \E f \in [SUBSET D -> Nat] :
    f = [s \in SUBSET D |-> IF s = {} THEN 0 ELSE w[s] + f[out[s]]]

\* A function of sets that is defined by taking an element out exists.
LEMMA SetRecursion ==
  ASSUME NEW D, IsFiniteSet(D), NEW w, NEW out, Weighs(D, w, out)
  PROVE  Weighed(D, w, out)
  <1> USE DEF Weighs, Weighed
  <1> DEFINE P == SUBSET D
             rank == [s \in P |-> Cardinality(s)]
             body == [sf \in P \X [P -> Nat] |->
                        IF sf[1] = {} THEN 0 ELSE w[sf[1]] + sf[2][out[sf[1]]]]
  <1>1. \A s \in P : IsFiniteSet(s) /\ Cardinality(s) \in Nat /\ Cardinality(s) <= Cardinality(D)
    BY FS_Subset, FS_CardinalityType
  <1>2. rank \in [P -> Nat] /\ Cardinality(D) + 1 \in Nat /\ \A s \in P : rank[s] < Cardinality(D) + 1
    BY <1>1, FS_CardinalityType
  <1>3. ASSUME NEW s \in P, s # {}
        PROVE  out[s] \in P /\ rank[out[s]] < rank[s]
    <2>1. out[s] \in SUBSET s /\ out[s] # s
      BY <1>3
    <2>2. Cardinality(out[s]) <= Cardinality(s) /\ Cardinality(out[s]) # Cardinality(s)
      BY <1>1, <2>1, FS_Subset
    <2> QED
      BY <1>1, <2>2
  <1>4. body \in [P \X [P -> Nat] -> Nat]
    <2> SUFFICES ASSUME NEW s \in P, NEW f \in [P -> Nat], s # {}
                 PROVE  w[s] + f[out[s]] \in Nat
      OBVIOUS
    <2> QED
      BY <1>3
  <1>5. ASSUME NEW s \in P, NEW f \in [P -> Nat], NEW g \in [P -> Nat],
               \A q \in P : rank[q] < rank[s] => f[q] = g[q]
        PROVE  body[<<s, f>>] = body[<<s, g>>]
    <2>1. CASE s = {}
      BY <2>1
    <2>2. CASE s # {}
      <3>1. f[out[s]] = g[out[s]]
        BY <1>3, <1>5, <2>2
      <3> QED
        BY <3>1
    <2> QED
      BY <2>1, <2>2
  <1>6. \E f \in [P -> Nat] : \A s \in P : f[s] = body[<<s, f>>]
    <2>1. \A s \in P : \A f, g \in [P -> Nat] :
            (\A q \in P : rank[q] < rank[s] => f[q] = g[q]) => body[<<s, f>>] = body[<<s, g>>]
      <3> HIDE DEF rank, body
      <3> QED
        BY <1>5
    <2>2. Nat # {}
      OBVIOUS
    <2>3. Ranked(P, rank, Cardinality(D) + 1)
      BY <1>2 DEF Ranked
    <2>4. LooksBelow(P, Nat, rank, body)
      <3> HIDE DEF P, rank, body
      <3> QED
        BY <1>4, <2>1 DEF LooksBelow
    <2>5. Defined(P, Nat, body)
      <3> HIDE DEF P, rank, body
      <3> QED
        BY <2>2, <2>3, <2>4, RecursiveFunction
    <2> QED
      BY <2>5 DEF Defined
  <1>7. PICK f \in [P -> Nat] : \A s \in P : f[s] = body[<<s, f>>]
    BY <1>6
  <1>8. \A s \in P : f[s] = IF s = {} THEN 0 ELSE w[s] + f[out[s]]
    BY <1>7
  <1> QED
    BY <1>8

-----------------------------------------------------------------------------
\* Sequences of sequences

Ordered(s, rel) == \A x, y \in 1 .. Len(s) : x < y => <<s[x], s[y]>> \in rel

Crosses(a, b, rel) == \A x \in 1 .. Len(a), y \in 1 .. Len(b) : <<a[x], b[y]>> \in rel

Has(s, e) == \E x \in 1 .. Len(s) : s[x] = e

\* g has what a and b have, and what is ordered in both and across is ordered.
IsJoined(S, g, a, b) ==
  /\ g \in Seq(S)
  /\ \A e : Has(g, e) <=> Has(a, e) \/ Has(b, e)
  /\ \A rel : Ordered(a, rel) /\ Ordered(b, rel) /\ Crosses(a, b, rel) => Ordered(g, rel)

\* Two sequences, one after the other.
LEMMA Joined ==
  ASSUME NEW S, NEW a \in Seq(S), NEW b \in Seq(S)
  PROVE  IsJoined(S, a \o b, a, b)
  <1>1. PICK m \in Nat, n \in Nat : m = Len(a) /\ n = Len(b)
    OBVIOUS
  <1> DEFINE g == a \o b
  <1>2. g \in Seq(S) /\ Len(g) = m + n /\ (\A x \in 1 .. m : g[x] = a[x])
        /\ \A x \in m + 1 .. m + n : g[x] = b[x - m]
    BY <1>1
  <1> HIDE DEF g
  <1>3. ASSUME NEW y \in 1 .. n
        PROVE  m + y \in m + 1 .. m + n /\ m + y \in 1 .. m + n /\ g[m + y] = b[y]
    <2> DEFINE x == m + y
    <2>1. x \in m + 1 .. m + n /\ x \in 1 .. m + n /\ x - m = y
      OBVIOUS
    <2> HIDE DEF x
    <2>2. g[x] = b[y]
      BY <1>2, <2>1
    <2> QED
      BY <2>1, <2>2 DEF x
  <1>4. ASSUME NEW x \in 1 .. m + n
        PROVE  \/ x \in 1 .. m /\ g[x] = a[x]
               \/ \E y \in 1 .. n : x = m + y /\ g[x] = b[y]
    <2>1. CASE x <= m
      BY <1>2, <2>1
    <2>2. CASE x > m
      <3> DEFINE y == x - m
      <3>1. y \in 1 .. n /\ x = m + y /\ x \in m + 1 .. m + n
        BY <2>2
      <3> QED
        BY <1>2, <3>1
    <2> QED
      BY <2>1, <2>2
  <1>5. ASSUME NEW e
        PROVE  Has(g, e) <=> Has(a, e) \/ Has(b, e)
    <2>1. ASSUME Has(g, e)
          PROVE  Has(a, e) \/ Has(b, e)
      BY <1>1, <1>2, <1>4, <2>1 DEF Has
    <2>2. ASSUME NEW x \in 1 .. m, a[x] = e
          PROVE  Has(g, e)
      <3>1. x \in 1 .. m + n
        OBVIOUS
      <3> QED
        BY <1>2, <2>2, <3>1 DEF Has
    <2>3. ASSUME NEW y \in 1 .. n, b[y] = e
          PROVE  Has(g, e)
      BY <1>2, <1>3, <2>3 DEF Has
    <2> QED
      BY <1>1, <2>1, <2>2, <2>3 DEF Has
  <1>6. ASSUME NEW rel, Ordered(a, rel), Ordered(b, rel), Crosses(a, b, rel)
        PROVE  Ordered(g, rel)
    <2> SUFFICES ASSUME NEW x \in 1 .. m + n, NEW y \in 1 .. m + n, x < y
                 PROVE  <<g[x], g[y]>> \in rel
      BY <1>2 DEF Ordered
    <2>1. CASE x \in 1 .. m /\ g[x] = a[x]
      <3>1. CASE y \in 1 .. m /\ g[y] = a[y]
        BY <1>1, <1>6, <2>1, <3>1 DEF Ordered
      <3>2. CASE \E z \in 1 .. n : y = m + z /\ g[y] = b[z]
        BY <1>1, <1>6, <2>1, <3>2 DEF Crosses
      <3> QED
        BY <1>4, <3>1, <3>2
    <2>2. CASE \E z \in 1 .. n : x = m + z /\ g[x] = b[z]
      <3>1. PICK z \in 1 .. n : x = m + z /\ g[x] = b[z]
        BY <2>2
      <3>2. ~(y \in 1 .. m)
        BY <3>1
      <3>3. PICK w \in 1 .. n : y = m + w /\ g[y] = b[w]
        BY <1>4, <3>2
      <3>4. z < w
        BY <3>1, <3>3
      <3> QED
        BY <1>1, <1>6, <3>1, <3>3, <3>4 DEF Ordered
    <2> QED
      BY <1>4, <2>1, <2>2
  <1>7. IsJoined(S, g, a, b)
    BY <1>2, <1>5, <1>6 DEF IsJoined
  <1> QED
    BY <1>7 DEF g

\* g has what the first n of seqs have, and what is ordered in each of them and
\* across them is ordered in it.
IsFlat(S, seqs, n, g) ==
  /\ g \in Seq(S)
  /\ \A e : Has(g, e) <=> \E i \in 1 .. n : Has(seqs[i], e)
  /\ \A rel : /\ \A i \in 1 .. n : Ordered(seqs[i], rel)
              /\ \A i, j \in 1 .. n : i < j => Crosses(seqs[i], seqs[j], rel)
              => Ordered(g, rel)

\* One more.
LEMMA FlatterByOne ==
  ASSUME NEW S, NEW seqs \in Seq(Seq(S)), NEW n \in Nat, n + 1 <= Len(seqs),
         NEW f, IsFlat(S, seqs, n, f)
  PROVE  IsFlat(S, seqs, n + 1, f \o seqs[n + 1])
  <1>1. PICK m : m = n + 1
    OBVIOUS
  <1>2. PICK b \in Seq(S) : b = seqs[m]
    <2>1. m \in 1 .. Len(seqs)
      BY <1>1
    <2> DEFINE T == Seq(S)
    <2>2. seqs \in Seq(T)
      OBVIOUS
    <2>3. seqs[m] \in T
      <3> HIDE DEF T
      <3> QED
        BY <2>1, <2>2
    <2> QED
      BY <2>3
  <1>3. PICK g : g = f \o b
    OBVIOUS
  <1>4. f \in Seq(S)
    BY DEF IsFlat
  <1>5. IsJoined(S, g, f, b)
    BY <1>3, <1>4, Joined
  <1>6. \A i : i \in 1 .. m <=> i \in 1 .. n \/ i = m
    BY <1>1
  <1>7. ASSUME NEW e
        PROVE  Has(g, e) <=> \E i \in 1 .. m : Has(seqs[i], e)
    <2>1. Has(g, e) <=> Has(f, e) \/ Has(b, e)
      BY <1>5 DEF IsJoined
    <2>2. Has(f, e) <=> \E i \in 1 .. n : Has(seqs[i], e)
      BY DEF IsFlat
    <2> QED
      BY <1>2, <1>6, <2>1, <2>2
  <1>8. ASSUME NEW rel, \A i \in 1 .. m : Ordered(seqs[i], rel),
               \A i, j \in 1 .. m : i < j => Crosses(seqs[i], seqs[j], rel)
        PROVE  Ordered(g, rel)
    <2>1. /\ \A i \in 1 .. n : Ordered(seqs[i], rel)
          /\ \A i, j \in 1 .. n : i < j => Crosses(seqs[i], seqs[j], rel)
      BY <1>6, <1>8
    <2>2. Ordered(f, rel)
      BY <2>1 DEF IsFlat
    <2>3. Ordered(b, rel)
      BY <1>2, <1>6, <1>8
    <2>4. Crosses(f, b, rel)
      <3> SUFFICES ASSUME NEW x \in 1 .. Len(f), NEW y \in 1 .. Len(b)
                   PROVE  <<f[x], b[y]>> \in rel
        BY DEF Crosses
      <3>1. Has(f, f[x])
        BY DEF Has
      <3>2. PICK i \in 1 .. n : Has(seqs[i], f[x])
        BY <3>1 DEF IsFlat
      <3>3. PICK z \in 1 .. Len(seqs[i]) : seqs[i][z] = f[x]
        BY <3>2 DEF Has
      <3>4. i < m /\ i \in 1 .. m /\ m \in 1 .. m
        BY <1>1
      <3>5. Crosses(seqs[i], b, rel)
        BY <1>2, <1>8, <3>4
      <3> QED
        BY <3>3, <3>5 DEF Crosses
    <2> QED
      BY <1>5, <2>2, <2>3, <2>4 DEF IsJoined
  <1>9. g \in Seq(S)
    BY <1>5 DEF IsJoined
  <1>10. IsFlat(S, seqs, m, g)
    BY <1>7, <1>8, <1>9 DEF IsFlat
  <1> QED
    BY <1>1, <1>2, <1>3, <1>10

\* What FlattenSeq gives.
LEMMA Flattened ==
  ASSUME NEW S, NEW seqs \in Seq(Seq(S))
  PROVE  IsFlat(S, seqs, Len(seqs), FlattenSeq(seqs))
  <1> DEFINE T == Seq(S)
  <1>1. PICK n \in Nat : n = Len(seqs)
    OBVIOUS
  <1>2. \A i \in 1 .. n : seqs[i] \in T
    <2>1. seqs \in Seq(T)
      OBVIOUS
    <2> HIDE DEF T
    <2> QED
      BY <1>1, <2>1
  <1>3. CASE n = 0
    <2>1. FlattenSeq(seqs) = seqs
      BY <1>1, <1>3 DEF FlattenSeq
    <2>2. seqs = <<>>
      <3>1. seqs \in Seq(T)
        OBVIOUS
      <3> HIDE DEF T
      <3> QED
        BY <1>1, <1>3, <3>1, EmptySeq
    <2>3. <<>> \in Seq(S) /\ Len(<<>>) = 0 /\ 1 .. 0 = {}
      OBVIOUS
    <2>4. IsFlat(S, seqs, 0, <<>>)
      BY <2>3 DEF IsFlat, Has, Ordered
    <2> QED
      BY <1>1, <1>3, <2>1, <2>2, <2>4
  <1>4. CASE n > 0
    <2> DEFINE D == 1 .. n
               rank == [i \in D |-> i]
               body == [jf \in D \X [D -> T] |->
                          IF jf[1] = 1 THEN seqs[jf[1]] ELSE jf[2][jf[1] - 1] \o seqs[jf[1]]]
               Def(f) == [i \in 1 .. Len(seqs) |-> IF i = 1 THEN seqs[i] ELSE f[i - 1] \o seqs[i]]
    <2>1. Ranked(D, rank, n + 1)
      BY DEF Ranked
    <2>2. \A i \in D : i # 1 => i - 1 \in D /\ rank[i - 1] < rank[i]
      OBVIOUS
    <2>3. body \in [D \X [D -> T] -> T]
      <3> SUFFICES ASSUME NEW i \in D, NEW f \in [D -> T], i # 1
                   PROVE  f[i - 1] \o seqs[i] \in T
        BY <1>2
      <3>1. f[i - 1] \in T
        <4> HIDE DEF T
        <4> QED
          BY <2>2
      <3> QED
        BY <1>2, <3>1
    <2>4. ASSUME NEW i \in D, NEW f \in [D -> T], NEW g \in [D -> T],
                 \A j \in D : rank[j] < rank[i] => f[j] = g[j]
          PROVE  body[<<i, f>>] = body[<<i, g>>]
      <3>1. i # 1 => f[i - 1] = g[i - 1]
        BY <2>2, <2>4
      <3> HIDE DEF T, D
      <3> QED
        BY <3>1
    <2>5. LooksBelow(D, T, rank, body)
      <3> HIDE DEF D, T, rank, body
      <3> QED
        BY <2>3, <2>4 DEF LooksBelow
    <2>6. T # {}
      <3>1. <<>> \in T
        OBVIOUS
      <3> QED
        BY <3>1
    <2>7. Defined(D, T, body)
      <3> HIDE DEF D, T, rank, body
      <3> QED
        BY <2>1, <2>5, <2>6, RecursiveFunction
    <2>8. PICK h \in [D -> T] : \A i \in D : h[i] = body[<<i, h>>]
      BY <2>7 DEF Defined
    <2>9. h = Def(h)
      <3>1. \A i \in D : h[i] = Def(h)[i]
        <4> HIDE DEF T
        <4> QED
          BY <1>1, <2>8
      <3>2. DOMAIN h = D /\ h = [i \in D |-> h[i]]
        OBVIOUS
      <3> QED
        BY <1>1, <3>1, <3>2
    <2>10. PICK f : f = Def(f) /\ FlattenSeq(seqs) = f[Len(seqs)]
      <3>1. Len(seqs) # 0
        BY <1>1, <1>4
      <3>2. \E f : f = Def(f)
        BY <2>9
      <3> DEFINE f == CHOOSE f : f = Def(f)
      <3>3. f = Def(f)
        BY <3>2
      <3>4. FlattenSeq(seqs) = f[Len(seqs)]
        BY <3>1 DEF FlattenSeq
      <3> HIDE DEF f
      <3> QED
        BY <3>3, <3>4
    <2>11. \A i \in 1 .. n : f[i] = IF i = 1 THEN seqs[i] ELSE f[i - 1] \o seqs[i]
      BY <1>1, <2>10
    <2> HIDE DEF Def, body, rank, D
    <2> DEFINE A == {i \in Nat : i + 1 <= n => IsFlat(S, seqs, i + 1, f[i + 1])}
    <2>12. IsFlat(S, seqs, 0, <<>>)
      <3>1. <<>> \in Seq(S) /\ Len(<<>>) = 0 /\ 1 .. 0 = {}
        OBVIOUS
      <3> QED
        BY <3>1 DEF IsFlat, Has, Ordered
    <2>13. 0 \in A
      <3>1. PICK z \in Nat : z = 0
        OBVIOUS
      <3>2. PICK e : e = <<>>
        OBVIOUS
      <3>3. IsFlat(S, seqs, z + 1, e \o seqs[z + 1])
        <4>1. z + 1 <= Len(seqs) /\ IsFlat(S, seqs, z, e)
          BY <1>1, <1>4, <2>12, <3>1, <3>2
        <4> QED
          BY <4>1, FlatterByOne
      <3>4. 1 \in 1 .. n
        BY <1>4
      <3>5. seqs[1] \in T /\ f[1] = seqs[1]
        <4> HIDE DEF T
        <4> QED
          BY <1>2, <2>11, <3>4
      <3>6. e \o seqs[1] = f[1]
        BY <3>2, <3>5
      <3>7. z + 1 = 1
        BY <3>1
      <3> QED
        BY <3>1, <3>3, <3>6, <3>7
    <2>14. ASSUME NEW i \in Nat, i \in A
           PROVE  i + 1 \in A
      <3> SUFFICES ASSUME i + 1 + 1 <= n
                   PROVE  IsFlat(S, seqs, i + 1 + 1, f[i + 1 + 1])
        OBVIOUS
      <3>1. PICK j \in Nat : j = i + 1
        OBVIOUS
      <3>2. IsFlat(S, seqs, j, f[j])
        BY <2>14, <3>1
      <3>3. IsFlat(S, seqs, j + 1, f[j] \o seqs[j + 1])
        BY <1>1, <3>1, <3>2, FlatterByOne
      <3>4. f[j + 1] = f[j] \o seqs[j + 1]
        <4> DEFINE k == j + 1
        <4>1. k \in 1 .. n /\ k # 1 /\ k - 1 = j
          BY <3>1
        <4> HIDE DEF k
        <4>2. f[k] = f[j] \o seqs[k]
          BY <2>11, <4>1
        <4> QED
          BY <4>2 DEF k
      <3> QED
        BY <3>1, <3>3, <3>4
    <2>15. \A i \in Nat : i \in A
      <3> HIDE DEF A
      <3> QED
        BY <2>13, <2>14, Induction
    <2>16. PICK i \in Nat : n = i + 1
      BY <1>4
    <2>17. IsFlat(S, seqs, n, f[n])
      BY <2>15, <2>16
    <2> QED
      BY <1>1, <2>10, <2>17
  <1> QED
    BY <1>3, <1>4

-----------------------------------------------------------------------------
\* What tree there is

\* A node has a level, the rowids it is responsible for, its keys and, unless
\* it is a leaf, the nodes below it.  Node i below a node with keys k is
\* responsible for what is at least k[i - 1] and less than k[i].
Sorted(keys) == \A i, j \in DOMAIN keys : i < j => keys[i] < keys[j]

Convex(rng) == \A a, b \in rng : \A x \in Nat : a <= x /\ x <= b => x \in rng

Slice(rng, keys, i) ==
  {r \in rng : (i > 1 => keys[i - 1] <= r) /\ (i <= Len(keys) => r < keys[i])}

IsNodeData(n) ==
  /\ n.lev \in Nat /\ n.rng \subseteq Nat /\ n.rng # {} /\ Convex(n.rng)
  /\ n.keys \in Seq(Nat) /\ Sorted(n.keys) /\ \A i \in DOMAIN n.keys : n.keys[i] \in n.rng

HasRows(n, R) ==
  /\ \A i \in DOMAIN n.keys : n.keys[i] \in R
  /\ \A r \in R \cap n.rng : \E i \in DOMAIN n.keys : n.keys[i] = r

HasKids(t, n) ==
  /\ Len(n.keys) > 0 /\ n.kids \in Seq(DOMAIN t) /\ Len(n.kids) = Len(n.keys) + 1
  /\ \A i \in DOMAIN n.kids :
       t[n.kids[i]].lev = n.lev - 1 /\ t[n.kids[i]].rng = Slice(n.rng, n.keys, i)

IsNode(t, n, R) ==
  /\ IsNodeData(n)
  /\ n.lev = 0 => HasRows(n, R)
  /\ n.lev > 0 => HasKids(t, n)

LevelApart(m, n) == m.lev = n.lev => m.rng \cap n.rng = {}

IsTree(t, R) ==
  /\ Root \in DOMAIN t /\ t[Root].rng = Nat /\ \A p \in DOMAIN t : t[p].lev <= t[Root].lev
  /\ \A p \in DOMAIN t : IsNode(t, t[p], R)
  /\ \A p, q \in DOMAIN t : p # q => LevelApart(t[p], t[q])

-----------------------------------------------------------------------------
\* How the pages hold it

CellRecords == [key : Rowids, page : Nat]

PageRecords ==
  [kind : {"leaf", "interior", "overflow"}, cells : Seq(CellRecords), used : Nat, right : Nat]

\* Every page has room for what it holds, an overflow page holds no cells and
\* leads to an earlier page.
IsPage(p, pg) ==
  /\ pg.used + PtrSize * Len(pg.cells) <= Room(p, pg.kind)
  /\ pg.kind = "leaf" => pg.right = 0
  /\ pg.kind = "interior" => p >= Root /\ pg.used = DividerSize * Len(pg.cells)
  /\ pg.kind = "overflow" => pg.cells = <<>> /\ pg.right < p

ArePages == pages \in Seq(PageRecords) /\ \A p \in DOMAIN pages : IsPage(p, pages[p])

InTree == {p \in DOMAIN pages : p >= Root /\ pages[p].kind # "overflow"}

Todo == IF call.op = "none" THEN <<>> ELSE call.todo

\* The cells of a page, with the one it is split for.
Held(p) ==
  IF call.op = "split" /\ p = Last(call.path) THEN WithCell(pages[p].cells, call.cell)
  ELSE pages[p].cells

\* The cells have the keys of the node, and those of a leaf lead to its chains.
KeysAre(keys, cells) ==
  Len(keys) = Len(cells) /\ \A i \in 1 .. Len(cells) : keys[i] = cells[i].key

HeadsAre(cells, head) == \A i \in 1 .. Len(cells) : cells[i].page = head[cells[i].key]

\* The pointer after a key leads to the left half of a page that was split,
\* and is still to be set to the right half.
Waits(n, todo, i) == i > 1 /\ n.lev <= Len(todo) /\ n.keys[i - 1] = todo[n.lev].key

PointerIn(cells, right, i) == IF i <= Len(cells) THEN cells[i].page ELSE right

PointsTo(n, cells, right, todo, i) ==
  IF Waits(n, todo, i)
  THEN n.kids[i] = todo[n.lev].page /\ n.kids[i - 1] = PointerIn(cells, right, i)
  ELSE n.kids[i] = PointerIn(cells, right, i)

Points(n, cells, right, todo) ==
  \A i \in 1 .. Len(cells) + 1 : PointsTo(n, cells, right, todo, i)

\* A page of this kind with these cells and rightmost child is node n.
Shows(n, kind, cells, right, todo, head) ==
  /\ kind = IF n.lev = 0 THEN "leaf" ELSE "interior"
  /\ KeysAre(n.keys, cells)
  /\ n.lev = 0 => HeadsAre(cells, head)
  /\ n.lev > 0 => Points(n, cells, right, todo)

Holds(p, n, head) ==
  /\ Shows(n, pages[p].kind, Held(p), pages[p].right, Todo, head)
  /\ n.lev = 0 /\ p # Root => Len(Held(p)) > 0

Hold(t, head) == DOMAIN t = InTree /\ \A p \in InTree : Holds(p, t[p], head)

\* The overflow pages of row r end at page head[r] and have no others between.
IsChain(r, h) ==
  IF Payload[r].chain = 0 THEN h = 0
  ELSE /\ h \in DOMAIN pages /\ Payload[r].chain <= h
       /\ \A x \in (h - Payload[r].chain + 1) .. h :
            pages[x].kind = "overflow"
            /\ pages[x].right = IF x = h - Payload[r].chain + 1 THEN 0 ELSE x - 1

AreChains(head) ==
  /\ \A r \in rows : head[r] \in Nat /\ IsChain(r, head[r])
  /\ \A r, s \in rows : r # s /\ Payload[r].chain > 0 /\ Payload[s].chain > 0 =>
       head[r] + Payload[s].chain <= head[s] \/ head[s] + Payload[r].chain <= head[r]

-----------------------------------------------------------------------------
\* What is left of a call

Below(t, p, q) == \E i \in 1 .. Len(t[p].kids) : t[p].kids[i] = q

IsPath(t, path) ==
  /\ path \in Seq(DOMAIN t) /\ Len(path) > 0 /\ path[1] = Root
  /\ \A k \in 1 .. Len(path) : t[path[k]].lev + k = t[Root].lev + 1
  /\ \A k \in 1 .. Len(path) - 1 : Below(t, path[k], path[k + 1])

DividerOf(p, cell) == Plan(pages[p], WithCell(pages[p].cells, cell)).divider

\* The cells that come to the pages of a path if each of them is full: no page
\* above the leaf is to give up the divider that has come up to it.
Arrives(t, path, arr) ==
  /\ DOMAIN arr = 1 .. Len(path)
  /\ \A k \in 1 .. Len(path) - 1 :
       arr[k] = [key |-> DividerOf(path[k + 1], arr[k + 1]), page |-> path[k + 1]]
  /\ \A k \in 1 .. Len(path) :
       (t[path[k]].lev > 0 /\ \A j \in k .. Len(path) : ~Fits(path[j], arr[j])) =>
         DividerOf(path[k], arr[k]) # arr[k].key

IsSplit(t) ==
  LET p == Last(call.path)
  IN  /\ IsPath(t, call.path) /\ t[p].lev = Len(call.todo)
      /\ call.cell \in CellRecords /\ call.cell.key \in t[p].rng
      /\ \A i \in 1 .. Len(pages[p].cells) : pages[p].cells[i].key # call.cell.key
      /\ ~Fits(p, call.cell)
      /\ t[p].lev = 0 => HalvesFit(p, call.cell)
      /\ t[p].lev > 0 => call.cell.key = call.todo[t[p].lev].key
      /\ \E arr : Arrives(t, call.path, arr) /\ arr[Len(call.path)] = call.cell

IsTodo(t) ==
  /\ Todo \in Seq([key : Nat, page : DOMAIN t])
  /\ \A j \in DOMAIN Todo : \E p \in DOMAIN t :
       t[p].lev = j /\ \E i \in 1 .. Len(t[p].keys) : t[p].keys[i] = Todo[j].key

IsCall(t) ==
  \/ call = Idle
  \/ /\ call.op = "split"
     /\ call = [op |-> "split", path |-> call.path, cell |-> call.cell, todo |-> call.todo]
     /\ IsSplit(t) /\ IsTodo(t)
  \/ /\ call.op = "retarget" /\ call = [op |-> "retarget", todo |-> call.todo]
     /\ call.todo # <<>> /\ IsTodo(t)

Represents(t, head) ==
  /\ IsTree(t, rows) /\ Hold(t, head) /\ AreChains(head) /\ IsCall(t)

TreeInv == ArePages /\ Root \in DOMAIN pages /\ rows \subseteq Rowids
           /\ \E t, head : Represents(t, head)

-----------------------------------------------------------------------------
\* Sequences

\* What inserting into a sequence and removing from it give, index by index.
LEMMA InsertedAt ==
  ASSUME NEW S, NEW s \in Seq(S), NEW i \in 1 .. Len(s) + 1, NEW e \in S
  PROVE  /\ InsertAt(s, i, e) \in Seq(S) /\ Len(InsertAt(s, i, e)) = Len(s) + 1
         /\ \A k \in 1 .. Len(s) + 1 :
              InsertAt(s, i, e)[k] = IF k < i THEN s[k] ELSE IF k = i THEN e ELSE s[k - 1]
  <1> DEFINE a == SubSeq(s, 1, i - 1)
             b == SubSeq(s, i, Len(s))
  <1>1. a \in Seq(S) /\ Len(a) = i - 1 /\ \A k \in 1 .. i - 1 : a[k] = s[k]
    BY SubSeqProperties
  <1>2. b \in Seq(S) /\ Len(b) = Len(s) - i + 1 /\ \A k \in 1 .. Len(s) - i + 1 : b[k] = s[i + k - 1]
    BY SubSeqProperties
  <1> HIDE DEF a, b
  <1>3. <<e>> \in Seq(S) /\ a \o <<e>> \in Seq(S) /\ Len(a \o <<e>>) = i
        /\ \A k \in 1 .. i : (a \o <<e>>)[k] = IF k < i THEN s[k] ELSE e
    BY <1>1
  <1>4. InsertAt(s, i, e) = (a \o <<e>>) \o b
    BY DEF InsertAt, a, b
  <1> DEFINE c == a \o <<e>>
  <1> HIDE DEF c
  <1>5. c \in Seq(S) /\ Len(c) = i /\ \A k \in 1 .. i : c[k] = IF k < i THEN s[k] ELSE e
    BY <1>3 DEF c
  <1>6. c \o b \in Seq(S) /\ Len(c \o b) = Len(s) + 1
        /\ \A k \in 1 .. Len(s) + 1 : (c \o b)[k] = IF k <= i THEN c[k] ELSE b[k - i]
    BY <1>2, <1>5, ConcatProperties
  <1>7. \A k \in 1 .. Len(s) + 1 : k > i => b[k - i] = s[k - 1]
    BY <1>2
  <1> QED
    BY <1>4, <1>5, <1>6, <1>7 DEF c

\* A sequence without its element i.
LEMMA RemovedAt ==
  ASSUME NEW S, NEW s \in Seq(S), NEW i \in 1 .. Len(s)
  PROVE  /\ RemoveAt(s, i) \in Seq(S) /\ Len(RemoveAt(s, i)) = Len(s) - 1
         /\ \A k \in 1 .. Len(s) - 1 : RemoveAt(s, i)[k] = IF k < i THEN s[k] ELSE s[k + 1]
  <1> DEFINE a == SubSeq(s, 1, i - 1)
             b == SubSeq(s, i + 1, Len(s))
  <1>1. a \in Seq(S) /\ Len(a) = i - 1 /\ \A k \in 1 .. i - 1 : a[k] = s[k]
    BY SubSeqProperties
  <1>2. b \in Seq(S) /\ Len(b) = Len(s) - i /\ \A k \in 1 .. Len(s) - i : b[k] = s[i + k]
    BY SubSeqProperties
  <1> HIDE DEF a, b
  <1>3. a \o b \in Seq(S) /\ Len(a \o b) = Len(s) - 1
        /\ \A k \in 1 .. Len(s) - 1 : (a \o b)[k] = IF k <= i - 1 THEN a[k] ELSE b[k - (i - 1)]
    <2>1. /\ a \o b \in Seq(S) /\ Len(a \o b) = Len(a) + Len(b)
          /\ \A k \in 1 .. Len(a) + Len(b) : (a \o b)[k] = IF k <= Len(a) THEN a[k] ELSE b[k - Len(a)]
      BY <1>1, <1>2, ConcatProperties
    <2>2. Len(a) + Len(b) = Len(s) - 1 /\ Len(a) = i - 1
      BY <1>1, <1>2
    <2> QED
      BY <2>1, <2>2
  <1>4. \A k \in 1 .. Len(s) - 1 : k >= i => b[k - (i - 1)] = s[k + 1]
    <2> SUFFICES ASSUME NEW k \in 1 .. Len(s) - 1, k >= i
                 PROVE  b[k - (i - 1)] = s[k + 1]
      OBVIOUS
    <2>1. k - (i - 1) \in 1 .. Len(s) - i /\ i + (k - (i - 1)) = k + 1
      OBVIOUS
    <2> QED
      BY <1>2, <2>1
  <1>5. RemoveAt(s, i) = a \o b
    BY DEF RemoveAt, a, b
  <1>6. \A k \in 1 .. Len(s) - 1 : (a \o b)[k] = IF k < i THEN s[k] ELSE s[k + 1]
    BY <1>1, <1>3, <1>4
  <1> QED
    BY <1>3, <1>5, <1>6

\* Pieces of a sequence.
LEMMA PieceOf ==
  ASSUME NEW S, NEW s \in Seq(S), NEW i \in 1 .. Len(s) + 1, NEW j \in 0 .. Len(s), j >= i - 1
  PROVE  /\ SubSeq(s, i, j) \in Seq(S) /\ Len(SubSeq(s, i, j)) = j - i + 1
         /\ \A k \in 1 .. j - i + 1 : SubSeq(s, i, j)[k] = s[i + k - 1]
  BY SubSeqProperties

\* a is what sequence s of elements of S has from element f + 1 on.
IsPiece(S, a, f, s) ==
  /\ a \in Seq(S) /\ f + Len(a) <= Len(s) /\ \A k \in 1 .. Len(a) : a[k] = s[f + k]

\* The first m elements are a piece of the sequence.
LEMMA StartOf ==
  ASSUME NEW S, NEW s \in Seq(S), NEW m \in 0 .. Len(s)
  PROVE  IsPiece(S, SubSeq(s, 1, m), 0, s) /\ Len(SubSeq(s, 1, m)) = m
  <1> DEFINE a == SubSeq(s, 1, m)
  <1>1. 1 \in 1 .. Len(s) + 1 /\ m \in 0 .. Len(s) /\ m >= 1 - 1
    OBVIOUS
  <1>2. /\ a \in Seq(S) /\ Len(a) = m - 1 + 1
        /\ \A k \in 1 .. m - 1 + 1 : a[k] = s[1 + k - 1]
    BY <1>1, PieceOf
  <1> HIDE DEF a
  <1>3. m - 1 + 1 = m /\ \A k \in 1 .. m : 1 + k - 1 = 0 + k
    OBVIOUS
  <1>4. a \in Seq(S) /\ Len(a) = m /\ \A k \in 1 .. m : a[k] = s[0 + k]
    BY <1>2, <1>3
  <1> QED
    BY <1>4 DEF a, IsPiece

\* What follows the first m elements is a piece of the sequence.
LEMMA RestOf ==
  ASSUME NEW S, NEW s \in Seq(S), NEW m \in 0 .. Len(s), NEW n, n = m + 1
  PROVE  IsPiece(S, SubSeq(s, n, Len(s)), m, s) /\ Len(SubSeq(s, n, Len(s))) = Len(s) - m
  <1> DEFINE a == SubSeq(s, n, Len(s))
  <1>1. n \in 1 .. Len(s) + 1 /\ Len(s) \in 0 .. Len(s) /\ Len(s) >= n - 1
    OBVIOUS
  <1>2. /\ a \in Seq(S) /\ Len(a) = Len(s) - n + 1
        /\ \A k \in 1 .. Len(s) - n + 1 : a[k] = s[n + k - 1]
    BY <1>1, PieceOf
  <1> HIDE DEF a
  <1>3. Len(s) - n + 1 = Len(s) - m /\ \A k \in 1 .. Len(s) - m : n + k - 1 = m + k
    OBVIOUS
  <1>4. a \in Seq(S) /\ Len(a) = Len(s) - m /\ \A k \in 1 .. Len(s) - m : a[k] = s[m + k]
    BY <1>2, <1>3
  <1> QED
    BY <1>4 DEF a, IsPiece

\* The last element of a sequence, and the elements before it.
LEMMA EndsOf ==
  ASSUME NEW S, NEW s \in Seq(S), Len(s) > 0
  PROVE  /\ Last(s) = s[Len(s)] /\ Front(s) \in Seq(S) /\ Len(Front(s)) = Len(s) - 1
         /\ \A k \in 1 .. Len(s) - 1 : Front(s)[k] = s[k]
  <1> DEFINE j == Len(s) - 1
  <1>1. 1 \in 1 .. Len(s) + 1 /\ j \in 0 .. Len(s) /\ j >= 1 - 1 /\ Front(s) = SubSeq(s, 1, j)
    BY DEF Front
  <1> HIDE DEF j
  <1>2. /\ Front(s) \in Seq(S) /\ Len(Front(s)) = j - 1 + 1
        /\ \A k \in 1 .. j - 1 + 1 : Front(s)[k] = s[1 + k - 1]
    BY <1>1, PieceOf
  <1>3. j \in Nat /\ j - 1 + 1 = j /\ \A k \in Nat : 1 + k - 1 = k
    BY <1>1
  <1>4. /\ Front(s) \in Seq(S) /\ Len(Front(s)) = j
        /\ \A k \in 1 .. j : Front(s)[k] = s[k]
    BY <1>2, <1>3
  <1> QED
    BY <1>4 DEF Last, j

-----------------------------------------------------------------------------
\* The place of a rowid among cells

\* The place of a rowid among cells is after the smaller keys and before the others.
LEMMA PlaceOf ==
  ASSUME NEW cells \in Seq(CellRecords), NEW r \in Nat, Rowids \subseteq Nat
  PROVE  /\ Place(cells, r) \in 1 .. Len(cells) + 1
         /\ \A k \in 1 .. Len(cells) : k < Place(cells, r) => cells[k].key < r
         /\ Place(cells, r) <= Len(cells) => r <= cells[Place(cells, r)].key
  <1> DEFINE at == {i \in DOMAIN cells : r <= cells[i].key} \cup {Len(cells) + 1}
  <1>1. at \in SUBSET Nat /\ at # {}
    OBVIOUS
  <1>2. PICK m \in at : \A n \in at : m <= n
    <2> HIDE DEF at
    <2> QED
      BY <1>1, LeastNatural
  <1>3. Place(cells, r) \in at /\ \A n \in at : Place(cells, r) <= n
    BY <1>2 DEF Place, Min
  <1>4. \A k \in 1 .. Len(cells) : cells[k].key \in Nat
    <2> SUFFICES ASSUME NEW k \in 1 .. Len(cells)
                 PROVE  cells[k].key \in Nat
      OBVIOUS
    <2>1. cells[k] \in CellRecords
      OBVIOUS
    <2> QED
      BY <2>1 DEF CellRecords
  <1> QED
    BY <1>3, <1>4

\* A cell comes to the place of its key among the others.
LEMMA WithCellAt ==
  ASSUME NEW cells \in Seq(CellRecords), NEW cell \in CellRecords, Rowids \subseteq Nat
  PROVE  /\ Place(cells, cell.key) \in 1 .. Len(cells) + 1
         /\ WithCell(cells, cell) \in Seq(CellRecords)
         /\ Len(WithCell(cells, cell)) = Len(cells) + 1
         /\ \A k \in 1 .. Len(cells) + 1 : WithCell(cells, cell)[k] =
              IF k < Place(cells, cell.key) THEN cells[k]
              ELSE IF k = Place(cells, cell.key) THEN cell ELSE cells[k - 1]
  <1>1. cell.key \in Nat
    BY DEF CellRecords
  <1>2. Place(cells, cell.key) \in 1 .. Len(cells) + 1
    BY <1>1, PlaceOf
  <1> DEFINE i == Place(cells, cell.key)
  <1>3. i \in 1 .. Len(cells) + 1 /\ WithCell(cells, cell) = InsertAt(cells, i, cell)
    BY <1>2 DEF WithCell
  <1> HIDE DEF i
  <1>4. /\ InsertAt(cells, i, cell) \in Seq(CellRecords)
        /\ Len(InsertAt(cells, i, cell)) = Len(cells) + 1
        /\ \A k \in 1 .. Len(cells) + 1 : InsertAt(cells, i, cell)[k] =
             IF k < i THEN cells[k] ELSE IF k = i THEN cell ELSE cells[k - 1]
    BY <1>3, InsertedAt
  <1> QED
    BY <1>2, <1>3, <1>4 DEF i

-----------------------------------------------------------------------------
\* What changes of a tree leave a tree

Node(lev, rng, keys, kids) == [lev |-> lev, rng |-> rng, keys |-> keys, kids |-> kids]

\* A node is below one other node, and there once.
LEMMA OneParent ==
  ASSUME NEW t, NEW R, IsTree(t, R), NEW x \in DOMAIN t, NEW y \in DOMAIN t,
         t[x].lev > 0, t[y].lev > 0, NEW i \in DOMAIN t[x].kids, NEW j \in DOMAIN t[y].kids,
         t[x].kids[i] = t[y].kids[j]
  PROVE  x = y /\ i = j
  <1> DEFINE c == t[x].kids[i]
  <1>1. /\ IsNode(t, t[x], R) /\ HasKids(t, t[x]) /\ IsNode(t, t[y], R) /\ HasKids(t, t[y])
    BY DEF IsTree, IsNode
  <1>2. /\ c \in DOMAIN t /\ t[x].lev = t[y].lev
        /\ t[c].rng = Slice(t[x].rng, t[x].keys, i) /\ t[c].rng = Slice(t[y].rng, t[y].keys, j)
    <2>1. /\ c \in DOMAIN t /\ t[c].lev = t[x].lev - 1 /\ t[c].lev = t[y].lev - 1
          /\ t[c].rng = Slice(t[x].rng, t[x].keys, i) /\ t[c].rng = Slice(t[y].rng, t[y].keys, j)
      BY <1>1 DEF HasKids
    <2>2. t[x].lev \in Nat /\ t[y].lev \in Nat
      BY <1>1 DEF IsNode, IsNodeData
    <2> QED
      BY <2>1, <2>2
  <1>3. PICK r \in t[c].rng : r \in Nat
    BY <1>2 DEF IsTree, IsNode, IsNodeData
  <1>4. x = y
    BY <1>2, <1>3 DEF IsTree, LevelApart, Slice
  <1> DEFINE k == t[x].keys
  <1>5. k \in Seq(Nat) /\ Sorted(k) /\ i \in 1 .. Len(k) + 1 /\ j \in 1 .. Len(k) + 1
    BY <1>1, <1>4 DEF IsNode, IsNodeData, HasKids
  <1>6. /\ i > 1 => k[i - 1] <= r
        /\ i <= Len(k) => r < k[i]
        /\ j > 1 => k[j - 1] <= r
        /\ j <= Len(k) => r < k[j]
    BY <1>2, <1>3, <1>4 DEF Slice
  <1>7. ASSUME NEW a \in 1 .. Len(k) + 1, NEW b \in 1 .. Len(k) + 1, a < b,
               r < k[a], k[b - 1] <= r
        PROVE  FALSE
    <2>1. a \in 1 .. Len(k) /\ b - 1 \in 1 .. Len(k) /\ a <= b - 1
      BY <1>5, <1>7
    <2> HIDE DEF k
    <2>2. PICK e : e = b - 1
      OBVIOUS
    <2>3. a \in DOMAIN k /\ e \in DOMAIN k /\ k[a] \in Nat /\ k[e] \in Nat /\ a <= e
      BY <1>5, <2>1, <2>2
    <2>4. a < e => k[a] < k[e]
      BY <1>5, <2>3 DEF Sorted
    <2>5. r < k[a] /\ k[e] <= r /\ a \in Nat /\ e \in Nat
      BY <1>7, <2>1, <2>2, <1>5
    <2>6. CASE a = e
      BY <1>3, <2>3, <2>5, <2>6
    <2>7. CASE a < e
      BY <1>3, <2>3, <2>4, <2>5, <2>7
    <2> QED
      BY <2>3, <2>5, <2>6, <2>7
  <1>8. i = j
    <2> HIDE DEF k
    <2>1. CASE i < j
      <3>1. r < k[i] /\ k[j - 1] <= r
        BY <1>5, <1>6, <2>1
      <3> QED
        BY <1>5, <1>7, <2>1, <3>1
    <2>2. CASE j < i
      <3>1. r < k[j] /\ k[i - 1] <= r
        BY <1>5, <1>6, <2>2
      <3> QED
        BY <1>5, <1>7, <2>2, <3>1
    <2> QED
      BY <1>5, <2>1, <2>2
  <1> QED
    BY <1>4, <1>8

-----------------------------------------------------------------------------
\* A row more, or a row less

WithKeys(t, p, keys) ==
  [x \in DOMAIN t |-> IF x = p THEN Node(t[p].lev, t[p].rng, keys, t[p].kids) ELSE t[x]]

\* A leaf whose keys are the rows of its range leaves a tree: what an insertion
\* or a deletion on one leaf comes to.
LEMMA LeafHasRows ==
  ASSUME NEW t, NEW R, IsTree(t, R), NEW p \in DOMAIN t, t[p].lev = 0,
         NEW keys \in Seq(Nat), Sorted(keys), \A i \in DOMAIN keys : keys[i] \in t[p].rng,
         NEW Q, \A r \in Nat \ t[p].rng : r \in R <=> r \in Q,
         \A i \in DOMAIN keys : keys[i] \in Q,
         \A r \in Q \cap t[p].rng : \E i \in DOMAIN keys : keys[i] = r
  PROVE  IsTree(WithKeys(t, p, keys), Q)
  <1> DEFINE u == WithKeys(t, p, keys)
  <1>1. /\ DOMAIN u = DOMAIN t /\ u[p] = Node(t[p].lev, t[p].rng, keys, t[p].kids)
        /\ \A x \in DOMAIN t : x # p => u[x] = t[x]
    BY DEF WithKeys
  <1>2. \A x \in DOMAIN t : u[x].lev = t[x].lev /\ u[x].rng = t[x].rng /\ u[x].kids = t[x].kids
    BY <1>1 DEF Node
  <1> HIDE DEF u
  <1>3. ASSUME NEW x \in DOMAIN t
        PROVE  IsNode(u, u[x], Q)
    <2>1. IsNode(t, t[x], R) /\ IsNodeData(t[x])
      BY DEF IsTree, IsNode
    <2>2. CASE x = p
      <3>1. u[p].keys = keys /\ u[p].lev = 0 /\ u[p].rng = t[p].rng
        BY <1>1 DEF Node
      <3>2. IsNodeData(u[p])
        BY <2>1, <2>2, <3>1 DEF IsNodeData
      <3> QED
        BY <2>2, <3>1, <3>2 DEF IsNode, HasRows
    <2>3. CASE x # p /\ t[x].lev = 0
      <3>1. t[x].rng \subseteq Nat \ t[p].rng
        BY <2>1, <2>3 DEF IsTree, LevelApart, IsNodeData
      <3>2. HasRows(t[x], R) /\ IsNodeData(t[x])
        BY <2>1, <2>3 DEF IsNode
      <3>3. HasRows(t[x], Q)
        BY <3>1, <3>2 DEF HasRows, IsNodeData
      <3> QED
        BY <1>1, <2>3, <3>2, <3>3 DEF IsNode
    <2>4. CASE x # p /\ t[x].lev # 0
      <3>1. t[x].lev \in Nat
        BY <2>1 DEF IsNodeData
      <3>2. HasKids(t, t[x])
        BY <2>1, <2>4, <3>1 DEF IsNode
      <3>3. \A i \in DOMAIN t[x].kids : t[x].kids[i] \in DOMAIN t
        BY <3>2 DEF HasKids
      <3>4. HasKids(u, t[x])
        BY <1>1, <1>2, <3>2, <3>3 DEF HasKids
      <3> QED
        BY <1>1, <2>1, <2>4, <3>4 DEF IsNode
    <2> QED
      BY <2>2, <2>3, <2>4
  <1>4. \A x, y \in DOMAIN u : x # y => LevelApart(u[x], u[y])
    BY <1>1, <1>2 DEF IsTree, LevelApart
  <1>5. Root \in DOMAIN u /\ u[Root].rng = Nat /\ \A x \in DOMAIN u : u[x].lev <= u[Root].lev
    BY <1>1, <1>2 DEF IsTree
  <1> QED
    BY <1>1, <1>3, <1>4, <1>5 DEF IsTree, u

-----------------------------------------------------------------------------
\* A node made two

Lower(rng, d) == {r \in rng : r < d}

Upper(rng, d) == {r \in rng : d <= r}

\* left and right have what n has less than d, and what it has from d on.
Halves(t, R, n, d, left, right) ==
  /\ d \in Nat /\ left.lev = n.lev /\ right.lev = n.lev
  /\ left.rng = Lower(n.rng, d) /\ right.rng = Upper(n.rng, d)
  /\ IsNode(t, left, R) /\ IsNode(t, right, R)

Within(a, rng) == \A k \in 1 .. Len(a) : a[k] \in rng

\* A piece of the keys of a node, and what the piece is responsible for.
LEMMA PieceIsNodeData ==
  ASSUME NEW n, IsNodeData(n), NEW a, NEW f \in Nat, IsPiece(Nat, a, f, n.keys), Len(a) > 0,
         NEW rng, rng \subseteq n.rng, Convex(rng), Within(a, rng), NEW kids
  PROVE  IsNodeData(Node(n.lev, rng, a, kids))
  <1> DEFINE k == n.keys
  <1>1. k \in Seq(Nat) /\ Sorted(k) /\ n.rng \subseteq Nat /\ n.lev \in Nat
    BY DEF IsNodeData
  <1>2. IsPiece(Nat, a, f, k)
    OBVIOUS
  <1> HIDE DEF k
  <1>3. a \in Seq(Nat)
    BY <1>2 DEF IsPiece
  <1>4. Sorted(a)
    <2> SUFFICES ASSUME NEW x \in 1 .. Len(a), NEW y \in 1 .. Len(a), x < y
                 PROVE  a[x] < a[y]
      BY <1>3 DEF Sorted
    <2>0. Len(a) \in Nat /\ Len(k) \in Nat /\ f + Len(a) <= Len(k)
      BY <1>1, <1>2, <1>3 DEF IsPiece
    <2>1. f + x \in 1 .. Len(k) /\ f + y \in 1 .. Len(k) /\ f + x < f + y
      BY <2>0
    <2>2. k[f + x] < k[f + y]
      BY <1>1, <2>1 DEF Sorted
    <2> QED
      BY <1>2, <2>2 DEF IsPiece
  <1>5. rng # {} /\ \A i \in DOMAIN a : a[i] \in rng
    BY <1>3 DEF Within
  <1> DEFINE m == Node(n.lev, rng, a, kids)
  <1>6. m.lev = n.lev /\ m.rng = rng /\ m.keys = a
    BY DEF Node
  <1> HIDE DEF m
  <1>7. IsNodeData(m)
    BY <1>1, <1>3, <1>4, <1>5, <1>6 DEF IsNodeData
  <1> QED
    BY <1>7 DEF m

\* Sorted keys are in the order of their indices.
LEMMA KeyOrder ==
  ASSUME NEW k \in Seq(Nat), Sorted(k), NEW i \in 1 .. Len(k), NEW j \in 1 .. Len(k)
  PROVE  k[i] \in Nat /\ k[j] \in Nat /\ (i < j <=> k[i] < k[j]) /\ (i = j <=> k[i] = k[j])
  <1>1. i \in DOMAIN k /\ j \in DOMAIN k /\ k[i] \in Nat /\ k[j] \in Nat
    OBVIOUS
  <1>2. (i < j => k[i] < k[j]) /\ (j < i => k[j] < k[i])
    BY <1>1 DEF Sorted
  <1>3. i < j \/ j < i \/ i = j
    OBVIOUS
  <1> QED
    BY <1>1, <1>2, <1>3

\* A piece of sorted keys that ends before key j is below it, one that does not
\* start before key j is not.
LEMMA PieceWithin ==
  ASSUME NEW k \in Seq(Nat), Sorted(k), NEW rng, rng \subseteq Nat, Within(k, rng),
         NEW j \in 1 .. Len(k), NEW a, NEW f \in Nat, IsPiece(Nat, a, f, k)
  PROVE  /\ f + Len(a) < j => Within(a, Lower(rng, k[j]))
         /\ f + 1 >= j => Within(a, Upper(rng, k[j]))
  <1>1. a \in Seq(Nat) /\ Len(a) \in Nat
    BY DEF IsPiece
  <1>2. ASSUME NEW x \in 1 .. Len(a)
        PROVE  /\ a[x] \in rng /\ a[x] \in Nat /\ k[j] \in Nat
               /\ f + x < j => a[x] < k[j]
               /\ f + x >= j => k[j] <= a[x]
    <2>1. f + x \in 1 .. Len(k) /\ a[x] = k[f + x]
      BY <1>1 DEF IsPiece
    <2>2. /\ k[f + x] \in Nat /\ k[j] \in Nat /\ (f + x < j <=> k[f + x] < k[j])
      BY <2>1, KeyOrder
    <2>3. k[f + x] \in rng
      BY <2>1 DEF Within
    <2> QED
      BY <2>1, <2>2, <2>3
  <1>3. ASSUME f + Len(a) < j, NEW x \in 1 .. Len(a)
        PROVE  a[x] \in Lower(rng, k[j])
    <2>1. f + x < j
      BY <1>1, <1>3
    <2> QED
      BY <1>2, <2>1 DEF Lower
  <1>4. ASSUME f + 1 >= j, NEW x \in 1 .. Len(a)
        PROVE  a[x] \in Upper(rng, k[j])
    <2>1. f + x >= j
      BY <1>1, <1>4
    <2> QED
      BY <1>2, <2>1 DEF Upper
  <1> QED
    BY <1>3, <1>4 DEF Within

\* A key of a node cuts its range in two.
LEMMA CutRange ==
  ASSUME NEW n, IsNodeData(n), NEW j \in 1 .. Len(n.keys)
  PROVE  /\ Lower(n.rng, n.keys[j]) \subseteq n.rng /\ Convex(Lower(n.rng, n.keys[j]))
         /\ Upper(n.rng, n.keys[j]) \subseteq n.rng /\ Convex(Upper(n.rng, n.keys[j]))
         /\ n.keys \in Seq(Nat) /\ Sorted(n.keys) /\ n.rng \subseteq Nat /\ Within(n.keys, n.rng)
         /\ n.keys[j] \in Nat /\ n.keys[j] \in n.rng
  <1>1. /\ n.keys \in Seq(Nat) /\ Sorted(n.keys) /\ n.rng \subseteq Nat /\ Convex(n.rng)
        /\ \A i \in DOMAIN n.keys : n.keys[i] \in n.rng
    BY DEF IsNodeData
  <1>2. n.keys[j] \in Nat /\ n.keys[j] \in n.rng
    BY <1>1
  <1>3. Within(n.keys, n.rng)
    BY <1>1 DEF Within
  <1>4. ASSUME NEW d \in Nat, NEW rng, rng \subseteq Nat, Convex(rng)
        PROVE  /\ Lower(rng, d) \subseteq rng /\ Convex(Lower(rng, d))
               /\ Upper(rng, d) \subseteq rng /\ Convex(Upper(rng, d))
    BY <1>4 DEF Lower, Upper, Convex
  <1> QED
    BY <1>1, <1>2, <1>3, <1>4

\* What of the rows R is in rng has its keys in k.
Lists(k, rng, R) ==
  (\A i \in 1 .. Len(k) : k[i] \in R) /\ \A r \in R \cap rng : \E i \in 1 .. Len(k) : k[i] = r

\* The keys before key j are the rows below it, the keys from key j on the others.
LEMMA PieceLists ==
  ASSUME NEW k \in Seq(Nat), Sorted(k), NEW rng, rng \subseteq Nat, NEW R, Lists(k, rng, R),
         NEW j \in 1 .. Len(k), NEW a, NEW f \in Nat, IsPiece(Nat, a, f, k)
  PROVE  /\ f = 0 /\ Len(a) = j - 1 => Lists(a, Lower(rng, k[j]), R)
         /\ f + 1 = j /\ f + Len(a) = Len(k) => Lists(a, Upper(rng, k[j]), R)
  <1>1. a \in Seq(Nat) /\ Len(a) \in Nat /\ k[j] \in Nat
    BY DEF IsPiece
  <1>2. \A i \in 1 .. Len(a) : a[i] \in R
    <2> SUFFICES ASSUME NEW x \in 1 .. Len(a) PROVE a[x] \in R
      OBVIOUS
    <2>1. f + x \in 1 .. Len(k) /\ a[x] = k[f + x]
      BY <1>1 DEF IsPiece
    <2> QED
      BY <2>1 DEF Lists
  <1>3. ASSUME NEW r \in R, r \in rng
        PROVE  \E i \in 1 .. Len(k) : k[i] = r /\ (i < j <=> r < k[j])
    <2>1. PICK i \in 1 .. Len(k) : k[i] = r
      BY <1>3 DEF Lists
    <2>2. i < j <=> k[i] < k[j]
      BY KeyOrder
    <2> QED
      BY <2>1, <2>2
  <1>4. ASSUME f = 0, Len(a) = j - 1, NEW r \in R, r \in Lower(rng, k[j])
        PROVE  \E i \in 1 .. Len(a) : a[i] = r
    <2>1. r \in rng /\ r < k[j]
      BY <1>4 DEF Lower
    <2>2. PICK i \in 1 .. Len(k) : k[i] = r /\ i < j
      BY <1>3, <2>1
    <2>3. i \in 1 .. Len(a) /\ a[i] = k[f + i] /\ f + i = i
      BY <1>4, <2>2 DEF IsPiece
    <2> QED
      BY <2>2, <2>3
  <1>5. ASSUME f + 1 = j, f + Len(a) = Len(k), NEW r \in R, r \in Upper(rng, k[j])
        PROVE  \E i \in 1 .. Len(a) : a[i] = r
    <2>1. r \in rng /\ r \in Nat /\ ~(r < k[j])
      BY <1>1, <1>5 DEF Upper
    <2>2. PICK i \in 1 .. Len(k) : k[i] = r /\ ~(i < j)
      BY <1>3, <2>1
    <2>3. i - f \in 1 .. Len(a) /\ f + (i - f) = i
      BY <1>1, <1>5, <2>2
    <2>4. a[i - f] = k[f + (i - f)]
      BY <2>3 DEF IsPiece
    <2> QED
      BY <2>2, <2>3, <2>4
  <1> QED
    BY <1>2, <1>4, <1>5 DEF Lists

LeftLeaf(n, m) == Node(n.lev, Lower(n.rng, n.keys[m + 1]), SubSeq(n.keys, 1, m), <<>>)

RightLeaf(n, m) ==
  Node(n.lev, Upper(n.rng, n.keys[m + 1]), SubSeq(n.keys, m + 1, Len(n.keys)), <<>>)

\* The two halves of a leaf are nodes, divided by the first key of the right one.
LEMMA LeafHalves ==
  ASSUME NEW t, NEW R, NEW n, IsNode(t, n, R), n.lev = 0, NEW m \in 1 .. Len(n.keys) - 1
  PROVE  Halves(t, R, n, n.keys[m + 1], LeftLeaf(n, m), RightLeaf(n, m))
  <1> DEFINE k == n.keys
             d == k[m + 1]
             a == SubSeq(k, 1, m)
             b == SubSeq(k, m + 1, Len(k))
             left == Node(n.lev, Lower(n.rng, d), a, <<>>)
             right == Node(n.lev, Upper(n.rng, d), b, <<>>)
  <1>1. k \in Seq(Nat) /\ IsNodeData(n) /\ Lists(k, n.rng, R)
    BY DEF IsNode, IsNodeData, HasRows, Lists
  <1>2. /\ m \in 1 .. Len(k) - 1 /\ m \in 0 .. Len(k) /\ m \in Nat /\ m + 1 \in 1 .. Len(k)
        /\ m = (m + 1) - 1 /\ m < m + 1 /\ 0 \in Nat /\ Len(k) \in Nat
    BY <1>1
  <1>3. /\ left.lev = n.lev /\ left.rng = Lower(n.rng, d) /\ left.keys = a
        /\ right.lev = n.lev /\ right.rng = Upper(n.rng, d) /\ right.keys = b
    BY DEF Node
  <1>4. IsPiece(Nat, a, 0, k) /\ Len(a) = m /\ IsPiece(Nat, b, m, k) /\ Len(b) = Len(k) - m
    <2> HIDE DEF k
    <2> QED
      BY <1>1, <1>2, StartOf, RestOf
  <1> HIDE DEF a, b
  <1>5. /\ Lower(n.rng, d) \subseteq n.rng /\ Convex(Lower(n.rng, d))
        /\ Upper(n.rng, d) \subseteq n.rng /\ Convex(Upper(n.rng, d))
        /\ Sorted(k) /\ n.rng \subseteq Nat /\ Within(k, n.rng) /\ d \in Nat
    BY <1>1, <1>2, CutRange
  <1>6. /\ 0 + Len(a) < m + 1 /\ Len(a) > 0 /\ Len(b) > 0 /\ m + 1 >= m + 1
        /\ Len(a) = (m + 1) - 1 /\ m + Len(b) = Len(k)
    BY <1>2, <1>4
  <1> HIDE DEF k
  <1>7. Within(a, Lower(n.rng, d)) /\ Lists(a, Lower(n.rng, d), R)
    BY <1>1, <1>2, <1>4, <1>5, <1>6, PieceWithin, PieceLists
  <1>8. Within(b, Upper(n.rng, d)) /\ Lists(b, Upper(n.rng, d), R)
    BY <1>1, <1>2, <1>4, <1>5, <1>6, PieceWithin, PieceLists
  <1>9. IsNodeData(left)
    BY <1>1, <1>2, <1>4, <1>5, <1>6, <1>7, PieceIsNodeData DEF k
  <1>10. IsNodeData(right)
    BY <1>1, <1>2, <1>4, <1>5, <1>6, <1>8, PieceIsNodeData DEF k
  <1>11. a \in Seq(Nat) /\ b \in Seq(Nat)
    BY <1>4 DEF IsPiece
  <1> HIDE DEF left, right, d
  <1>12. HasRows(left, R) /\ HasRows(right, R)
    <2>1. ASSUME NEW x, NEW kk \in Seq(Nat), x.keys = kk, Lists(kk, x.rng, R)
          PROVE  HasRows(x, R)
      BY <2>1 DEF HasRows, Lists
    <2> QED
      BY <1>3, <1>7, <1>8, <1>11, <2>1
  <1>13. Halves(t, R, n, d, left, right)
    BY <1>3, <1>5, <1>9, <1>10, <1>12 DEF Halves, IsNode
  <1> QED
    BY <1>13 DEF left, right, d, k, a, b, LeftLeaf, RightLeaf

\* What is above the larger of two numbers is above the smaller.
LEMMA Between ==
  ASSUME NEW x \in Nat, NEW y \in Nat, NEW z \in Nat, x < y
  PROVE  (y <= z => x <= z) /\ (z < x => z < y)
  OBVIOUS

IsSlice(s, rng, keys, i) == s = Slice(rng, keys, i)

\* The slices of a half of the keys are slices of all of them.
LEMMA SliceOfPiece ==
  ASSUME NEW k \in Seq(Nat), Sorted(k), NEW rng, rng \subseteq Nat,
         NEW j \in 1 .. Len(k), NEW a, NEW f \in Nat, IsPiece(Nat, a, f, k),
         NEW l, Len(a) = l, NEW i \in 1 .. l + 1, NEW s
  PROVE  /\ f = 0 /\ l + 1 = j /\ IsSlice(s, rng, k, i) => IsSlice(s, Lower(rng, k[j]), a, i)
         /\ f = j /\ f + l = Len(k) /\ IsSlice(s, rng, k, j + i) => IsSlice(s, Upper(rng, k[j]), a, i)
  <1>1. a \in Seq(Nat) /\ Len(a) \in Nat /\ l \in Nat /\ k[j] \in Nat
    BY DEF IsPiece
  <1>2. i > 1 => i - 1 \in 1 .. Len(a) /\ f + (i - 1) \in 1 .. Len(k) /\ a[i - 1] = k[f + (i - 1)]
    BY <1>1 DEF IsPiece
  <1>3. i <= Len(a) => i \in 1 .. Len(a) /\ f + i \in 1 .. Len(k) /\ a[i] = k[f + i]
    BY <1>1 DEF IsPiece
  <1>4. i > 1 => k[f + (i - 1)] \in Nat /\ (j < f + (i - 1) <=> k[j] < k[f + (i - 1)])
    BY <1>2, KeyOrder
  <1>5. i <= Len(a) => k[f + i] \in Nat /\ (f + i < j <=> k[f + i] < k[j])
    BY <1>3, KeyOrder
  <1>6. ASSUME f = 0, l + 1 = j, NEW r \in rng
        PROVE  r \in Slice(Lower(rng, k[j]), a, i) <=> r \in Slice(rng, k, i)
    <2>1. i > 1 => a[i - 1] = k[i - 1]
      BY <1>1, <1>2, <1>6
    <2>2. i <= Len(a) => a[i] = k[i] /\ k[i] < k[j] /\ k[i] \in Nat
      BY <1>1, <1>3, <1>5, <1>6
    <2>3. i <= Len(k) /\ (i > Len(a) => i = j) /\ r \in Nat
      BY <1>1, <1>6
    <2>4. r \in Slice(Lower(rng, k[j]), a, i) <=>
            r < k[j] /\ (i > 1 => a[i - 1] <= r) /\ (i <= Len(a) => r < a[i])
      BY <1>6 DEF Slice, Lower
    <2>5. r \in Slice(rng, k, i) <=> (i > 1 => k[i - 1] <= r) /\ r < k[i]
      BY <1>6, <2>3 DEF Slice
    <2>6. CASE i <= Len(a)
      <3>1. k[i] < k[j] /\ k[i] \in Nat /\ k[j] \in Nat /\ a[i] = k[i] /\ r \in Nat
        BY <1>1, <2>2, <2>3, <2>6
      <3>2. r < k[i] => r < k[j]
        BY <3>1
      <3> QED
        BY <2>1, <2>4, <2>5, <2>6, <3>1, <3>2
    <2>7. CASE i > Len(a)
      <3>1. i = j /\ ~(i <= Len(a))
        BY <1>1, <2>3, <2>7
      <3> QED
        BY <1>1, <2>1, <2>4, <2>5, <3>1
    <2> QED
      BY <1>1, <2>6, <2>7
  <1>7. ASSUME f = j, f + l = Len(k), NEW r \in rng
        PROVE  r \in Slice(Upper(rng, k[j]), a, i) <=> r \in Slice(rng, k, j + i)
    <2>1. i > 1 => a[i - 1] = k[j + i - 1] /\ k[j] < k[j + i - 1] /\ k[j + i - 1] \in Nat
      <3>1. i > 1 => f + (i - 1) = j + i - 1 /\ j < f + (i - 1)
        BY <1>7
      <3> QED
        BY <1>2, <1>4, <3>1
    <2>2. /\ i <= Len(a) => a[i] = k[j + i]
          /\ i <= Len(a) <=> j + i <= Len(k)
      BY <1>1, <1>3, <1>7
    <2>3. r \in Nat /\ j + i > 1 /\ (i = 1 => j + i - 1 = j)
      BY <1>7
    <2>4. r \in Slice(Upper(rng, k[j]), a, i) <=>
            k[j] <= r /\ (i > 1 => a[i - 1] <= r) /\ (i <= Len(a) => r < a[i])
      BY <1>7 DEF Slice, Upper
    <2>5. r \in Slice(rng, k, j + i) <=> k[j + i - 1] <= r /\ (j + i <= Len(k) => r < k[j + i])
      BY <1>7, <2>3 DEF Slice
    <2>6. CASE i = 1
      BY <1>1, <2>2, <2>3, <2>4, <2>5, <2>6
    <2>7. CASE i > 1
      <3>1. k[j] < k[j + i - 1] /\ k[j + i - 1] \in Nat /\ a[i - 1] = k[j + i - 1]
        BY <2>1, <2>7
      <3>2. k[j + i - 1] <= r => k[j] <= r
        BY <1>1, <2>3, <3>1, Between
      <3>3. (i <= Len(a) => r < a[i]) <=> (j + i <= Len(k) => r < k[j + i])
        BY <2>2
      <3> QED
        BY <2>4, <2>5, <2>7, <3>1, <3>2, <3>3
    <2> QED
      BY <2>6, <2>7
  <1>8. /\ f = 0 /\ l + 1 = j => Slice(Lower(rng, k[j]), a, i) = Slice(rng, k, i)
        /\ f = j /\ f + l = Len(k) => Slice(Upper(rng, k[j]), a, i) = Slice(rng, k, j + i)
    BY <1>6, <1>7 DEF Slice, Lower, Upper
  <1> QED
    BY <1>8 DEF IsSlice

\* The nodes kids are those that a node at level lev needs for its keys.
Spans(t, lev, rng, keys, kids) ==
  \A i \in 1 .. Len(kids) : t[kids[i]].lev = lev - 1 /\ IsSlice(t[kids[i]].rng, rng, keys, i)

LeftNode(n, h) ==
  Node(n.lev, Lower(n.rng, n.keys[h + 1]), SubSeq(n.keys, 1, h), SubSeq(n.kids, 1, h + 1))

RightNode(n, h) ==
  Node(n.lev, Upper(n.rng, n.keys[h + 1]), SubSeq(n.keys, h + 2, Len(n.keys)),
       SubSeq(n.kids, h + 2, Len(n.kids)))

\* The two halves of an interior node are nodes, divided by the key between them.
LEMMA InteriorHalves ==
  ASSUME NEW t, NEW R, NEW n, IsNode(t, n, R), n.lev > 0, NEW h \in 1 .. Len(n.keys) - 2
  PROVE  Halves(t, R, n, n.keys[h + 1], LeftNode(n, h), RightNode(n, h))
  <1> DEFINE k == n.keys
             c == n.kids
             d == k[h + 1]
             a == SubSeq(k, 1, h)
             b == SubSeq(k, h + 2, Len(k))
             ac == SubSeq(c, 1, h + 1)
             bc == SubSeq(c, h + 2, Len(c))
             left == Node(n.lev, Lower(n.rng, d), a, ac)
             right == Node(n.lev, Upper(n.rng, d), b, bc)
  <1>1. k \in Seq(Nat) /\ IsNodeData(n) /\ HasKids(t, n) /\ n.lev \in Nat
    BY DEF IsNode, IsNodeData
  <1>2. c \in Seq(DOMAIN t) /\ Len(c) = Len(k) + 1
    BY <1>1 DEF HasKids
  <1>3. /\ h \in 0 .. Len(k) /\ h + 1 \in 0 .. Len(k) /\ h + 1 \in 1 .. Len(k) /\ h + 1 \in 0 .. Len(c)
        /\ h + 1 \in Nat /\ h + 2 = (h + 1) + 1 /\ Len(k) \in Nat /\ h \in Nat /\ 0 \in Nat
        /\ h + 1 < Len(k)
    BY <1>1, <1>2
  <1>4. /\ left.lev = n.lev /\ left.rng = Lower(n.rng, d) /\ left.keys = a /\ left.kids = ac
        /\ right.lev = n.lev /\ right.rng = Upper(n.rng, d) /\ right.keys = b /\ right.kids = bc
    BY DEF Node
  <1>5. /\ IsPiece(Nat, a, 0, k) /\ Len(a) = h
        /\ IsPiece(Nat, b, h + 1, k) /\ Len(b) = Len(k) - (h + 1)
        /\ IsPiece(DOMAIN t, ac, 0, c) /\ Len(ac) = h + 1
        /\ IsPiece(DOMAIN t, bc, h + 1, c) /\ Len(bc) = Len(c) - (h + 1)
    <2> HIDE DEF k, c
    <2> QED
      BY <1>1, <1>2, <1>3, StartOf, RestOf
  <1> HIDE DEF a, b, ac, bc
  <1>00. Len(a) \in Nat /\ Len(b) \in Nat
    BY <1>5 DEF IsPiece
  <1>6. /\ Lower(n.rng, d) \subseteq n.rng /\ Convex(Lower(n.rng, d))
        /\ Upper(n.rng, d) \subseteq n.rng /\ Convex(Upper(n.rng, d))
        /\ Sorted(k) /\ n.rng \subseteq Nat /\ Within(k, n.rng) /\ d \in Nat
    BY <1>1, <1>3, CutRange
  <1>0. h \in 1 .. Len(k) - 2
    OBVIOUS
  <1> HIDE DEF k, c
  <1>7. /\ 0 + Len(a) < h + 1 /\ Len(a) > 0 /\ Len(b) > 0 /\ (h + 1) + 1 >= h + 1
        /\ Len(a) = (h + 1) - 1 /\ (h + 1) + Len(b) = Len(k)
    <2>1. Len(a) = h /\ Len(b) = Len(k) - (h + 1)
      BY <1>5
    <2> QED
      BY <1>0, <1>3, <2>1
  <1>8. Within(a, Lower(n.rng, d)) /\ Within(b, Upper(n.rng, d))
    BY <1>1, <1>3, <1>5, <1>6, <1>7, PieceWithin
  <1>9. IsNodeData(left)
    BY <1>1, <1>3, <1>5, <1>6, <1>7, <1>8, PieceIsNodeData DEF k
  <1>10. IsNodeData(right)
    BY <1>1, <1>3, <1>5, <1>6, <1>7, <1>8, PieceIsNodeData DEF k
  <1>11. ASSUME NEW i \in 1 .. Len(a) + 1, NEW s, IsSlice(s, n.rng, k, i)
         PROVE  IsSlice(s, Lower(n.rng, d), a, i)
    <2> DEFINE g == h + 1
    <2>1. IsPiece(Nat, a, 0, k) /\ Len(a) = h /\ h + 1 = g /\ g \in 1 .. Len(k) /\ 0 \in Nat
          /\ k \in Seq(Nat) /\ Sorted(k) /\ n.rng \subseteq Nat /\ i \in 1 .. h + 1
      BY <1>1, <1>3, <1>5, <1>6, <1>7
    <2> HIDE DEF d, g
    <2>2. IsSlice(s, Lower(n.rng, k[g]), a, i)
      BY <1>11, <2>1, SliceOfPiece
    <2> QED
      BY <2>2 DEF d, g
  <1>12. ASSUME NEW i \in 1 .. Len(b) + 1, NEW s, IsSlice(s, n.rng, k, (h + 1) + i)
         PROVE  IsSlice(s, Upper(n.rng, d), b, i)
    <2> DEFINE g == h + 1
               l == Len(b)
    <2>1. IsPiece(Nat, b, g, k) /\ g + l = Len(k) /\ g \in 1 .. Len(k) /\ i \in 1 .. l + 1
          /\ g \in Nat /\ k \in Seq(Nat) /\ Sorted(k) /\ n.rng \subseteq Nat /\ Len(b) = l
      BY <1>1, <1>3, <1>5, <1>6, <1>7
    <2> HIDE DEF d, g, l
    <2>0. IsSlice(s, n.rng, k, g + i)
      BY <1>12 DEF g
    <2>2. IsSlice(s, Upper(n.rng, k[g]), b, i)
      BY <2>0, <2>1, SliceOfPiece
    <2> QED
      BY <2>2 DEF d, g
  <1>13. \A i \in 1 .. Len(c) : t[c[i]].lev = n.lev - 1 /\ IsSlice(t[c[i]].rng, n.rng, k, i)
    BY <1>1, <1>2 DEF HasKids, k, c, IsSlice
  <1>14. ASSUME NEW x, Len(x.keys) > 0, x.kids \in Seq(DOMAIN t), Len(x.kids) = Len(x.keys) + 1,
                Spans(t, n.lev, x.rng, x.keys, x.kids), x.lev = n.lev
         PROVE  HasKids(t, x)
    BY <1>14 DEF HasKids, Spans, IsSlice
  <1> HIDE DEF left, right, d
  <1>15. HasKids(t, left)
    <2>1. a \in Seq(Nat) /\ ac \in Seq(DOMAIN t) /\ Len(ac) = Len(a) + 1
      BY <1>3, <1>5 DEF IsPiece
    <2>2. ASSUME NEW i \in 1 .. Len(ac)
          PROVE  t[ac[i]].lev = n.lev - 1 /\ IsSlice(t[ac[i]].rng, Lower(n.rng, d), a, i)
      <3>1. i \in 1 .. Len(c) /\ ac[i] = c[0 + i] /\ 0 + i = i /\ i \in 1 .. Len(a) + 1
        BY <1>2, <1>3, <1>5, <2>1 DEF IsPiece
      <3> QED
        BY <1>11, <1>13, <3>1
    <2>3. Spans(t, n.lev, Lower(n.rng, d), a, ac)
      BY <2>2 DEF Spans
    <2> QED
      BY <1>4, <1>7, <1>14, <2>1, <2>3
  <1>16. HasKids(t, right)
    <2>1. b \in Seq(Nat) /\ bc \in Seq(DOMAIN t) /\ Len(bc) = Len(b) + 1
      BY <1>2, <1>3, <1>5 DEF IsPiece
    <2>2. ASSUME NEW i \in 1 .. Len(bc)
          PROVE  t[bc[i]].lev = n.lev - 1 /\ IsSlice(t[bc[i]].rng, Upper(n.rng, d), b, i)
      <3>1. (h + 1) + i \in 1 .. Len(c) /\ bc[i] = c[(h + 1) + i] /\ i \in 1 .. Len(b) + 1
        BY <1>2, <1>3, <1>5, <2>1 DEF IsPiece
      <3> QED
        BY <1>12, <1>13, <3>1
    <2>3. Spans(t, n.lev, Upper(n.rng, d), b, bc)
      BY <2>2 DEF Spans
    <2> QED
      BY <1>4, <1>7, <1>14, <2>1, <2>3
  <1>17. Halves(t, R, n, d, left, right)
    BY <1>1, <1>4, <1>6, <1>9, <1>10, <1>15, <1>16 DEF Halves, IsNode
  <1> QED
    BY <1>17 DEF left, right, d, k, c, a, b, ac, bc, LeftNode, RightNode

-----------------------------------------------------------------------------
\* A page split in two, below its parent

\* g is s with e put in at i.
Inserts(S, g, s, i, e) ==
  /\ g \in Seq(S) /\ Len(g) = Len(s) + 1
  /\ \A j \in 1 .. Len(s) + 1 : g[j] = IF j < i THEN s[j] ELSE IF j = i THEN e ELSE s[j - 1]

\* InsertAt puts one element between the others.
LEMMA InsertAtInserts ==
  ASSUME NEW S, NEW s \in Seq(S), NEW i \in 1 .. Len(s) + 1, NEW e \in S
  PROVE  Inserts(S, InsertAt(s, i, e), s, i, e)
  <1>1. PICK g : g = InsertAt(s, i, e)
    OBVIOUS
  <1>2. g \in Seq(S) /\ Len(g) = Len(s) + 1
        /\ \A k \in 1 .. Len(s) + 1 : g[k] = IF k < i THEN s[k] ELSE IF k = i THEN e ELSE s[k - 1]
    <2>1. /\ InsertAt(s, i, e) \in Seq(S) /\ Len(InsertAt(s, i, e)) = Len(s) + 1
          /\ \A k \in 1 .. Len(s) + 1 :
               InsertAt(s, i, e)[k] = IF k < i THEN s[k] ELSE IF k = i THEN e ELSE s[k - 1]
      BY InsertedAt
    <2> QED
      BY <1>1, <2>1
  <1>3. Inserts(S, g, s, i, e)
    BY <1>2 DEF Inserts
  <1> QED
    BY <1>1, <1>3

\* A key more, between two others, and the slices there are then.
LEMMA KeyInserted ==
  ASSUME NEW k \in Seq(Nat), Sorted(k), NEW i \in 1 .. Len(k) + 1, NEW d \in Nat,
         i > 1 => k[i - 1] < d, i <= Len(k) => d < k[i], NEW g, Inserts(Nat, g, k, i, d)
  PROVE  Sorted(g)
  <1>1. /\ g \in Seq(Nat) /\ Len(g) = Len(k) + 1
        /\ \A j \in 1 .. Len(k) + 1 : g[j] = IF j < i THEN k[j] ELSE IF j = i THEN d ELSE k[j - 1]
    BY DEF Inserts
  <1>2. Len(k) \in Nat
    OBVIOUS
  <1>3. ASSUME NEW a \in 1 .. Len(k), a < i
        PROVE  k[a] < d /\ k[a] \in Nat
    <2>1. i - 1 \in 1 .. Len(k) /\ (a < i - 1 \/ a = i - 1) /\ i > 1
      BY <1>2, <1>3
    <2>2. k[a] \in Nat /\ k[i - 1] \in Nat /\ (a < i - 1 <=> k[a] < k[i - 1])
      BY <2>1, KeyOrder
    <2>3. k[i - 1] < d
      BY <2>1
    <2> QED
      BY <2>1, <2>2, <2>3
  <1>4. ASSUME NEW a \in 1 .. Len(k), a >= i
        PROVE  d < k[a] /\ k[a] \in Nat
    <2>1. i \in 1 .. Len(k) /\ (i < a \/ a = i)
      BY <1>2, <1>4
    <2>2. k[a] \in Nat /\ k[i] \in Nat /\ (i < a <=> k[i] < k[a])
      BY <2>1, KeyOrder
    <2>3. d < k[i]
      BY <2>1
    <2> QED
      BY <2>1, <2>2, <2>3
  <1>5. ASSUME NEW a \in 1 .. Len(k) + 1, NEW b \in 1 .. Len(k) + 1, a < b
        PROVE  g[a] < g[b]
    <2>1. CASE b < i
      <3>0. a < i /\ a \in 1 .. Len(k) /\ b \in 1 .. Len(k)
        BY <1>2, <1>5, <2>1
      <3>1. g[a] = k[a] /\ g[b] = k[b] /\ a \in 1 .. Len(k) /\ b \in 1 .. Len(k)
        BY <1>1, <2>1, <3>0
      <3> QED
        BY <1>5, <3>1, KeyOrder
    <2>2. CASE b = i
      <3>1. g[a] = k[a] /\ g[b] = d /\ a \in 1 .. Len(k) /\ a < i
        BY <1>1, <1>2, <1>5, <2>2
      <3> QED
        BY <1>3, <3>1
    <2>3. CASE a = i
      <3>1. g[a] = d /\ g[b] = k[b - 1] /\ b - 1 \in 1 .. Len(k) /\ b - 1 >= i
        BY <1>1, <1>2, <1>5, <2>3
      <3> QED
        BY <1>4, <3>1
    <2>4. CASE a < i /\ i < b
      <3>1. g[a] = k[a] /\ g[b] = k[b - 1] /\ a \in 1 .. Len(k) /\ b - 1 \in 1 .. Len(k) /\ b - 1 >= i
        BY <1>1, <1>2, <1>5, <2>4
      <3> QED
        <4>1. k[a] < d /\ d < k[b - 1] /\ k[a] \in Nat /\ k[b - 1] \in Nat
          BY <1>3, <1>4, <2>4, <3>1
        <4> QED
          BY <3>1, <4>1, Between
    <2>5. CASE i < a
      <3>1. /\ g[a] = k[a - 1] /\ g[b] = k[b - 1] /\ a - 1 \in 1 .. Len(k) /\ b - 1 \in 1 .. Len(k)
            /\ a - 1 < b - 1
        BY <1>1, <1>2, <1>5, <2>5
      <3>2. a - 1 < b - 1 <=> k[a - 1] < k[b - 1]
        BY <3>1, KeyOrder
      <3> QED
        BY <3>1, <3>2
    <2> QED
      BY <1>5, <2>1, <2>2, <2>3, <2>4, <2>5
  <1>6. DOMAIN g = 1 .. Len(k) + 1
    BY <1>1
  <1> QED
    BY <1>5, <1>6 DEF Sorted

\* A key more cuts one slice in two and leaves the others.
LEMMA SlicesAround ==
  ASSUME NEW k \in Seq(Nat), Sorted(k), NEW i \in 1 .. Len(k) + 1, NEW d \in Nat,
         i > 1 => k[i - 1] < d, i <= Len(k) => d < k[i], NEW g, Inserts(Nat, g, k, i, d),
         NEW rng, rng \subseteq Nat, NEW s
  PROVE  /\ \A j \in 1 .. Len(k) + 1 : j < i /\ IsSlice(s, rng, k, j) => IsSlice(s, rng, g, j)
         /\ IsSlice(s, rng, k, i) => IsSlice(Lower(s, d), rng, g, i) /\ IsSlice(Upper(s, d), rng, g, i + 1)
         /\ \A j \in 1 .. Len(k) + 1 : j > i /\ IsSlice(s, rng, k, j) => IsSlice(s, rng, g, j + 1)
  <1>1. /\ g \in Seq(Nat) /\ Len(g) = Len(k) + 1 /\ Len(k) \in Nat
        /\ \A j \in 1 .. Len(k) + 1 : g[j] = IF j < i THEN k[j] ELSE IF j = i THEN d ELSE k[j - 1]
    BY DEF Inserts
  <1>2. ASSUME NEW j \in 1 .. Len(k) + 1, j < i, NEW r \in rng
        PROVE  r \in Slice(rng, k, j) <=> r \in Slice(rng, g, j)
    <2>0. j <= Len(k) /\ j <= Len(g) /\ (j > 1 => j - 1 \in 1 .. Len(k) + 1 /\ j - 1 < i)
      <3>1. Len(k) \in Nat /\ Len(g) = Len(k) + 1 /\ j < i
        BY <1>1, <1>2
      <3> QED
        BY <3>1
    <2>1. j <= Len(k) /\ j <= Len(g) /\ g[j] = k[j] /\ (j > 1 => g[j - 1] = k[j - 1])
      BY <1>1, <1>2, <2>0
    <2> QED
      BY <1>2, <2>1 DEF Slice
  <1>3. ASSUME NEW j \in 1 .. Len(k) + 1, j > i, NEW r \in rng
        PROVE  r \in Slice(rng, k, j) <=> r \in Slice(rng, g, j + 1)
    <2>1. /\ j > 1 /\ j + 1 > 1 /\ g[(j + 1) - 1] = k[j - 1]
          /\ (j <= Len(k) <=> j + 1 <= Len(g)) /\ (j <= Len(k) => g[j + 1] = k[j])
      <3>1. /\ j > 1 /\ j + 1 > 1 /\ (j + 1) - 1 = j /\ ~(j < i) /\ j # i
            /\ (j <= Len(k) <=> j + 1 <= Len(g))
            /\ (j <= Len(k) => j + 1 \in 1 .. Len(k) + 1 /\ ~(j + 1 < i) /\ j + 1 # i)
        BY <1>1, <1>3
      <3>2. g[j] = k[j - 1]
        BY <1>1, <3>1
      <3>3. j <= Len(k) => g[j + 1] = k[(j + 1) - 1]
        BY <1>1, <3>1
      <3> QED
        BY <3>1, <3>2, <3>3
    <2> QED
      BY <1>3, <2>1 DEF Slice
  <1>4. ASSUME NEW r \in rng
        PROVE  r \in Lower(Slice(rng, k, i), d) <=> r \in Slice(rng, g, i)
    <2>1. i <= Len(g) /\ g[i] = d /\ (i > 1 => g[i - 1] = k[i - 1])
      BY <1>1
    <2>2. i <= Len(k) /\ r < d => r < k[i]
      <3> SUFFICES ASSUME i <= Len(k), r < d
                   PROVE  r < k[i]
        OBVIOUS
      <3>1. k[i] \in Nat /\ d < k[i] /\ r \in Nat
        BY <1>1
      <3> QED
        BY <3>1
    <2> QED
      BY <1>4, <2>1, <2>2 DEF Slice, Lower
  <1>5. ASSUME NEW r \in rng
        PROVE  r \in Upper(Slice(rng, k, i), d) <=> r \in Slice(rng, g, i + 1)
    <2>1. /\ i + 1 > 1 /\ g[(i + 1) - 1] = d
          /\ (i <= Len(k) <=> i + 1 <= Len(g)) /\ (i <= Len(k) => g[i + 1] = k[i])
      BY <1>1
    <2>2. i > 1 /\ d <= r => k[i - 1] <= r
      <3> SUFFICES ASSUME i > 1, d <= r
                   PROVE  k[i - 1] <= r
        OBVIOUS
      <3>1. i - 1 \in 1 .. Len(k) /\ k[i - 1] < d /\ r \in Nat
        BY <1>1
      <3>2. k[i - 1] \in Nat
        BY <3>1
      <3> QED
        BY <3>1, <3>2
    <2> QED
      BY <1>5, <2>1, <2>2 DEF Slice, Upper
  <1>6. \A j \in 1 .. Len(k) + 1 : j < i => Slice(rng, k, j) = Slice(rng, g, j)
    <2> SUFFICES ASSUME NEW j \in 1 .. Len(k) + 1, j < i
                 PROVE  Slice(rng, k, j) = Slice(rng, g, j)
      OBVIOUS
    <2>1. Slice(rng, k, j) \subseteq rng /\ Slice(rng, g, j) \subseteq rng
      BY DEF Slice
    <2> QED
      BY <1>2, <2>1
  <1>7. \A j \in 1 .. Len(k) + 1 : j > i => Slice(rng, k, j) = Slice(rng, g, j + 1)
    <2> SUFFICES ASSUME NEW j \in 1 .. Len(k) + 1, j > i
                 PROVE  Slice(rng, k, j) = Slice(rng, g, j + 1)
      OBVIOUS
    <2>1. Slice(rng, k, j) \subseteq rng /\ Slice(rng, g, j + 1) \subseteq rng
      BY DEF Slice
    <2> QED
      BY <1>3, <2>1
  <1>8. /\ Lower(Slice(rng, k, i), d) = Slice(rng, g, i)
        /\ Upper(Slice(rng, k, i), d) = Slice(rng, g, i + 1)
    <2>1. /\ Slice(rng, k, i) \subseteq rng /\ Slice(rng, g, i) \subseteq rng
          /\ Slice(rng, g, i + 1) \subseteq rng
      BY DEF Slice
    <2>2. Lower(Slice(rng, k, i), d) \subseteq rng /\ Upper(Slice(rng, k, i), d) \subseteq rng
      BY <2>1 DEF Lower, Upper
    <2> QED
      BY <1>4, <1>5, <2>1, <2>2
  <1> QED
    BY <1>6, <1>7, <1>8 DEF IsSlice

\* Node p is made two, left at p and right at q, and x, which has it below, is told.
IsHalved(u, t, p, q, left, right, x, keys, kids) ==
  /\ DOMAIN u = DOMAIN t \cup {q} /\ u[p] = left /\ u[q] = right
  /\ u[x].lev = t[x].lev /\ u[x].rng = t[x].rng /\ u[x].keys = keys /\ u[x].kids = kids
  /\ \A y \in DOMAIN t \ {p, x} : u[y] = t[y]

\* Tree u is tree t with node p split in two at d, x being the parent.
IsTreeSplit(u, t, R, p, q, x, i, d, left, right, keys, kids) ==
  /\ IsTree(t, R) /\ p \in DOMAIN t /\ q \notin DOMAIN t
  /\ x \in DOMAIN t /\ t[x].lev > 0 /\ i \in DOMAIN t[x].kids /\ t[x].kids[i] = p
  /\ Halves(t, R, t[p], d, left, right) /\ Inserts(Nat, keys, t[x].keys, i, d)
  /\ Inserts(DOMAIN t \cup {q}, kids, t[x].kids, i + 1, q)
  /\ IsHalved(u, t, p, q, left, right, x, keys, kids)

\* Between trees, nodes keep what those above them look at.
Keeps(t, u, c) == c \in DOMAIN u /\ u[c].lev = t[c].lev /\ u[c].rng = t[c].rng

\* A node keeps its children as long as they keep their levels and ranges.
LEMMA KidsKept ==
  ASSUME NEW t, NEW u, NEW n, HasKids(t, n), DOMAIN t \subseteq DOMAIN u,
         \A j \in 1 .. Len(n.kids) : Keeps(t, u, n.kids[j])
  PROVE  HasKids(u, n)
  <1>1. n.kids \in Seq(DOMAIN u)
    <2>1. n.kids \in Seq(DOMAIN t)
      BY DEF HasKids
    <2>2. \A j \in 1 .. Len(n.kids) : n.kids[j] \in DOMAIN u
      BY DEF Keeps
    <2> QED
      BY <2>1, <2>2
  <1>2. ASSUME NEW j \in DOMAIN n.kids
        PROVE  u[n.kids[j]].lev = n.lev - 1 /\ u[n.kids[j]].rng = Slice(n.rng, n.keys, j)
    <2>1. j \in 1 .. Len(n.kids)
      BY <1>1
    <2>2. Keeps(t, u, n.kids[j])
      BY <2>1
    <2>3. t[n.kids[j]].lev = n.lev - 1 /\ t[n.kids[j]].rng = Slice(n.rng, n.keys, j)
      BY DEF HasKids
    <2> QED
      BY <2>2, <2>3 DEF Keeps
  <1> QED
    BY <1>1, <1>2 DEF HasKids

\* The divider is between the keys around the child that is made two.
LEMMA DividerBetween ==
  ASSUME NEW n, IsNodeData(n), NEW i \in 1 .. Len(n.keys) + 1, NEW m, IsNodeData(m),
         IsSlice(m.rng, n.rng, n.keys, i), NEW d \in Nat,
         Lower(m.rng, d) # {}, Upper(m.rng, d) # {}
  PROVE  d \in m.rng /\ d \in n.rng /\ (i > 1 => n.keys[i - 1] < d) /\ (i <= Len(n.keys) => d < n.keys[i])
  <1>1. PICK a \in m.rng, b \in m.rng : a < d /\ d <= b
    BY DEF Lower, Upper
  <1>2. m.rng \subseteq Nat /\ Convex(m.rng) /\ n.keys \in Seq(Nat)
    BY DEF IsNodeData
  <1>3. d \in m.rng /\ a \in Nat
    BY <1>1, <1>2 DEF Convex
  <1>4. d \in Slice(n.rng, n.keys, i) /\ a \in Slice(n.rng, n.keys, i)
    BY <1>1, <1>3 DEF IsSlice
  <1>5. d \in n.rng /\ (i > 1 => n.keys[i - 1] <= a) /\ (i <= Len(n.keys) => d < n.keys[i])
    BY <1>4 DEF Slice
  <1>6. i > 1 => n.keys[i - 1] \in Nat
    BY <1>2
  <1>7. i > 1 => n.keys[i - 1] < d
    BY <1>1, <1>3, <1>5, <1>6
  <1> QED
    BY <1>3, <1>5, <1>7

\* A node split in two below its parent leaves a tree.
LEMMA TreeSplit ==
  ASSUME NEW t, NEW R, NEW p, NEW q, NEW x, NEW i, NEW d, NEW left, NEW right, NEW keys, NEW kids,
         NEW u, IsTreeSplit(u, t, R, p, q, x, i, d, left, right, keys, kids)
  PROVE  IsTree(u, R) /\ u[Root].lev = t[Root].lev
  <1>0. /\ IsTree(t, R) /\ p \in DOMAIN t /\ q \notin DOMAIN t
        /\ x \in DOMAIN t /\ t[x].lev > 0 /\ i \in DOMAIN t[x].kids /\ t[x].kids[i] = p
        /\ Halves(t, R, t[p], d, left, right) /\ Inserts(Nat, keys, t[x].keys, i, d)
        /\ Inserts(DOMAIN t \cup {q}, kids, t[x].kids, i + 1, q)
        /\ IsHalved(u, t, p, q, left, right, x, keys, kids)
    BY DEF IsTreeSplit
  <1> USE <1>0
  <1> DEFINE k == t[x].keys
             c == t[x].kids
             s == t[p].rng
  <1>1. /\ IsNode(t, t[x], R) /\ IsNodeData(t[x]) /\ HasKids(t, t[x])
        /\ IsNode(t, t[p], R) /\ IsNodeData(t[p]) /\ t[p].lev \in Nat /\ t[x].lev \in Nat
    BY DEF IsTree, IsNode, IsNodeData
  <1>2. /\ k \in Seq(Nat) /\ Sorted(k) /\ c \in Seq(DOMAIN t) /\ Len(c) = Len(k) + 1
        /\ i \in 1 .. Len(k) + 1 /\ Len(k) > 0 /\ t[x].rng \subseteq Nat
    <2>1. k \in Seq(Nat) /\ Sorted(k) /\ t[x].rng \subseteq Nat
      BY <1>1 DEF IsNodeData
    <2>2. c \in Seq(DOMAIN t) /\ Len(c) = Len(k) + 1 /\ Len(k) > 0
      BY <1>1 DEF HasKids
    <2>3. DOMAIN c = 1 .. Len(c)
      BY <2>2
    <2> QED
      BY <2>1, <2>2, <2>3
  <1>3. t[p].lev = t[x].lev - 1 /\ IsSlice(s, t[x].rng, k, i)
    BY <1>1 DEF HasKids, IsSlice
  <1>4. /\ d \in Nat /\ left.lev = t[p].lev /\ right.lev = t[p].lev
        /\ left.rng = Lower(s, d) /\ right.rng = Upper(s, d)
        /\ IsNode(t, left, R) /\ IsNode(t, right, R) /\ left.rng # {} /\ right.rng # {}
    BY DEF Halves, IsNode, IsNodeData
  <1>5. d \in s /\ d \in t[x].rng /\ (i > 1 => k[i - 1] < d) /\ (i <= Len(k) => d < k[i])
    BY <1>1, <1>2, <1>3, <1>4, DividerBetween
  <1>6. p # x /\ p # Root /\ q # x /\ q # Root /\ q # p
    BY <1>1, <1>3 DEF IsTree
  <1>7. /\ DOMAIN u = DOMAIN t \cup {q} /\ u[p] = left /\ u[q] = right
        /\ u[x].lev = t[x].lev /\ u[x].rng = t[x].rng /\ u[x].keys = keys /\ u[x].kids = kids
        /\ \A y \in DOMAIN t \ {p, x} : u[y] = t[y]
    BY DEF IsHalved
  <1>8. \A y \in DOMAIN t : u[y].lev = t[y].lev /\ (y # p => Keeps(t, u, y))
    BY <1>4, <1>7 DEF Keeps
  <1>9. Sorted(keys) /\ keys \in Seq(Nat) /\ Len(keys) = Len(k) + 1
    BY <1>2, <1>4, <1>5, KeyInserted DEF Inserts
  <1>10. IsNodeData(u[x])
    <2>1. \A j \in DOMAIN k : k[j] \in t[x].rng
      BY <1>1 DEF IsNodeData
    <2>2. ASSUME NEW j \in DOMAIN keys
          PROVE  keys[j] \in t[x].rng
      <3>1. j \in 1 .. Len(k) + 1 /\ keys[j] = IF j < i THEN k[j] ELSE IF j = i THEN d ELSE k[j - 1]
        <4>1. j \in 1 .. Len(k) + 1
          BY <1>9
        <4> QED
          BY <4>1 DEF Inserts
      <3>2. (j < i => j \in 1 .. Len(k)) /\ (j > i => j - 1 \in 1 .. Len(k))
        BY <1>2, <3>1
      <3> QED
        BY <1>2, <1>5, <2>1, <3>1, <3>2
    <2>3. t[x].lev \in Nat /\ t[x].rng \subseteq Nat /\ t[x].rng # {} /\ Convex(t[x].rng)
      BY <1>1 DEF IsNodeData
    <2> QED
      BY <1>7, <1>9, <2>2, <2>3 DEF IsNodeData
  <1>11. HasKids(u, u[x])
    <2>1. kids \in Seq(DOMAIN u) /\ Len(kids) = Len(c) + 1
      BY <1>7 DEF Inserts
    <2>2. ASSUME NEW j \in 1 .. Len(c), j # i
          PROVE  /\ Keeps(t, u, c[j]) /\ t[c[j]].lev = t[x].lev - 1
                 /\ IsSlice(t[c[j]].rng, t[x].rng, k, j)
      <3>1. c[j] \in DOMAIN t /\ j \in DOMAIN t[x].kids
        BY <1>2
      <3>2. c[j] # p
        BY <2>2, <3>1, OneParent
      <3>3. t[c[j]].lev = t[x].lev - 1 /\ t[c[j]].rng = Slice(t[x].rng, k, j)
        BY <1>1, <3>1 DEF HasKids
      <3> QED
        BY <1>8, <3>1, <3>2, <3>3 DEF IsSlice
    <2>3. ASSUME NEW j \in 1 .. Len(kids)
          PROVE  u[kids[j]].lev = t[x].lev - 1 /\ IsSlice(u[kids[j]].rng, t[x].rng, keys, j)
      <3>0. /\ j \in 1 .. Len(c) + 1 /\ Len(c) \in Nat
            /\ kids[j] = IF j < i + 1 THEN c[j] ELSE IF j = i + 1 THEN q ELSE c[j - 1]
        BY <1>2, <2>1, <2>3 DEF Inserts
      <3>1. CASE j < i
        <4>1. j \in 1 .. Len(c) /\ j # i /\ kids[j] = c[j] /\ j \in 1 .. Len(k) + 1
          BY <1>2, <3>0, <3>1
        <4>2. /\ Keeps(t, u, c[j]) /\ t[c[j]].lev = t[x].lev - 1
              /\ IsSlice(t[c[j]].rng, t[x].rng, k, j)
          BY <2>2, <4>1
        <4>3. IsSlice(t[c[j]].rng, t[x].rng, keys, j)
          BY <1>2, <1>4, <1>5, <3>1, <4>1, <4>2, SlicesAround
        <4> QED
          BY <4>1, <4>2, <4>3 DEF Keeps
      <3>2. CASE j = i
        <4>1. kids[j] = p
          BY <1>2, <3>0, <3>2
        <4>2. IsSlice(Lower(s, d), t[x].rng, keys, i)
          BY <1>2, <1>3, <1>4, <1>5, SlicesAround
        <4> QED
          BY <1>3, <1>4, <1>7, <3>2, <4>1, <4>2
      <3>3. CASE j = i + 1
        <4>1. kids[j] = q
          BY <1>2, <3>0, <3>3
        <4>2. IsSlice(Upper(s, d), t[x].rng, keys, i + 1)
          BY <1>2, <1>3, <1>4, <1>5, SlicesAround
        <4> QED
          BY <1>3, <1>4, <1>7, <3>3, <4>1, <4>2
      <3>4. CASE j > i + 1
        <4> DEFINE l == j - 1
        <4>1. l \in 1 .. Len(c) /\ l # i /\ l > i /\ kids[j] = c[l] /\ l \in 1 .. Len(k) + 1 /\ l + 1 = j
          BY <1>2, <3>0, <3>4
        <4> HIDE DEF l
        <4>2. /\ Keeps(t, u, c[l]) /\ t[c[l]].lev = t[x].lev - 1
              /\ IsSlice(t[c[l]].rng, t[x].rng, k, l)
          BY <2>2, <4>1
        <4>3. IsSlice(t[c[l]].rng, t[x].rng, keys, l + 1)
          BY <1>2, <1>4, <1>5, <4>1, <4>2, SlicesAround
        <4> QED
          BY <4>1, <4>2, <4>3 DEF Keeps
      <3> QED
        BY <1>2, <3>0, <3>1, <3>2, <3>3, <3>4
    <2>4. Len(keys) > 0 /\ Len(kids) = Len(keys) + 1
      BY <1>2, <1>9, <2>1
    <2>5. ASSUME NEW j \in DOMAIN kids
          PROVE  u[kids[j]].lev = t[x].lev - 1 /\ u[kids[j]].rng = Slice(t[x].rng, keys, j)
      <3>1. j \in 1 .. Len(kids)
        BY <2>1
      <3> QED
        BY <2>3, <3>1 DEF IsSlice
    <2> QED
      BY <1>7, <2>1, <2>4, <2>5 DEF HasKids
  <1>12. ASSUME NEW n, n = left \/ n = right
         PROVE  IsNode(u, n, R)
    <2>1. IsNode(t, n, R) /\ n.lev = t[p].lev
      BY <1>4, <1>12
    <2>2. CASE n.lev = 0
      BY <2>1, <2>2 DEF IsNode
    <2>3. CASE n.lev > 0
      <3>1. HasKids(t, n)
        BY <2>1, <2>3 DEF IsNode
      <3>2. \A j \in 1 .. Len(n.kids) : Keeps(t, u, n.kids[j])
        <4> SUFFICES ASSUME NEW j \in 1 .. Len(n.kids)
                     PROVE  Keeps(t, u, n.kids[j])
          OBVIOUS
        <4>1. n.kids[j] \in DOMAIN t /\ t[n.kids[j]].lev = n.lev - 1
          BY <3>1 DEF HasKids
        <4>2. n.kids[j] # p
          BY <1>1, <2>1, <4>1
        <4> QED
          BY <1>8, <4>1, <4>2
      <3>3. HasKids(u, n)
        BY <1>7, <3>1, <3>2, KidsKept
      <3> QED
        BY <2>1, <2>3, <3>3 DEF IsNode
    <2> QED
      BY <1>1, <2>1, <2>2, <2>3
  <1>13. ASSUME NEW y \in DOMAIN t \ {p, x}
         PROVE  IsNode(u, t[y], R)
    <2>1. IsNode(t, t[y], R) /\ t[y].lev \in Nat
      BY DEF IsTree, IsNode, IsNodeData
    <2>2. CASE t[y].lev = 0
      BY <2>1, <2>2 DEF IsNode
    <2>3. CASE t[y].lev > 0
      <3>1. HasKids(t, t[y])
        BY <2>1, <2>3 DEF IsNode
      <3>2. \A j \in 1 .. Len(t[y].kids) : Keeps(t, u, t[y].kids[j])
        <4> SUFFICES ASSUME NEW j \in 1 .. Len(t[y].kids)
                     PROVE  Keeps(t, u, t[y].kids[j])
          OBVIOUS
        <4>1. t[y].kids[j] \in DOMAIN t /\ j \in DOMAIN t[y].kids
          BY <3>1 DEF HasKids
        <4>2. t[y].kids[j] # p
          BY <1>13, <2>3, <4>1, OneParent
        <4> QED
          BY <1>8, <4>1, <4>2
      <3>3. HasKids(u, t[y])
        BY <1>7, <3>1, <3>2, KidsKept
      <3> QED
        BY <2>1, <2>3, <3>3 DEF IsNode
    <2> QED
      BY <2>1, <2>2, <2>3
  <1>14. \A y \in DOMAIN u : IsNode(u, u[y], R)
    <2>1. IsNode(u, u[x], R)
      BY <1>1, <1>7, <1>10, <1>11 DEF IsNode
    <2> QED
      BY <1>6, <1>7, <1>12, <1>13, <2>1
  <1>15. \A y, z \in DOMAIN u : y # z => LevelApart(u[y], u[z])
    <2>1. \A y, z \in DOMAIN t : y # z => LevelApart(t[y], t[z])
      BY DEF IsTree
    <2>2. left.rng \subseteq s /\ right.rng \subseteq s /\ left.rng \cap right.rng = {}
      <3>1. s \subseteq Nat
        BY <1>1 DEF IsNodeData
      <3> QED
        BY <1>4, <3>1 DEF Lower, Upper
    <2>3. LevelApart(left, right) /\ LevelApart(right, left)
      BY <2>2 DEF LevelApart
    <2>4. ASSUME NEW y \in DOMAIN t \ {p}
          PROVE  /\ LevelApart(left, u[y]) /\ LevelApart(u[y], left)
                 /\ LevelApart(right, u[y]) /\ LevelApart(u[y], right)
      <3>1. LevelApart(t[p], t[y]) /\ u[y].lev = t[y].lev /\ u[y].rng = t[y].rng
        BY <1>8, <2>1, <2>4 DEF Keeps
      <3> QED
        BY <1>4, <2>2, <3>1 DEF LevelApart
    <2>5. ASSUME NEW y \in DOMAIN t \ {p}, NEW z \in DOMAIN t \ {p}, y # z
          PROVE  LevelApart(u[y], u[z])
      <3>1. /\ LevelApart(t[y], t[z]) /\ u[y].lev = t[y].lev /\ u[y].rng = t[y].rng
            /\ u[z].lev = t[z].lev /\ u[z].rng = t[z].rng
        BY <1>8, <2>1, <2>5 DEF Keeps
      <3> QED
        BY <3>1 DEF LevelApart
    <2> QED
      BY <1>6, <1>7, <2>3, <2>4, <2>5
  <1>16. u[Root].rng = Nat /\ u[Root].lev = t[Root].lev /\ Root \in DOMAIN u
    BY <1>6, <1>7, <1>8 DEF IsTree, Keeps
  <1>17. \A y \in DOMAIN u : u[y].lev <= u[Root].lev
    BY <1>4, <1>7, <1>8, <1>16 DEF IsTree
  <1> QED
    BY <1>14, <1>15, <1>16, <1>17 DEF IsTree

-----------------------------------------------------------------------------
\* The root made two below a new one

IsGrown(u, t, l, r, left, right, d) ==
  /\ DOMAIN u = DOMAIN t \cup {l, r} /\ u[l] = left /\ u[r] = right
  /\ u[Root].lev = t[Root].lev + 1 /\ u[Root].rng = Nat
  /\ u[Root].keys = <<d>> /\ u[Root].kids = <<l, r>>
  /\ \A y \in DOMAIN t \ {Root} : u[y] = t[y]

\* A root that becomes the parent of its two halves leaves a tree.
LEMMA RootSplit ==
  ASSUME NEW t, NEW R, IsTree(t, R), NEW l, NEW r, l # r, l \notin DOMAIN t, r \notin DOMAIN t,
         NEW d, NEW left, NEW right, Halves(t, R, t[Root], d, left, right),
         NEW u, IsGrown(u, t, l, r, left, right, d)
  PROVE  IsTree(u, R)
  <1>1. /\ Root \in DOMAIN t /\ t[Root].rng = Nat /\ IsNodeData(t[Root]) /\ t[Root].lev \in Nat
        /\ l # Root /\ r # Root
    BY DEF IsTree, IsNode, IsNodeData
  <1>2. /\ d \in Nat /\ left.lev = t[Root].lev /\ right.lev = t[Root].lev
        /\ left.rng = Lower(Nat, d) /\ right.rng = Upper(Nat, d)
        /\ IsNode(t, left, R) /\ IsNode(t, right, R)
    BY <1>1 DEF Halves
  <1>3. /\ DOMAIN u = DOMAIN t \cup {l, r} /\ u[l] = left /\ u[r] = right
        /\ u[Root].lev = t[Root].lev + 1 /\ u[Root].rng = Nat
        /\ u[Root].keys = <<d>> /\ u[Root].kids = <<l, r>>
        /\ \A y \in DOMAIN t \ {Root} : u[y] = t[y]
    BY DEF IsGrown
  <1>4. ASSUME NEW n, IsNode(t, n, R), n.lev <= t[Root].lev
        PROVE  IsNode(u, n, R)
    <2>1. n.lev \in Nat
      BY <1>4 DEF IsNode, IsNodeData
    <2>2. CASE n.lev = 0
      BY <1>4, <2>2 DEF IsNode
    <2>3. CASE n.lev > 0
      <3>1. HasKids(t, n)
        BY <1>4, <2>3 DEF IsNode
      <3>2. \A j \in 1 .. Len(n.kids) : Keeps(t, u, n.kids[j])
        <4> SUFFICES ASSUME NEW j \in 1 .. Len(n.kids)
                     PROVE  Keeps(t, u, n.kids[j])
          OBVIOUS
        <4>1. n.kids[j] \in DOMAIN t /\ t[n.kids[j]].lev = n.lev - 1
          BY <3>1 DEF HasKids
        <4>2. n.kids[j] # Root
          BY <1>1, <1>4, <2>1, <4>1
        <4> QED
          BY <1>3, <4>1, <4>2 DEF Keeps
      <3>3. HasKids(u, n)
        BY <1>3, <3>1, <3>2, KidsKept
      <3> QED
        BY <1>4, <2>3, <3>3 DEF IsNode
    <2> QED
      BY <2>1, <2>2, <2>3
  <1>5. IsNodeData(u[Root])
    <2>1. <<d>> \in Seq(Nat) /\ Sorted(<<d>>) /\ Convex(Nat) /\ \A j \in DOMAIN <<d>> : <<d>>[j] \in Nat
      BY <1>2 DEF Sorted, Convex
    <2>2. t[Root].lev + 1 \in Nat
      BY <1>1
    <2> QED
      BY <1>3, <2>1, <2>2 DEF IsNodeData
  <1>6. HasKids(u, u[Root])
    <2>1. <<l, r>> \in Seq(DOMAIN u) /\ Len(<<l, r>>) = Len(<<d>>) + 1 /\ Len(<<d>>) > 0
      BY <1>3
    <2>2. Slice(Nat, <<d>>, 1) = Lower(Nat, d) /\ Slice(Nat, <<d>>, 2) = Upper(Nat, d)
      BY <1>2 DEF Slice, Lower, Upper
    <2>3. ASSUME NEW j \in DOMAIN <<l, r>>
          PROVE  u[<<l, r>>[j]].lev = t[Root].lev /\ u[<<l, r>>[j]].rng = Slice(Nat, <<d>>, j)
      <3>1. j = 1 \/ j = 2
        BY <2>3
      <3>2. CASE j = 1
        BY <1>2, <1>3, <2>2, <3>2
      <3>3. CASE j = 2
        BY <1>2, <1>3, <2>2, <3>3
      <3> QED
        BY <3>1, <3>2, <3>3
    <2>4. t[Root].lev + 1 - 1 = t[Root].lev
      BY <1>1
    <2> QED
      <3> DEFINE n == u[Root]
      <3>1. n.lev = t[Root].lev + 1 /\ n.rng = Nat /\ n.keys = <<d>> /\ n.kids = <<l, r>>
        BY <1>3
      <3>2. ASSUME NEW j \in DOMAIN n.kids
            PROVE  u[n.kids[j]].lev = n.lev - 1 /\ IsSlice(u[n.kids[j]].rng, n.rng, n.keys, j)
        <4>1. j \in DOMAIN <<l, r>>
          BY <3>1, <3>2
        <4> HIDE DEF n
        <4>2. u[<<l, r>>[j]].lev = t[Root].lev /\ IsSlice(u[<<l, r>>[j]].rng, Nat, <<d>>, j)
          BY <2>3, <4>1 DEF IsSlice
        <4> DEFINE c == <<l, r>>
                   g == <<d>>
        <4>3. /\ n.lev = t[Root].lev + 1 /\ n.rng = Nat /\ n.keys = g /\ n.kids = c
              /\ u[c[j]].lev = t[Root].lev /\ IsSlice(u[c[j]].rng, Nat, g, j)
          BY <3>1, <4>2
        <4> HIDE DEF c, g
        <4>4. n.kids[j] = c[j] /\ n.lev - 1 = t[Root].lev
          BY <1>1, <4>3
        <4>5. IsSlice(u[n.kids[j]].rng, n.rng, n.keys, j)
          BY <4>3, <4>4
        <4> QED
          BY <4>3, <4>4, <4>5
      <3> HIDE DEF n
      <3>3. HasKids(u, n)
        BY <2>1, <3>1, <3>2 DEF HasKids, IsSlice
      <3> QED
        BY <3>3 DEF n
  <1>7. \A y \in DOMAIN u : IsNode(u, u[y], R)
    <2>1. IsNode(u, u[Root], R)
      BY <1>1, <1>3, <1>5, <1>6 DEF IsNode
    <2>2. IsNode(u, left, R) /\ IsNode(u, right, R)
      BY <1>1, <1>2, <1>4
    <2>3. \A y \in DOMAIN t : IsNode(u, t[y], R)
      BY <1>4 DEF IsTree
    <2> QED
      BY <1>3, <2>1, <2>2, <2>3
  <1>8. \A y \in DOMAIN u \ {Root} : u[y].lev <= t[Root].lev
    <2>1. \A y \in DOMAIN t : t[y].lev <= t[Root].lev
      BY DEF IsTree
    <2> QED
      BY <1>1, <1>2, <1>3, <2>1
  <1>9. \A y, z \in DOMAIN u : y # z => LevelApart(u[y], u[z])
    <2>1. \A y, z \in DOMAIN t : y # z => LevelApart(t[y], t[z])
      BY DEF IsTree
    <2>2. LevelApart(left, right) /\ LevelApart(right, left)
      <3>1. Lower(Nat, d) \cap Upper(Nat, d) = {}
        BY <1>2 DEF Lower, Upper
      <3> QED
        BY <1>2, <3>1 DEF LevelApart
    <2>3. ASSUME NEW y \in DOMAIN t \ {Root}
          PROVE  /\ LevelApart(left, u[y]) /\ LevelApart(u[y], left)
                 /\ LevelApart(right, u[y]) /\ LevelApart(u[y], right)
      <3>1. LevelApart(t[Root], t[y]) /\ u[y] = t[y]
        BY <1>1, <1>3, <2>1, <2>3
      <3>2. Lower(Nat, d) \subseteq Nat /\ Upper(Nat, d) \subseteq Nat
        BY DEF Lower, Upper
      <3> QED
        BY <1>1, <1>2, <3>1, <3>2 DEF LevelApart
    <2>4. ASSUME NEW y \in DOMAIN u \ {Root}
          PROVE  LevelApart(u[Root], u[y]) /\ LevelApart(u[y], u[Root])
      <3>1. u[y].lev \in Nat
        BY <1>7, <2>4 DEF IsNode, IsNodeData
      <3>2. u[y].lev # u[Root].lev
        BY <1>1, <1>3, <1>8, <2>4, <3>1
      <3> QED
        BY <3>2 DEF LevelApart
    <2> QED
      BY <1>3, <2>1, <2>2, <2>3, <2>4
  <1>10. \A y \in DOMAIN u : u[y].lev <= u[Root].lev
    <2>1. \A y \in DOMAIN u : u[y].lev \in Nat
      BY <1>7 DEF IsNode, IsNodeData
    <2> QED
      BY <1>1, <1>3, <1>8, <2>1
  <1> QED
    BY <1>1, <1>3, <1>7, <1>9, <1>10 DEF IsTree

-----------------------------------------------------------------------------
\* Cells and keys

KeysOf(cells) == [i \in 1 .. Len(cells) |-> cells[i].key]

\* What is in a cell.
LEMMA CellTypes ==
  ASSUME NEW cells \in Seq(CellRecords), NEW i \in 1 .. Len(cells)
  PROVE  cells[i] \in CellRecords /\ cells[i].key \in Rowids /\ cells[i].key \in Nat /\ cells[i].page \in Nat
  <1>1. cells[i] \in CellRecords
    OBVIOUS
  <1> QED
    BY <1>1, BTreeAssumption DEF CellRecords

\* The keys of cells.
LEMMA KeysOfCells ==
  ASSUME NEW cells \in Seq(CellRecords)
  PROVE  KeysOf(cells) \in Seq(Nat) /\ KeysAre(KeysOf(cells), cells)
  <1> DEFINE k == KeysOf(cells)
             n == Len(cells)
  <1>1. n \in Nat /\ \A i \in 1 .. n : cells[i].key \in Nat
    BY CellTypes
  <1>2. k = [i \in 1 .. n |-> cells[i].key]
    BY DEF KeysOf
  <1> HIDE DEF k
  <1>3. k \in [1 .. n -> Nat] /\ \A i \in 1 .. n : k[i] = cells[i].key
    BY <1>1, <1>2
  <1>4. k \in Seq(Nat) /\ Len(k) = n
    BY <1>1, <1>3
  <1> QED
    BY <1>3, <1>4 DEF k, KeysAre

\* Where a new cell goes, and what keys there are then.
LEMMA CellInserted ==
  ASSUME NEW cells \in Seq(CellRecords), NEW k \in Seq(Nat), KeysAre(k, cells),
         NEW cell \in CellRecords, \A i \in 1 .. Len(k) : k[i] # cell.key,
         NEW i, i = Place(cells, cell.key), NEW more, more = WithCell(cells, cell)
  PROVE  /\ i \in 1 .. Len(k) + 1 /\ i \in 1 .. Len(cells) + 1 /\ cell.key \in Nat
         /\ (i > 1 => k[i - 1] < cell.key) /\ (i <= Len(k) => cell.key < k[i])
         /\ Inserts(CellRecords, more, cells, i, cell) /\ Inserts(Nat, KeysOf(more), k, i, cell.key)
         /\ KeysAre(KeysOf(more), more)
  <1>1. Rowids \subseteq Nat /\ cell.key \in Nat
    BY BTreeAssumption DEF CellRecords
  <1>2. /\ i \in 1 .. Len(cells) + 1
        /\ \A j \in 1 .. Len(cells) : j < i => cells[j].key < cell.key
        /\ i <= Len(cells) => cell.key <= cells[i].key
    BY <1>1, PlaceOf
  <1>3. Len(k) = Len(cells) /\ Len(cells) \in Nat /\ \A j \in 1 .. Len(cells) : k[j] = cells[j].key /\ k[j] \in Nat
    BY DEF KeysAre
  <1>4. i > 1 => k[i - 1] < cell.key
    <2> SUFFICES ASSUME i > 1
                 PROVE  k[i - 1] < cell.key
      OBVIOUS
    <2>1. i - 1 \in 1 .. Len(cells) /\ i - 1 < i
      BY <1>2, <1>3
    <2> QED
      BY <1>2, <1>3, <2>1
  <1>5. i <= Len(k) => cell.key < k[i]
    <2> SUFFICES ASSUME i <= Len(k)
                 PROVE  cell.key < k[i]
      OBVIOUS
    <2>1. i \in 1 .. Len(cells) /\ k[i] # cell.key /\ cell.key <= k[i] /\ k[i] \in Nat
      BY <1>2, <1>3
    <2> QED
      BY <1>1, <2>1
  <1>6. Inserts(CellRecords, more, cells, i, cell)
    BY <1>1, WithCellAt DEF Inserts
  <1>7. more \in Seq(CellRecords) /\ Len(more) = Len(cells) + 1
    BY <1>6 DEF Inserts
  <1>8. KeysOf(more) \in Seq(Nat) /\ KeysAre(KeysOf(more), more)
    BY <1>7, KeysOfCells
  <1>9. Inserts(Nat, KeysOf(more), k, i, cell.key)
    <2>1. Len(KeysOf(more)) = Len(k) + 1
      BY <1>3, <1>7, <1>8 DEF KeysAre
    <2>2. ASSUME NEW j \in 1 .. Len(k) + 1
          PROVE  KeysOf(more)[j] = IF j < i THEN k[j] ELSE IF j = i THEN cell.key ELSE k[j - 1]
      <3>1. j \in 1 .. Len(more) /\ j \in 1 .. Len(cells) + 1
        BY <1>3, <1>7
      <3>2. KeysOf(more)[j] = more[j].key
        BY <1>8, <3>1 DEF KeysAre
      <3>3. more[j] = IF j < i THEN cells[j] ELSE IF j = i THEN cell ELSE cells[j - 1]
        BY <1>6, <3>1 DEF Inserts
      <3>4. (j < i => j \in 1 .. Len(cells)) /\ (j > i => j - 1 \in 1 .. Len(cells))
        BY <1>2, <1>3, <3>1
      <3> QED
        BY <1>2, <1>3, <3>2, <3>3, <3>4
    <2> QED
      BY <1>8, <2>1, <2>2 DEF Inserts
  <1> QED
    BY <1>1, <1>2, <1>3, <1>4, <1>5, <1>6, <1>8, <1>9

\* A cell less: the keys are those there were but the one.
IsRemoved(cells, k, j, less) ==
  /\ less \in Seq(CellRecords) /\ Len(less) = Len(cells) - 1
  /\ KeysOf(less) \in Seq(Nat) /\ KeysAre(KeysOf(less), less) /\ Sorted(KeysOf(less))
  /\ \A i \in 1 .. Len(less) : less[i] = IF i < j THEN cells[i] ELSE cells[i + 1]
  /\ \A i \in 1 .. Len(less) : KeysOf(less)[i] # k[j] /\ \E x \in 1 .. Len(k) : k[x] = KeysOf(less)[i]
  /\ \A x \in 1 .. Len(k) : x # j => \E i \in 1 .. Len(less) : KeysOf(less)[i] = k[x]

\* Cells with one less, and their keys.
LEMMA CellRemoved ==
  ASSUME NEW cells \in Seq(CellRecords), NEW k \in Seq(Nat), KeysAre(k, cells), Sorted(k),
         NEW j \in 1 .. Len(cells), NEW less, less = RemoveAt(cells, j)
  PROVE  IsRemoved(cells, k, j, less)
  <1>1. /\ less \in Seq(CellRecords) /\ Len(less) = Len(cells) - 1
        /\ \A i \in 1 .. Len(cells) - 1 : less[i] = IF i < j THEN cells[i] ELSE cells[i + 1]
    BY RemovedAt
  <1>2. Len(k) = Len(cells) /\ Len(cells) \in Nat /\ \A i \in 1 .. Len(cells) : k[i] = cells[i].key
    BY DEF KeysAre
  <1>3. KeysOf(less) \in Seq(Nat) /\ KeysAre(KeysOf(less), less)
    BY <1>1, KeysOfCells
  <1> DEFINE g == KeysOf(less)
             at(i) == IF i < j THEN i ELSE i + 1
  <1>4. g \in Seq(Nat) /\ Len(g) = Len(less)
    BY <1>3 DEF KeysAre
  <1>5. ASSUME NEW i \in 1 .. Len(less)
        PROVE  at(i) \in 1 .. Len(k) /\ at(i) # j /\ g[i] = k[at(i)]
    <2>1. i \in 1 .. Len(cells) - 1 /\ at(i) \in 1 .. Len(cells) /\ at(i) # j
      BY <1>1, <1>2
    <2>2. g[i] = less[i].key /\ less[i] = cells[at(i)]
      BY <1>1, <1>3, <2>1 DEF KeysAre
    <2> QED
      BY <1>2, <2>1, <2>2
  <1> HIDE DEF g
  <1>6. Sorted(g)
    <2>0. DOMAIN g = 1 .. Len(less)
      BY <1>4
    <2> SUFFICES ASSUME NEW a \in 1 .. Len(less), NEW b \in 1 .. Len(less), a < b
                 PROVE  g[a] < g[b]
      BY <2>0 DEF Sorted
    <2>1. at(a) < at(b)
      BY <1>1
    <2>2. at(a) \in 1 .. Len(k) /\ at(b) \in 1 .. Len(k) /\ g[a] = k[at(a)] /\ g[b] = k[at(b)]
      BY <1>5
    <2> HIDE DEF at
    <2> QED
      BY <2>1, <2>2, KeyOrder
  <1>7. ASSUME NEW i \in 1 .. Len(less)
        PROVE  g[i] # k[j] /\ \E x \in 1 .. Len(k) : k[x] = g[i]
    <2>1. at(i) \in 1 .. Len(k) /\ at(i) # j /\ g[i] = k[at(i)] /\ j \in 1 .. Len(k)
      BY <1>2, <1>5
    <2> HIDE DEF at
    <2> QED
      BY <2>1, KeyOrder
  <1>8. ASSUME NEW x \in 1 .. Len(k), x # j
        PROVE  \E i \in 1 .. Len(less) : g[i] = k[x]
    <2>1. CASE x < j
      <3>1. x \in 1 .. Len(less) /\ at(x) = x
        BY <1>1, <1>2, <2>1
      <3> QED
        BY <1>5, <3>1
    <2>2. CASE x > j
      <3>1. x - 1 \in 1 .. Len(less) /\ at(x - 1) = x
        BY <1>1, <1>2, <2>2
      <3>2. g[x - 1] = k[at(x - 1)]
        BY <1>5, <3>1
      <3> QED
        BY <3>1, <3>2
    <2> QED
      BY <1>2, <1>8, <2>1, <2>2
  <1> QED
    BY <1>1, <1>3, <1>6, <1>7, <1>8 DEF g, IsRemoved

\* The same piece of the cells and of the keys.
LEMMA PieceKeys ==
  ASSUME NEW cells \in Seq(CellRecords), NEW k, KeysAre(k, cells), NEW f \in Nat, NEW ac, NEW ak,
         IsPiece(CellRecords, ac, f, cells), IsPiece(Nat, ak, f, k), Len(ac) = Len(ak)
  PROVE  KeysAre(ak, ac)
  <1>1. Len(ac) \in Nat /\ Len(cells) = Len(k) /\ ac \in Seq(CellRecords)
    BY DEF IsPiece, KeysAre
  <1>2. ASSUME NEW i \in 1 .. Len(ac)
        PROVE  ak[i] = ac[i].key
    <2>1. ak[i] = k[f + i] /\ ac[i] = cells[f + i] /\ f + Len(ac) <= Len(cells)
      BY <1>1 DEF IsPiece
    <2>2. f + i \in 1 .. Len(cells)
      BY <1>1, <2>1
    <2> QED
      BY <2>1, <2>2 DEF KeysAre
  <1> QED
    BY <1>2 DEF KeysAre

-----------------------------------------------------------------------------
\* Pointers, when a page is split

\* The lower half: its cells end before the one whose child is its rightmost.
LEMMA LeftPoints ==
  ASSUME NEW n, NEW cells \in Seq(CellRecords), NEW right, NEW todo, Points(n, cells, right, todo),
         NEW h \in 1 .. Len(cells) - 1,
         NEW m, m.lev = n.lev, IsPiece(Nat, m.keys, 0, n.keys), Len(m.keys) = h,
         NEW K, IsPiece(K, m.kids, 0, n.kids), Len(m.kids) = h + 1,
         NEW some, IsPiece(CellRecords, some, 0, cells), Len(some) = h
  PROVE  Points(m, some, cells[h + 1].page, todo)
  <1>0. Len(cells) \in Nat
    OBVIOUS
  <1> SUFFICES ASSUME NEW i \in 1 .. Len(some) + 1
               PROVE  PointsTo(m, some, cells[h + 1].page, todo, i)
    BY DEF Points
  <1>1. i \in 1 .. h + 1 /\ i \in 1 .. Len(cells) + 1 /\ i <= Len(cells)
    BY <1>0
  <1>2. PointerIn(some, cells[h + 1].page, i) = PointerIn(cells, right, i)
    <2>1. CASE i <= h
      <3>1. i \in 1 .. Len(some) /\ 0 + i = i
        BY <1>1, <2>1
      <3>2. some[i] = cells[i]
        BY <3>1 DEF IsPiece
      <3> QED
        BY <1>1, <3>1, <3>2 DEF PointerIn
    <2>2. CASE i > h
      <3>1. i = h + 1 /\ ~(i <= Len(some))
        BY <1>1, <2>2
      <3> QED
        BY <1>1, <3>1 DEF PointerIn
    <2> QED
      BY <1>1, <2>1, <2>2
  <1>3. m.kids[i] = n.kids[i] /\ (i > 1 => m.kids[i - 1] = n.kids[i - 1])
    <2>1. i \in 1 .. Len(m.kids) /\ 0 + i = i /\ (i > 1 => i - 1 \in 1 .. Len(m.kids) /\ 0 + (i - 1) = i - 1)
      BY <1>1
    <2> QED
      BY <2>1 DEF IsPiece
  <1>4. i > 1 => m.keys[i - 1] = n.keys[i - 1]
    <2>1. i > 1 => i - 1 \in 1 .. Len(m.keys) /\ 0 + (i - 1) = i - 1
      BY <1>1
    <2> QED
      BY <2>1 DEF IsPiece
  <1>5. Waits(m, todo, i) <=> Waits(n, todo, i)
    BY <1>4 DEF Waits
  <1>6. PointsTo(n, cells, right, todo, i)
    BY <1>1 DEF Points
  <1>7. Waits(n, todo, i) => i > 1
    BY DEF Waits
  <1> QED
    BY <1>2, <1>3, <1>5, <1>6, <1>7 DEF PointsTo

\* The upper half: its first pointer is not one that waits.
LEMMA RightPoints ==
  ASSUME NEW n, NEW cells \in Seq(CellRecords), NEW right, NEW todo, Points(n, cells, right, todo),
         NEW h \in 1 .. Len(cells) - 1, NEW f, f = h + 1, ~Waits(n, todo, f + 1),
         NEW m, m.lev = n.lev, IsPiece(Nat, m.keys, f, n.keys), Len(m.keys) = Len(cells) - f,
         NEW K, IsPiece(K, m.kids, f, n.kids), Len(m.kids) = Len(cells) + 1 - f,
         NEW some, IsPiece(CellRecords, some, f, cells), Len(some) = Len(cells) - f
  PROVE  Points(m, some, right, todo)
  <1>0. Len(cells) \in Nat /\ f \in Nat /\ f <= Len(cells)
    OBVIOUS
  <1> SUFFICES ASSUME NEW i \in 1 .. Len(some) + 1
               PROVE  PointsTo(m, some, right, todo, i)
    BY DEF Points
  <1> DEFINE j == f + i
  <1>1. /\ i \in 1 .. Len(cells) - f + 1 /\ j \in 1 .. Len(cells) + 1 /\ j > 1 /\ j = f + i
        /\ (i <= Len(some) <=> j <= Len(cells))
        /\ (i > 1 => i - 1 \in 1 .. Len(m.keys) /\ i - 1 \in 1 .. Len(m.kids) /\ f + (i - 1) = j - 1)
        /\ i \in 1 .. Len(m.kids) /\ (i <= Len(some) => i \in 1 .. Len(some)) /\ (i = 1 => j = f + 1)
    BY <1>0
  <1> HIDE DEF j
  <1>2. PointerIn(some, right, i) = PointerIn(cells, right, j)
    <2>1. i <= Len(some) => some[i] = cells[j]
      BY <1>1 DEF IsPiece
    <2> QED
      BY <1>1, <2>1 DEF PointerIn
  <1>3. m.kids[i] = n.kids[j] /\ (i > 1 => m.kids[i - 1] = n.kids[j - 1] /\ m.keys[i - 1] = n.keys[j - 1])
    BY <1>1 DEF IsPiece
  <1>4. Waits(m, todo, i) <=> i > 1 /\ Waits(n, todo, j)
    BY <1>1, <1>3 DEF Waits
  <1>5. Waits(n, todo, j) => i > 1
    BY <1>1
  <1>6. PointsTo(n, cells, right, todo, j)
    BY <1>1 DEF Points
  <1> QED
    BY <1>2, <1>3, <1>4, <1>5, <1>6 DEF PointsTo

\* The page above: its new pointer leads to the lower half, and the one after it waits.
LEMMA ParentPoints ==
  ASSUME NEW n, NEW cells \in Seq(CellRecords), NEW right, NEW S, NEW todo \in Seq(S),
         Points(n, cells, right, todo), n.lev = Len(todo) + 1, Len(n.keys) = Len(cells),
         NEW i \in 1 .. Len(cells) + 1, NEW d, NEW p, n.kids[i] = p, NEW q,
         \A j \in 1 .. Len(n.keys) : n.keys[j] # d,
         NEW more, Inserts(CellRecords, more, cells, i, [key |-> d, page |-> p]),
         NEW m, m.lev = n.lev, Inserts(Nat, m.keys, n.keys, i, d),
         NEW K, Inserts(K, m.kids, n.kids, i + 1, q), Len(n.kids) = Len(cells) + 1,
         NEW e \in S, e.key = d, e.page = q, NEW after, after = Append(todo, e)
  PROVE  Points(m, more, right, after)
  <1>0. Len(cells) \in Nat /\ Len(more) = Len(cells) + 1 /\ Len(n.keys) = Len(cells)
    BY DEF Inserts
  <1> SUFFICES ASSUME NEW j \in 1 .. Len(more) + 1
               PROVE  PointsTo(m, more, right, after, j)
    BY DEF Points
  <1>1. Len(after) = n.lev /\ after[n.lev] = e /\ n.lev \in Nat
    BY AppendProperties
  <1>2. ASSUME NEW x \in 1 .. Len(cells) + 1
        PROVE  n.kids[x] = PointerIn(cells, right, x)
    <2>1. ~(n.lev <= Len(todo))
      OBVIOUS
    <2>2. PointsTo(n, cells, right, todo, x)
      BY DEF Points
    <2> QED
      BY <2>1, <2>2 DEF PointsTo, Waits
  <1>3. j \in 1 .. Len(cells) + 2
    BY <1>0
  <1>4. m.kids[j] = IF j < i + 1 THEN n.kids[j] ELSE IF j = i + 1 THEN q ELSE n.kids[j - 1]
    <2>1. j \in 1 .. Len(n.kids) + 1
      BY <1>0, <1>3
    <2> QED
      BY <2>1 DEF Inserts
  <1>5. j > 1 => m.keys[j - 1] = IF j - 1 < i THEN n.keys[j - 1] ELSE IF j - 1 = i THEN d ELSE n.keys[(j - 1) - 1]
    <2>1. j > 1 => j - 1 \in 1 .. Len(n.keys) + 1
      BY <1>0, <1>3
    <2> QED
      BY <2>1 DEF Inserts
  <1>6. j <= Len(more) => more[j] = IF j < i THEN cells[j] ELSE IF j = i THEN [key |-> d, page |-> p] ELSE cells[j - 1]
    <2>1. j <= Len(more) => j \in 1 .. Len(cells) + 1
      BY <1>0, <1>3
    <2> QED
      BY <2>1 DEF Inserts
  <1>7. Waits(m, after, j) <=> j = i + 1
    <2>1. Waits(m, after, j) <=> j > 1 /\ m.keys[j - 1] = d
      BY <1>1 DEF Waits
    <2>2. CASE j = i + 1
      <3>1. j > 1 /\ j - 1 = i /\ ~(j - 1 < i)
        BY <1>0, <2>2
      <3> QED
        BY <1>5, <2>1, <2>2, <3>1
    <2>3. CASE j < i + 1
      <3>1. j > 1 => j - 1 < i /\ j - 1 \in 1 .. Len(n.keys)
        BY <1>0, <1>3, <2>3
      <3> QED
        BY <1>5, <2>1, <2>3, <3>1
    <2>4. CASE j > i + 1
      <3>1. j > 1 /\ ~(j - 1 < i) /\ j - 1 # i /\ (j - 1) - 1 \in 1 .. Len(n.keys)
        BY <1>0, <1>3, <2>4
      <3> QED
        BY <1>5, <2>1, <2>4, <3>1
    <2> QED
      BY <1>3, <2>2, <2>3, <2>4
  <1>8. CASE j < i
    <2>1. j \in 1 .. Len(cells) + 1 /\ j < i + 1 /\ j # i + 1 /\ j <= Len(more) /\ j <= Len(cells)
      BY <1>0, <1>3, <1>8
    <2>2. m.kids[j] = PointerIn(cells, right, j) /\ PointerIn(more, right, j) = PointerIn(cells, right, j)
      BY <1>2, <1>4, <1>6, <1>8, <2>1 DEF PointerIn
    <2> QED
      BY <1>7, <2>1, <2>2 DEF PointsTo
  <1>9. CASE j = i
    <2>1. j < i + 1 /\ j # i + 1 /\ j <= Len(more) /\ ~(j < i)
      BY <1>0, <1>3, <1>9
    <2>2. m.kids[j] = p /\ PointerIn(more, right, j) = p
      BY <1>4, <1>6, <1>9, <2>1 DEF PointerIn
    <2> QED
      BY <1>7, <2>1, <2>2 DEF PointsTo
  <1>10. CASE j = i + 1
    <2>1. /\ ~(j < i + 1) /\ j - 1 = i /\ i \in 1 .. Len(cells) + 1 /\ ~(j < i) /\ j # i
          /\ (j <= Len(more) <=> i <= Len(cells))
      BY <1>0, <1>3, <1>10
    <2>2. m.kids[j] = q
      BY <1>4, <1>10, <2>1
    <2>3. m.kids[j - 1] = p
      <3>1. i \in 1 .. Len(n.kids) + 1 /\ i < i + 1
        BY <1>0
      <3> QED
        BY <2>1, <3>1 DEF Inserts
    <2>4. PointerIn(more, right, j) = PointerIn(cells, right, i)
      BY <1>6, <2>1 DEF PointerIn
    <2>5. PointerIn(cells, right, i) = p
      BY <1>2
    <2> QED
      BY <1>1, <1>7, <1>10, <2>2, <2>3, <2>4, <2>5 DEF PointsTo
  <1>11. CASE j > i + 1
    <2> DEFINE l == j - 1
    <2>1. /\ l \in 1 .. Len(cells) + 1 /\ ~(j < i + 1) /\ j # i + 1 /\ ~(j < i) /\ j # i
          /\ (j <= Len(more) <=> l <= Len(cells))
      BY <1>0, <1>3, <1>11
    <2>2. m.kids[j] = n.kids[l] /\ (j <= Len(more) => more[j] = cells[l])
      BY <1>4, <1>6, <2>1
    <2> HIDE DEF l
    <2>3. m.kids[j] = PointerIn(more, right, j)
      BY <1>2, <2>1, <2>2 DEF PointerIn
    <2> QED
      BY <1>7, <2>1, <2>3 DEF PointsTo
  <1> QED
    BY <1>3, <1>8, <1>9, <1>10, <1>11

\* A pointer more that waits is nothing to a node without its key.
LEMMA OthersPoint ==
  ASSUME NEW n, n.lev \in Nat, NEW cells, NEW right, NEW S, NEW todo \in Seq(S),
         Points(n, cells, right, todo), Len(n.keys) = Len(cells), Len(cells) \in Nat, NEW e \in S,
         n.lev = Len(todo) + 1 => \A j \in 1 .. Len(n.keys) : n.keys[j] # e.key, n.lev > 0
  PROVE  Points(n, cells, right, Append(todo, e))
  <1> SUFFICES ASSUME NEW i \in 1 .. Len(cells) + 1
               PROVE  PointsTo(n, cells, right, Append(todo, e), i)
    BY DEF Points
  <1>1. /\ Len(Append(todo, e)) = Len(todo) + 1 /\ Append(todo, e)[Len(todo) + 1] = e
        /\ \A j \in 1 .. Len(todo) : Append(todo, e)[j] = todo[j]
    BY AppendProperties
  <1>2. PointsTo(n, cells, right, todo, i)
    BY DEF Points
  <1>3. CASE n.lev <= Len(todo)
    <2>1. n.lev \in 1 .. Len(todo) /\ n.lev <= Len(todo) + 1
      BY <1>3
    <2>2. Waits(n, todo, i) <=> Waits(n, Append(todo, e), i)
      BY <1>1, <1>3, <2>1 DEF Waits
    <2> QED
      BY <1>1, <1>2, <2>1, <2>2 DEF PointsTo
  <1>4. CASE n.lev = Len(todo) + 1
    <2>1. ~Waits(n, todo, i)
      BY <1>4 DEF Waits
    <2>2. i > 1 => i - 1 \in 1 .. Len(n.keys)
      OBVIOUS
    <2>3. ~Waits(n, Append(todo, e), i)
      BY <1>1, <1>4, <2>2 DEF Waits
    <2> QED
      BY <1>2, <2>1, <2>3 DEF PointsTo
  <1>5. CASE n.lev > Len(todo) + 1
    <2>1. ~Waits(n, todo, i) /\ ~Waits(n, Append(todo, e), i)
      BY <1>1, <1>5 DEF Waits
    <2> QED
      BY <1>2, <2>1 DEF PointsTo
  <1> QED
    BY <1>3, <1>4, <1>5

\* A node without the key of the last pointer that waits does without it.
LEMMA OthersDone ==
  ASSUME NEW n, n.lev \in Nat, n.lev > 0, NEW cells, NEW right, NEW S, NEW todo \in Seq(S), Len(todo) > 0,
         Points(n, cells, right, todo), Len(n.keys) = Len(cells), Len(cells) \in Nat,
         n.lev = Len(todo) => \A j \in 1 .. Len(n.keys) : n.keys[j] # todo[Len(todo)].key
  PROVE  Points(n, cells, right, Front(todo))
  <1> SUFFICES ASSUME NEW i \in 1 .. Len(cells) + 1
               PROVE  PointsTo(n, cells, right, Front(todo), i)
    BY DEF Points
  <1>1. Len(Front(todo)) = Len(todo) - 1 /\ \A k \in 1 .. Len(todo) - 1 : Front(todo)[k] = todo[k]
    BY EndsOf
  <1>2. PointsTo(n, cells, right, todo, i)
    BY DEF Points
  <1>3. CASE n.lev < Len(todo)
    <2>1. n.lev \in 1 .. Len(todo) - 1 /\ n.lev <= Len(todo) /\ n.lev <= Len(todo) - 1
      BY <1>3
    <2>2. Waits(n, todo, i) <=> Waits(n, Front(todo), i)
      BY <1>1, <1>3, <2>1 DEF Waits
    <2> QED
      BY <1>1, <1>2, <2>1, <2>2 DEF PointsTo
  <1>4. CASE n.lev = Len(todo)
    <2>1. ~Waits(n, Front(todo), i)
      BY <1>1, <1>4 DEF Waits
    <2>2. i > 1 => i - 1 \in 1 .. Len(n.keys)
      OBVIOUS
    <2>3. ~Waits(n, todo, i)
      BY <1>4, <2>2 DEF Waits
    <2> QED
      BY <1>2, <2>1, <2>3 DEF PointsTo
  <1>5. CASE n.lev > Len(todo)
    <2>1. ~Waits(n, todo, i) /\ ~Waits(n, Front(todo), i)
      BY <1>1, <1>5 DEF Waits
    <2> QED
      BY <1>2, <2>1 DEF PointsTo
  <1> QED
    BY <1>3, <1>4, <1>5

\* The pointer that waits is set.
LEMMA PointerSet ==
  ASSUME NEW n, n.lev \in Nat, n.lev > 0, NEW cells \in Seq(CellRecords), NEW right, NEW S, NEW todo \in Seq(S),
         Len(todo) = n.lev, Points(n, cells, right, todo),
         n.keys \in Seq(Nat), Sorted(n.keys), Len(n.keys) = Len(cells),
         NEW a \in 1 .. Len(cells), n.keys[a] = todo[n.lev].key,
         NEW some, Len(some) = Len(cells), NEW last,
         \A i \in 1 .. Len(cells) + 1 : PointerIn(some, last, i) =
            IF i = a + 1 THEN todo[n.lev].page ELSE PointerIn(cells, right, i)
  PROVE  Points(n, some, last, Front(todo))
  <1> SUFFICES ASSUME NEW i \in 1 .. Len(cells) + 1
               PROVE  PointsTo(n, some, last, Front(todo), i)
    BY DEF Points
  <1>1. Len(Front(todo)) = Len(todo) - 1
    BY EndsOf
  <1>2. ~Waits(n, Front(todo), i)
    BY <1>1 DEF Waits
  <1>3. PointsTo(n, cells, right, todo, i)
    BY DEF Points
  <1>4. Waits(n, todo, i) <=> i = a + 1
    <2>1. Waits(n, todo, i) <=> i > 1 /\ n.keys[i - 1] = n.keys[a]
      BY DEF Waits
    <2>2. i > 1 => i - 1 \in 1 .. Len(n.keys) /\ a \in 1 .. Len(n.keys)
      OBVIOUS
    <2>3. i > 1 => (i - 1 = a <=> n.keys[i - 1] = n.keys[a])
      BY <2>2, KeyOrder
    <2> QED
      BY <2>1, <2>3
  <1>5. n.kids[i] = IF i = a + 1 THEN todo[n.lev].page ELSE PointerIn(cells, right, i)
    BY <1>3, <1>4 DEF PointsTo
  <1> QED
    BY <1>2, <1>5 DEF PointsTo

-----------------------------------------------------------------------------
\* Room

\* Even page 1 has room for a header, and for two cells if it is interior.
PagesHaveRoom ==
  0 <= Room(1, "leaf") /\ 2 * (DividerSize + PtrSize) <= Room(1, "interior")

\* How much room a page has: page 1 has least.
LEMMA RoomTypes ==
  ASSUME PagesHaveRoom, NEW p, NEW kind
  PROVE  /\ Room(p, kind) \in Int /\ 0 <= Room(p, kind)
         /\ Room(1, kind) <= Room(p, kind)
         /\ PtrSize \in Nat /\ DividerSize \in Nat
         /\ kind # "leaf" => 2 * (DividerSize + PtrSize) <= Room(p, kind)
  <1>1. /\ PageSize \in Nat /\ DbHeader \in Nat /\ LeafHeader \in Nat /\ InteriorHeader \in Nat
        /\ PtrSize \in Nat /\ DividerSize \in Nat
    BY BTreeAssumption
  <1>2. 0 <= PageSize - DbHeader - LeafHeader
    BY <1>1 DEF PagesHaveRoom, Room
  <1>3. 2 * (DividerSize + PtrSize) <= PageSize - DbHeader - InteriorHeader
    BY <1>1 DEF PagesHaveRoom, Room
  <1>4. DividerSize + PtrSize \in Nat /\ 2 * (DividerSize + PtrSize) \in Nat
    BY <1>1
  <1>5. CASE kind = "leaf"
    BY <1>1, <1>2, <1>5 DEF Room
  <1>6. CASE kind # "leaf"
    <2>1. Room(1, kind) = PageSize - DbHeader - InteriorHeader
      BY <1>1, <1>6 DEF Room
    <2>2. Room(p, kind) = PageSize - DbHeader - InteriorHeader \/ Room(p, kind) = PageSize - InteriorHeader
      BY <1>1, <1>6 DEF Room
    <2> DEFINE two == 2 * (DividerSize + PtrSize)
    <2>3. two \in Nat /\ two <= PageSize - DbHeader - InteriorHeader
      BY <1>3, <1>4
    <2> HIDE DEF two
    <2>4. two <= Room(p, kind) /\ 0 <= Room(p, kind) /\ Room(1, kind) <= Room(p, kind) /\ Room(p, kind) \in Int
      BY <1>1, <2>1, <2>2, <2>3
    <2> QED
      BY <1>1, <2>4 DEF two
  <1> QED
    BY <1>5, <1>6

-----------------------------------------------------------------------------
\* The bytes of cells

\* What FoldSeq defines to add up the sizes of cells.
Picked(s) == CHOOSE x \in s : TRUE

Sizing(kind, cells, iter) ==
  [s \in SUBSET DOMAIN cells |->
     IF s = {} THEN 0 ELSE CellSize(kind, cells[Picked(s)]) + iter[s \ {Picked(s)}]]

Sizes(kind, cells) == CHOOSE iter : iter = Sizing(kind, cells, iter)

\* The bytes of cells are the fold over all their indices.
LEMMA BytesAreSizes ==
  ASSUME NEW kind, NEW cells
  PROVE  Bytes(kind, cells) = Sizes(kind, cells)[DOMAIN cells]
  BY DEF Bytes, FoldSeq, FoldFunction, FoldFunctionOnSet, MapThenFoldSet, Sizes, Sizing, Picked

\* The bytes of cells are a number, and on an interior page that of as many dividers.
LEMMA BytesAre ==
  ASSUME NEW kind, NEW cells \in Seq(CellRecords)
  PROVE  Bytes(kind, cells) \in Nat /\ (kind = "interior" => Bytes(kind, cells) = DividerSize * Len(cells))
  <1> DEFINE D == DOMAIN cells
             w == [s \in SUBSET D |-> IF s = {} THEN 0 ELSE CellSize(kind, cells[Picked(s)])]
             out == [s \in SUBSET D |-> IF s = {} THEN {} ELSE s \ {Picked(s)}]
  <1>1. D = 1 .. Len(cells) /\ Len(cells) \in Nat /\ IsFiniteSet(D) /\ Cardinality(D) = Len(cells)
    <2>1. D = 1 .. Len(cells) /\ Len(cells) \in Nat
      OBVIOUS
    <2> HIDE DEF D
    <2>2. IsFiniteSet(1 .. Len(cells)) /\ Cardinality(1 .. Len(cells)) = IF 1 > Len(cells) THEN 0 ELSE Len(cells) - 1 + 1
      BY <2>1, FS_Interval
    <2> QED
      BY <2>1, <2>2
  <1>2. \A s \in SUBSET D : s # {} => Picked(s) \in s
    BY DEF Picked
  <1>3. ASSUME NEW x \in D
        PROVE  CellSize(kind, cells[x]) \in Nat
    <2>1. cells[x].key \in Rowids
      BY <1>1, <1>3, CellTypes
    <2> QED
      BY <2>1, BTreeAssumption DEF CellSize
  <1>4. Weighs(D, w, out)
    <2>1. w \in [SUBSET D -> Nat]
      <3> SUFFICES ASSUME NEW s \in SUBSET D, s # {}
                   PROVE  CellSize(kind, cells[Picked(s)]) \in Nat
        OBVIOUS
      <3>1. Picked(s) \in D
        BY <1>2
      <3> QED
        BY <1>3, <3>1
    <2>2. out \in [SUBSET D -> SUBSET D] /\ \A s \in SUBSET D : s # {} => out[s] # s /\ out[s] \subseteq s
      BY <1>2
    <2> QED
      BY <2>1, <2>2 DEF Weighs
  <1>5. PICK f \in [SUBSET D -> Nat] : f = [s \in SUBSET D |-> IF s = {} THEN 0 ELSE w[s] + f[out[s]]]
    <2> HIDE DEF D, w, out
    <2>1. Weighed(D, w, out)
      BY <1>1, <1>4, SetRecursion
    <2> QED
      BY <2>1 DEF Weighed
  <1>6. f = Sizing(kind, cells, f)
    <2>1. ASSUME NEW s \in SUBSET D
          PROVE  f[s] = IF s = {} THEN 0 ELSE CellSize(kind, cells[Picked(s)]) + f[s \ {Picked(s)}]
      <3>1. f[s] = IF s = {} THEN 0 ELSE w[s] + f[out[s]]
        BY <1>5
      <3> QED
        BY <3>1
    <2>2. f = [s \in SUBSET D |-> f[s]]
      OBVIOUS
    <2> QED
      BY <2>1, <2>2 DEF Sizing
  <1> DEFINE g == Sizes(kind, cells)
  <1>7. g = Sizing(kind, cells, g)
    BY <1>6 DEF Sizes
  <1> HIDE DEF g
  <1>8. \A s \in SUBSET D : g[s] = IF s = {} THEN 0 ELSE CellSize(kind, cells[Picked(s)]) + g[s \ {Picked(s)}]
    <2>1. ASSUME NEW h, h = Sizing(kind, cells, g), NEW s \in SUBSET D
          PROVE  h[s] = IF s = {} THEN 0 ELSE CellSize(kind, cells[Picked(s)]) + g[s \ {Picked(s)}]
      BY <2>1 DEF Sizing
    <2> QED
      BY <1>7, <2>1
  <1> HIDE DEF D, w, out
  <1>9. \A s \in SUBSET D : IsFiniteSet(s) /\ Cardinality(s) \in Nat
    BY <1>1, FS_Subset, FS_CardinalityType
  <1> DEFINE S == {n \in Nat : \A s \in SUBSET D : Cardinality(s) = n =>
                      g[s] \in Nat /\ (kind = "interior" => g[s] = DividerSize * n)}
  <1>10. 0 \in S
    <2>1. DividerSize * 0 = 0
      BY BTreeAssumption
    <2>2. ASSUME NEW s \in SUBSET D, Cardinality(s) = 0
          PROVE  g[s] = 0
      <3>1. s = {}
        BY <1>9, <2>2, FS_EmptySet
      <3> QED
        BY <1>8, <3>1
    <2> QED
      BY <2>1, <2>2
  <1>11. ASSUME NEW n \in Nat, n \in S
         PROVE  n + 1 \in S
    <2>1. ASSUME NEW s \in SUBSET D, Cardinality(s) = n + 1
          PROVE  g[s] \in Nat /\ (kind = "interior" => g[s] = DividerSize * (n + 1))
      <3>1. s # {}
        <4>1. Cardinality({}) = 0 /\ n + 1 # 0
          BY FS_EmptySet
        <4> QED
          BY <2>1, <4>1
      <3> DEFINE x == Picked(s)
                 rest == s \ {x}
      <3>2. x \in s /\ x \in D
        BY <1>2, <3>1
      <3>3. g[s] = CellSize(kind, cells[x]) + g[rest]
        BY <1>8, <3>1
      <3> HIDE DEF x
      <3>4. rest \in SUBSET D /\ Cardinality(rest) = n
        <4>1. Cardinality(rest) = Cardinality(s) - 1
          BY <1>9, <3>2, FS_RemoveElement
        <4> QED
          BY <2>1, <4>1
      <3>5. g[rest] \in Nat /\ (kind = "interior" => g[rest] = DividerSize * n)
        BY <1>11, <3>4
      <3>6. CellSize(kind, cells[x]) \in Nat
        BY <1>3, <3>2
      <3>7. kind = "interior" => CellSize(kind, cells[x]) = DividerSize
        BY DEF CellSize
      <3>8. DividerSize * (n + 1) = DividerSize + DividerSize * n
        BY BTreeAssumption
      <3> HIDE DEF rest
      <3> QED
        BY <3>3, <3>5, <3>6, <3>7, <3>8
    <2> QED
      BY <2>1
  <1>12. Len(cells) \in S
    <2> HIDE DEF S
    <2> QED
      BY <1>1, <1>10, <1>11, Induction
  <1>13. g[D] \in Nat /\ (kind = "interior" => g[D] = DividerSize * Len(cells))
    BY <1>1, <1>12
  <1> QED
    BY <1>13, BytesAreSizes DEF g, D

-----------------------------------------------------------------------------
\* Pages written anew

Takes(p, kind, cells) == Bytes(kind, cells) + PtrSize * Len(cells) <= Room(p, kind)

\* A page that has room for the cells gets them all.
LEMMA RewrittenTakes ==
  ASSUME NEW p, NEW kind, NEW cells \in Seq(CellRecords), NEW right, Takes(p, kind, cells)
  PROVE  Rewritten(p, kind, cells, right) =
           [kind |-> kind, cells |-> cells, used |-> Bytes(kind, cells), right |-> right]
  <1> DEFINE fit == {k \in 0 .. Len(cells) :
                Bytes(kind, SubSeq(cells, 1, k)) + PtrSize * k <= Room(p, kind)}
             n == Len(cells)
  <1>1. n \in Nat /\ n \in 0 .. n
    OBVIOUS
  <1>2. SubSeq(cells, 1, n) = cells
    <2>1. IsPiece(CellRecords, SubSeq(cells, 1, n), 0, cells) /\ Len(SubSeq(cells, 1, n)) = n
      BY <1>1, StartOf
    <2> DEFINE a == SubSeq(cells, 1, n)
    <2> HIDE DEF a
    <2>2. a \in Seq(CellRecords) /\ Len(a) = Len(cells) /\ \A k \in 1 .. Len(cells) : a[k] = cells[k]
      BY <2>1 DEF IsPiece, a
    <2>3. a = cells
      BY <2>2, SeqEqual
    <2> QED
      BY <2>3 DEF a
  <1>3. n \in fit
    BY <1>1, <1>2 DEF Takes
  <1>4. \A k \in fit : k \in Nat /\ k <= n
    BY <1>1
  <1> HIDE DEF fit
  <1>5. Max(fit) = n
    <2>1. \E x \in fit : \A y \in fit : x >= y
      BY <1>1, <1>3, <1>4
    <2>2. Max(fit) \in fit /\ \A y \in fit : Max(fit) >= y
      BY <2>1 DEF Max
    <2> QED
      BY <1>1, <1>3, <1>4, <2>2
  <1> QED
    BY <1>2, <1>5 DEF Rewritten, fit

-----------------------------------------------------------------------------
\* How a full page is dealt

\* A leaf keeps all its cells; the first of the right half is the divider.
LeafDeal(plan, cells, m) ==
  plan = [left |-> SubSeq(cells, 1, m), leftLast |-> 0,
          right |-> SubSeq(cells, m + 1, Len(cells)), rightLast |-> 0,
          divider |-> cells[m + 1].key]

\* An interior page gives one up.
InteriorDeal(plan, cells, last, h) ==
  plan = [left |-> SubSeq(cells, 1, h), leftLast |-> cells[h + 1].page,
          right |-> SubSeq(cells, h + 2, Len(cells)), rightLast |-> last,
          divider |-> cells[h + 1].key]

\* With four cells or more, both halves of a leaf have cells.
LEMMA LeafDealt ==
  ASSUME NEW cells \in Seq(CellRecords), Len(cells) > 3
  PROVE  \E m \in 1 .. Len(cells) - 1 : LeafDeal(LeafPlan(cells), cells, m)
  <1> DEFINE n == Len(cells)
             h == (n + 1) \div 2
             at == {h, n - 1}
  <1>1. n \in Nat /\ n > 3
    OBVIOUS
  <1> HIDE DEF n
  <1>2. h \in 1 .. n - 2
    BY <1>1
  <1> HIDE DEF h
  <1>3. Min(at) = h
    <2>1. h \in at /\ \A y \in at : h <= y
      BY <1>1, <1>2
    <2>2. Min(at) \in at /\ \A y \in at : Min(at) <= y
      BY <2>1 DEF Min
    <2>3. \A y \in at : y \in Int
      BY <1>1, <1>2
    <2> QED
      BY <2>1, <2>2, <2>3
  <1>4. (IF n = 1 THEN 0 ELSE Min(at)) = h
    BY <1>1, <1>3
  <1>5. LeafPlan(cells) =
          [left |-> SubSeq(cells, 1, h + 1), leftLast |-> 0,
           right |-> SubSeq(cells, h + 2, n), rightLast |-> 0,
           divider |-> cells[IF h < n - 1 THEN h + 2 ELSE h + 1].key]
    BY <1>4 DEF LeafPlan, n, h
  <1>6. h + 1 \in 1 .. n - 1 /\ (h + 1) + 1 = h + 2 /\ h < n - 1
    BY <1>1, <1>2
  <1>7. LeafDeal(LeafPlan(cells), cells, h + 1)
    BY <1>5, <1>6 DEF LeafDeal, n
  <1> QED
    BY <1>6, <1>7 DEF n

\* With three cells or more, both halves of an interior page have cells.
LEMMA InteriorDealt ==
  ASSUME NEW cells, Len(cells) \in Nat, Len(cells) > 2, NEW pg
  PROVE  \E h \in 1 .. Len(cells) - 2 :
           /\ InteriorDeal(InteriorPlan(pg, cells), cells, pg.right, h)
           /\ Len(cells) - h - 1 \in 1 .. Len(cells) - 1
  <1> DEFINE h == Len(cells) \div 2
  <1>1. h \in 1 .. Len(cells) - 2 /\ Len(cells) - h - 1 \in 1 .. Len(cells) - 1
    OBVIOUS
  <1>2. InteriorDeal(InteriorPlan(pg, cells), cells, pg.right, h)
    BY DEF InteriorDeal, InteriorPlan
  <1> QED
    BY <1>1, <1>2

-----------------------------------------------------------------------------
\* What the halves take

\* No page has less room than page 1, and page 1 alone has less than others.
LEMMA RoomElsewhere ==
  ASSUME PagesHaveRoom, NEW p, NEW kind, NEW q, q = p \/ q # 1
  PROVE  Room(p, kind) <= Room(q, kind)
  <1>1. /\ PageSize \in Nat /\ DbHeader \in Nat /\ LeafHeader \in Nat /\ InteriorHeader \in Nat
    BY BTreeAssumption
  <1> QED
    BY <1>1 DEF Room

\* Fewer cells of an interior page take less than more.
LEMMA InteriorTakes ==
  ASSUME PagesHaveRoom, NEW cells \in Seq(CellRecords), NEW some \in Seq(CellRecords),
         Len(some) <= Len(cells), NEW p, NEW q, q = p \/ q # 1,
         DividerSize * Len(cells) + PtrSize * Len(cells) <= Room(p, "interior")
  PROVE  Takes(q, "interior", some)
  <1> DEFINE a == Len(some)
             b == Len(cells)
  <1>1. a \in Nat /\ b \in Nat /\ a <= b /\ PtrSize \in Nat /\ DividerSize \in Nat
    BY BTreeAssumption
  <1>2. Bytes("interior", some) = DividerSize * a
    BY BytesAre
  <1>3. Room(p, "interior") <= Room(q, "interior") /\ Room(p, "interior") \in Int /\ Room(q, "interior") \in Int
    BY RoomElsewhere, RoomTypes
  <1> HIDE DEF a, b
  <1>4. PICK c \in Nat : b = a + c
    <2>1. b - a \in Nat /\ b = a + (b - a)
      BY <1>1
    <2> QED
      BY <2>1
  <1>5. DividerSize * b = DividerSize * a + DividerSize * c /\ PtrSize * b = PtrSize * a + PtrSize * c
    BY <1>1, <1>4
  <1>6. /\ DividerSize * a \in Nat /\ DividerSize * c \in Nat /\ PtrSize * a \in Nat /\ PtrSize * c \in Nat
    BY <1>1, <1>4
  <1>7. DividerSize * b + PtrSize * b <= Room(p, "interior")
    BY DEF b
  <1>8. DividerSize * a + PtrSize * a <= Room(q, "interior")
    <2> DEFINE da == DividerSize * a
               dc == DividerSize * c
               pa == PtrSize * a
               pc == PtrSize * c
    <2>1. da \in Nat /\ dc \in Nat /\ pa \in Nat /\ pc \in Nat
          /\ (da + dc) + (pa + pc) <= Room(p, "interior")
      BY <1>5, <1>6, <1>7
    <2> HIDE DEF da, dc, pa, pc
    <2>2. da + pa <= Room(q, "interior")
      BY <1>3, <2>1
    <2> QED
      BY <2>2 DEF da, pa
  <1> QED
    BY <1>2, <1>8 DEF Takes, a

\* An interior page that is full has two cells or more.
LEMMA FullInterior ==
  ASSUME PagesHaveRoom, ArePages, NEW p \in DOMAIN pages, pages[p].kind = "interior",
         NEW cell, ~Fits(p, cell)
  PROVE  Len(pages[p].cells) > 1
  <1> DEFINE n == Len(pages[p].cells)
  <1>1. pages[p] \in PageRecords /\ IsPage(p, pages[p])
    BY DEF ArePages
  <1>2. n \in Nat /\ pages[p].used = DividerSize * n
    BY <1>1 DEF IsPage, PageRecords
  <1>3. DividerSize \in Nat /\ PtrSize \in Nat /\ 2 * (DividerSize + PtrSize) <= Room(p, "interior")
        /\ Room(p, "interior") \in Int
    BY RoomTypes
  <1>4. ~(pages[p].used + DividerSize + PtrSize * (n + 1) <= Room(p, "interior"))
    BY DEF Fits, CellSize
  <1> HIDE DEF n
  <1>5. CASE n = 0
    <2>1. DividerSize * n = 0 /\ PtrSize * (n + 1) = PtrSize
      BY <1>3, <1>5
    <2> QED
      BY <1>2, <1>3, <1>4, <2>1
  <1>6. CASE n = 1
    <2>1. DividerSize * n = DividerSize /\ PtrSize * (n + 1) = 2 * PtrSize
      BY <1>3, <1>6
    <2> QED
      BY <1>2, <1>3, <1>4, <2>1
  <1>7. n > 1 => Len(pages[p].cells) > 1
    BY DEF n
  <1> QED
    BY <1>2, <1>5, <1>6, <1>7

-----------------------------------------------------------------------------
\* What a full page becomes

\* The cells of one half and what is right of them; the half can go to the
\* page that is split and to any page but the first.
IsHalf(p, kind, cells, last) ==
  /\ cells \in Seq(CellRecords) /\ Len(cells) > 0
  /\ last \in Nat /\ (kind = "leaf" => last = 0)
  /\ \A q : q = p \/ q # 1 => Takes(q, kind, cells)

\* The plan makes node n of page p two.
IsDealt(t, R, n, plan, p, kind, todo, head, left, right) ==
  /\ Halves(t, R, n, plan.divider, left, right) /\ plan.divider \in Rowids
  /\ n.lev > 0 => \A i \in 1 .. Len(n.keys) :
                    n.keys[i] \in {plan.divider} \cup Range(left.keys) \cup Range(right.keys)
  /\ IsHalf(p, kind, plan.left, plan.leftLast) /\ IsHalf(p, kind, plan.right, plan.rightLast)
  /\ Shows(left, kind, plan.left, plan.leftLast, todo, head)
  /\ Shows(right, kind, plan.right, plan.rightLast, todo, head)

\* A full leaf becomes two.
LEMMA LeafIsDealt ==
  ASSUME PagesHaveRoom, NEW t, NEW R, NEW n, IsNode(t, n, R), n.lev = 0,
         NEW cells \in Seq(CellRecords), Len(cells) > 3, NEW p, NEW pg, pg.kind = "leaf",
         NEW todo, NEW head, Shows(n, "leaf", cells, pg.right, todo, head),
         Fitting(p, LeafPlan(cells).left), Fitting(p, LeafPlan(cells).right)
  PROVE  \E left, right : IsDealt(t, R, n, Plan(pg, cells), p, "leaf", todo, head, left, right)
  <1> DEFINE plan == LeafPlan(cells)
             L == Len(cells)
  <1>1. PICK m \in 1 .. L - 1 : LeafDeal(plan, cells, m)
    BY LeafDealt
  <1>2. L \in Nat /\ L > 3 /\ Plan(pg, cells) = plan
    BY DEF Plan
  <1>3. Len(n.keys) = L /\ n.keys \in Seq(Nat) /\ KeysAre(n.keys, cells) /\ HeadsAre(cells, head)
    BY DEF Shows, KeysAre, IsNode, IsNodeData
  <1> DEFINE left == LeftLeaf(n, m)
             right == RightLeaf(n, m)
             k == n.keys
  <1>4. /\ plan.left = SubSeq(cells, 1, m) /\ plan.leftLast = 0
        /\ plan.right = SubSeq(cells, m + 1, L) /\ plan.rightLast = 0
        /\ plan.divider = cells[m + 1].key
    BY <1>1 DEF LeafDeal
  <1> HIDE DEF plan
  <1>5. /\ IsPiece(CellRecords, plan.left, 0, cells) /\ Len(plan.left) = m
        /\ IsPiece(CellRecords, plan.right, m, cells) /\ Len(plan.right) = L - m
    <2> DEFINE j == m + 1
    <2>1. m \in 0 .. L /\ j = m + 1
      BY <1>1, <1>2
    <2> HIDE DEF j
    <2>2. IsPiece(CellRecords, SubSeq(cells, 1, m), 0, cells) /\ Len(SubSeq(cells, 1, m)) = m
      BY <2>1, StartOf
    <2>3. /\ IsPiece(CellRecords, SubSeq(cells, j, Len(cells)), m, cells)
          /\ Len(SubSeq(cells, j, Len(cells))) = Len(cells) - m
      BY <2>1, RestOf
    <2> QED
      BY <1>4, <2>2, <2>3 DEF j
  <1>6. /\ left.lev = 0 /\ left.keys = SubSeq(k, 1, m) /\ right.lev = 0
        /\ right.keys = SubSeq(k, m + 1, Len(k))
    BY DEF LeftLeaf, RightLeaf, Node
  <1>7. /\ IsPiece(Nat, left.keys, 0, k) /\ Len(left.keys) = m
        /\ IsPiece(Nat, right.keys, m, k) /\ Len(right.keys) = L - m
    <2> HIDE DEF left, right
    <2> DEFINE N == Nat
    <2> HIDE DEF N
    <2>1. m \in 0 .. Len(k) /\ m + 1 = m + 1 /\ k \in Seq(N)
      BY <1>1, <1>2, <1>3 DEF N
    <2>2. /\ IsPiece(N, SubSeq(k, 1, m), 0, k) /\ Len(SubSeq(k, 1, m)) = m
          /\ IsPiece(N, SubSeq(k, m + 1, Len(k)), m, k) /\ Len(SubSeq(k, m + 1, Len(k))) = Len(k) - m
      BY <2>1, StartOf, RestOf
    <2> QED
      BY <1>3, <1>6, <2>2 DEF N
  <1>8. plan.divider = n.keys[m + 1] /\ plan.divider \in Rowids
    <2>1. m + 1 \in 1 .. L
      BY <1>1, <1>2
    <2>2. cells[m + 1].key \in Rowids
      BY <2>1, CellTypes
    <2> QED
      BY <1>3, <1>4, <2>1, <2>2 DEF KeysAre
  <1>9. Halves(t, R, n, plan.divider, left, right)
    <2>1. m \in 1 .. Len(n.keys) - 1
      BY <1>1, <1>3
    <2>2. Halves(t, R, n, n.keys[m + 1], LeftLeaf(n, m), RightLeaf(n, m))
      BY <2>1, LeafHalves
    <2> QED
      BY <1>8, <2>2
  <1> HIDE DEF left, right
  <1>10. KeysAre(left.keys, plan.left) /\ KeysAre(right.keys, plan.right)
    <2>1. m \in Nat /\ 0 \in Nat
      BY <1>1
    <2> QED
      BY <1>3, <1>5, <1>7, <2>1, PieceKeys
  <1>11. HeadsAre(plan.left, head) /\ HeadsAre(plan.right, head)
    <2>1. ASSUME NEW a, NEW f \in Nat, IsPiece(CellRecords, a, f, cells)
          PROVE  HeadsAre(a, head)
      <3>1. a \in Seq(CellRecords) /\ Len(a) \in Nat /\ f + Len(a) <= L
            /\ \A i \in 1 .. Len(a) : a[i] = cells[f + i]
        BY <2>1 DEF IsPiece
      <3>2. \A i \in 1 .. Len(a) : f + i \in 1 .. L
        BY <1>2, <3>1
      <3> QED
        BY <1>3, <3>1, <3>2 DEF HeadsAre
    <2>2. m \in Nat /\ 0 \in Nat
      BY <1>1
    <2> QED
      BY <1>5, <2>1, <2>2
  <1>12. /\ Shows(left, "leaf", plan.left, plan.leftLast, todo, head)
         /\ Shows(right, "leaf", plan.right, plan.rightLast, todo, head)
    BY <1>6, <1>10, <1>11 DEF Shows, left, right
  <1>13. /\ plan.left \in Seq(CellRecords) /\ Len(plan.left) > 0
         /\ plan.right \in Seq(CellRecords) /\ Len(plan.right) > 0
    BY <1>1, <1>2, <1>5 DEF IsPiece
  <1>14. /\ IsHalf(p, "leaf", plan.left, plan.leftLast)
         /\ IsHalf(p, "leaf", plan.right, plan.rightLast)
    <2>1. ASSUME NEW a \in Seq(CellRecords), Fitting(p, a), NEW q, q = p \/ q # 1
          PROVE  Takes(q, "leaf", a)
      <3>1. Bytes("leaf", a) \in Nat /\ Len(a) \in Nat /\ PtrSize \in Nat
        BY BytesAre, BTreeAssumption
      <3>2. PtrSize * Len(a) \in Nat
        BY <3>1
      <3>3. Room(p, "leaf") <= Room(q, "leaf") /\ Room(p, "leaf") \in Int /\ Room(q, "leaf") \in Int
        BY <2>1, RoomElsewhere, RoomTypes
      <3>4. Bytes("leaf", a) + PtrSize * Len(a) <= Room(p, "leaf")
        BY <2>1 DEF Fitting
      <3> DEFINE b == PtrSize * Len(a)
      <3>5. b \in Nat /\ Bytes("leaf", a) + b <= Room(p, "leaf")
        BY <3>2, <3>4
      <3> HIDE DEF b
      <3>6. Bytes("leaf", a) + b <= Room(q, "leaf")
        BY <3>1, <3>3, <3>5
      <3> QED
        BY <3>6 DEF Takes, b
    <2>2. Fitting(p, plan.left) /\ Fitting(p, plan.right)
      BY DEF plan
    <2>3. /\ \A q : q = p \/ q # 1 => Takes(q, "leaf", plan.left)
          /\ \A q : q = p \/ q # 1 => Takes(q, "leaf", plan.right)
      BY <1>13, <2>1, <2>2
    <2>4. 0 \in Nat
      OBVIOUS
    <2> QED
      BY <1>4, <1>13, <2>3, <2>4 DEF IsHalf
  <1>15. IsDealt(t, R, n, plan, p, "leaf", todo, head, left, right)
    BY <1>8, <1>9, <1>12, <1>14 DEF IsDealt
  <1> QED
    BY <1>2, <1>15

\* A full interior page becomes two, if the divider it gives up is not the one
\* that came to it.
LEMMA InteriorIsDealt ==
  ASSUME PagesHaveRoom, NEW t, NEW R, NEW n, IsNode(t, n, R), n.lev > 0,
         NEW cells \in Seq(CellRecords), Len(cells) > 2,
         NEW p, DividerSize * (Len(cells) - 1) + PtrSize * (Len(cells) - 1) <= Room(p, "interior"),
         NEW pg, pg.kind = "interior", pg.right \in Nat,
         NEW todo, NEW head, Shows(n, "interior", cells, pg.right, todo, head),
         Plan(pg, cells).divider # todo[n.lev].key
  PROVE  \E left, right : IsDealt(t, R, n, Plan(pg, cells), p, "interior", todo, head, left, right)
  <1> DEFINE plan == InteriorPlan(pg, cells)
             L == Len(cells)
  <1>1. L \in Nat /\ L > 2 /\ Plan(pg, cells) = plan
    BY DEF Plan
  <1>2. PICK h \in 1 .. L - 2 : InteriorDeal(plan, cells, pg.right, h) /\ L - h - 1 \in 1 .. L - 1
    BY <1>1, InteriorDealt
  <1>3. /\ Len(n.keys) = L /\ n.keys \in Seq(Nat) /\ KeysAre(n.keys, cells)
        /\ Points(n, cells, pg.right, todo) /\ HasKids(t, n)
    BY DEF Shows, KeysAre, IsNode, IsNodeData
  <1> DEFINE left == LeftNode(n, h)
             right == RightNode(n, h)
             k == n.keys
             c == n.kids
             D == DOMAIN t
  <1>4. /\ plan.left = SubSeq(cells, 1, h) /\ plan.leftLast = cells[h + 1].page
        /\ plan.right = SubSeq(cells, h + 2, L) /\ plan.rightLast = pg.right
        /\ plan.divider = cells[h + 1].key
    <2> HIDE DEF plan
    <2>1. InteriorDeal(plan, cells, pg.right, h)
      BY <1>2
    <2> QED
      BY <2>1 DEF InteriorDeal
  <1> HIDE DEF plan
  <1> DEFINE f == h + 1
  <1>5. /\ h \in 0 .. L /\ f \in 0 .. L /\ h + 2 = f + 1 /\ h \in Nat /\ f \in Nat /\ f \in 1 .. L
        /\ h > 0 /\ L - f > 0 /\ L - f <= L - 1 /\ h <= L - 1 /\ h \in 1 .. L - 1
        /\ f \in 0 .. L + 1 /\ L - f \in Nat
    BY <1>1, <1>2
  <1>6. /\ IsPiece(CellRecords, plan.left, 0, cells) /\ Len(plan.left) = h
        /\ IsPiece(CellRecords, plan.right, f, cells) /\ Len(plan.right) = L - f
    <2> HIDE DEF f
    <2> QED
      BY <1>4, <1>5, StartOf, RestOf
  <1>7. /\ left.lev = n.lev /\ left.keys = SubSeq(k, 1, h) /\ left.kids = SubSeq(c, 1, h + 1)
        /\ right.lev = n.lev /\ right.keys = SubSeq(k, h + 2, Len(k))
        /\ right.kids = SubSeq(c, h + 2, Len(c))
    BY DEF LeftNode, RightNode, Node
  <1> HIDE DEF left, right
  <1>8. /\ IsPiece(Nat, left.keys, 0, k) /\ Len(left.keys) = h
        /\ IsPiece(Nat, right.keys, f, k) /\ Len(right.keys) = L - f
    <2> DEFINE N == Nat
    <2>1. k \in Seq(N) /\ Len(k) = L
      BY <1>3
    <2> HIDE DEF N, f
    <2>2. /\ IsPiece(N, SubSeq(k, 1, h), 0, k) /\ Len(SubSeq(k, 1, h)) = h
          /\ IsPiece(N, SubSeq(k, h + 2, Len(k)), f, k) /\ Len(SubSeq(k, h + 2, Len(k))) = Len(k) - f
      BY <1>5, <2>1, StartOf, RestOf
    <2> QED
      BY <1>7, <2>1, <2>2 DEF N
  <1>9. /\ IsPiece(D, left.kids, 0, c) /\ Len(left.kids) = h + 1
        /\ IsPiece(D, right.kids, f, c) /\ Len(right.kids) = L + 1 - f
    <2>1. c \in Seq(D) /\ Len(c) = L + 1
      BY <1>3 DEF HasKids
    <2>2. h + 1 = f
      OBVIOUS
    <2> HIDE DEF D, f
    <2>3. /\ IsPiece(D, SubSeq(c, 1, f), 0, c) /\ Len(SubSeq(c, 1, f)) = f
          /\ IsPiece(D, SubSeq(c, h + 2, Len(c)), f, c) /\ Len(SubSeq(c, h + 2, Len(c))) = Len(c) - f
      <3>1. f \in 0 .. Len(c)
        BY <1>5, <2>1
      <3> QED
        BY <1>5, <2>1, <3>1, StartOf, RestOf
    <2> HIDE DEF c
    <2> HIDE DEF L
    <2>4. Len(c) - f = L + 1 - f
      BY <1>1, <1>5, <2>1
    <2>5. left.kids = SubSeq(c, 1, h + 1) /\ right.kids = SubSeq(c, h + 2, Len(c))
      BY <1>7 DEF c
    <2> QED
      BY <2>2, <2>3, <2>4, <2>5
  <1>10. plan.divider = k[f] /\ plan.divider \in Rowids /\ plan.leftLast \in Nat
    <2>1. cells[f].key \in Rowids /\ cells[f].page \in Nat
      BY <1>5, CellTypes
    <2> QED
      BY <1>3, <1>4, <1>5, <2>1 DEF KeysAre
  <1>11. Halves(t, R, n, plan.divider, left, right)
    <2>1. h \in 1 .. Len(n.keys) - 2
      BY <1>2, <1>3
    <2>2. Halves(t, R, n, n.keys[h + 1], LeftNode(n, h), RightNode(n, h))
      BY <2>1, InteriorHalves
    <2> QED
      BY <1>10, <2>2 DEF left, right
  <1>12. KeysAre(left.keys, plan.left) /\ KeysAre(right.keys, plan.right)
    <2>1. 0 \in Nat
      OBVIOUS
    <2> HIDE DEF f, k
    <2>2. KeysAre(k, cells)
      BY <1>3 DEF k
    <2> QED
      BY <1>5, <1>6, <1>8, <2>1, <2>2, PieceKeys
  <1>13. Points(left, plan.left, plan.leftLast, todo)
    <2> HIDE DEF D
    <2> QED
      BY <1>3, <1>4, <1>5, <1>6, <1>7, <1>8, <1>9, LeftPoints
  <1>14. Points(right, plan.right, plan.rightLast, todo)
    <2>1. ~Waits(n, todo, f + 1)
      <3> DEFINE g == f + 1
      <3>1. g - 1 = f
        BY <1>5
      <3>2. k[f] # todo[n.lev].key
        BY <1>1, <1>10
      <3> HIDE DEF f, g
      <3>3. ~Waits(n, todo, g)
        BY <3>1, <3>2 DEF Waits
      <3> QED
        BY <3>3 DEF g
    <2> HIDE DEF D
    <2> QED
      BY <1>3, <1>4, <1>5, <1>6, <1>7, <1>8, <1>9, <2>1, RightPoints
  <1>15. /\ Shows(left, "interior", plan.left, plan.leftLast, todo, head)
         /\ Shows(right, "interior", plan.right, plan.rightLast, todo, head)
    <2>1. n.lev # 0 /\ n.lev > 0
      OBVIOUS
    <2> QED
      BY <1>7, <1>12, <1>13, <1>14, <2>1 DEF Shows
  <1>16. /\ plan.left \in Seq(CellRecords) /\ Len(plan.left) > 0 /\ Len(plan.left) <= L - 1
         /\ plan.right \in Seq(CellRecords) /\ Len(plan.right) > 0 /\ Len(plan.right) <= L - 1
    BY <1>5, <1>6 DEF IsPiece
  <1>17. ASSUME NEW a \in Seq(CellRecords), Len(a) <= L - 1, NEW q, q = p \/ q # 1
         PROVE  Takes(q, "interior", a)
    <2>1. L - 1 \in 0 .. L
      BY <1>1
    <2>2. SubSeq(cells, 1, L - 1) \in Seq(CellRecords) /\ Len(SubSeq(cells, 1, L - 1)) = L - 1
      <3> DEFINE j == L - 1
      <3> HIDE DEF j
      <3>1. IsPiece(CellRecords, SubSeq(cells, 1, j), 0, cells) /\ Len(SubSeq(cells, 1, j)) = j
        BY <2>1, StartOf DEF j
      <3> QED
        BY <3>1 DEF j, IsPiece
    <2> DEFINE b == SubSeq(cells, 1, L - 1)
    <2>3. b \in Seq(CellRecords) /\ Len(b) = L - 1
      BY <2>2
    <2> HIDE DEF b
    <2>4. DividerSize * Len(b) + PtrSize * Len(b) <= Room(p, "interior")
      BY <2>3
    <2>5. Len(a) <= Len(b)
      BY <1>17, <2>3
    <2> QED
      BY <1>17, <2>3, <2>4, <2>5, InteriorTakes
  <1>18. /\ IsHalf(p, "interior", plan.left, plan.leftLast)
         /\ IsHalf(p, "interior", plan.right, plan.rightLast)
    BY <1>4, <1>10, <1>16, <1>17 DEF IsHalf
  <1>19. ASSUME NEW i \in 1 .. Len(n.keys)
         PROVE  k[i] \in {plan.divider} \cup Range(left.keys) \cup Range(right.keys)
    <2>0. i \in 1 .. L
      BY <1>3, <1>19
    <2>1. CASE i < f
      <3>1. i \in 1 .. Len(left.keys) /\ left.keys \in Seq(Nat) /\ 0 + i = i
        BY <1>5, <1>8, <2>0, <2>1 DEF IsPiece
      <3>2. left.keys[i] = k[i] /\ i \in DOMAIN left.keys
        BY <1>8, <3>1 DEF IsPiece
      <3> QED
        BY <3>2 DEF Range
    <2>2. CASE i > f
      <3> DEFINE j == i - f
      <3>1. j \in 1 .. L - f /\ f + j = i
        BY <1>1, <1>5, <2>0, <2>2
      <3> HIDE DEF j, f
      <3>2. right.keys \in Seq(Nat) /\ j \in 1 .. Len(right.keys)
        BY <1>8, <3>1 DEF IsPiece
      <3>3. right.keys[j] = k[i] /\ j \in DOMAIN right.keys
        BY <1>8, <3>1, <3>2 DEF IsPiece
      <3> QED
        BY <3>3 DEF Range
    <2>3. i = f \/ i < f \/ i > f
      BY <1>5, <2>0
    <2> QED
      BY <1>10, <2>1, <2>2, <2>3
  <1>20. IsDealt(t, R, n, plan, p, "interior", todo, head, left, right)
    BY <1>10, <1>11, <1>15, <1>18, <1>19 DEF IsDealt
  <1> QED
    BY <1>1, <1>20

\* In an interior page that is split, the divider that goes up is another one
\* than the one that came to it.
LEMMA OtherDivider ==
  ASSUME NEW t, IsSplit(t), t[Last(call.path)].lev > 0
  PROVE  /\ DividerOf(Last(call.path), call.cell) # call.cell.key
         /\ call.cell.key = call.todo[t[Last(call.path)].lev].key
  <1> DEFINE n == Len(call.path)
             p == Last(call.path)
  <1>1. n \in Nat /\ n > 0 /\ p = call.path[n]
    BY DEF IsSplit, IsPath, Last
  <1>2. PICK arr : Arrives(t, call.path, arr) /\ arr[n] = call.cell
    BY DEF IsSplit
  <1> HIDE DEF n
  <1>3. ~Fits(p, call.cell) /\ n \in 1 .. n /\ \A j \in n .. n : j = n
    BY <1>1 DEF IsSplit
  <1>4. (t[call.path[n]].lev > 0 /\ \A j \in n .. n : ~Fits(call.path[j], arr[j])) =>
          DividerOf(call.path[n], arr[n]) # arr[n].key
    BY <1>1, <1>2, <1>3 DEF Arrives, n
  <1>5. DividerOf(p, call.cell) # call.cell.key
    BY <1>1, <1>2, <1>3, <1>4
  <1> QED
    BY <1>5 DEF IsSplit

\* The page that is split becomes two.
LEMMA PageIsDealt ==
  ASSUME PagesHaveRoom, ArePages, NEW t, NEW R, NEW head, IsTree(t, R), Hold(t, head),
         call.op = "split", IsSplit(t),
         NEW p, p = Last(call.path), NEW plan, plan = Plan(pages[p], WithCell(pages[p].cells, call.cell))
  PROVE  \E left, right :
           IsDealt(t, R, t[p], plan, p, pages[p].kind, call.todo, head, left, right)
  <1> DEFINE cells == WithCell(pages[p].cells, call.cell)
             L == Len(pages[p].cells)
  <1>1. p \in DOMAIN t /\ p \in InTree /\ p \in DOMAIN pages /\ p \in Nat
    <2>1. p \in DOMAIN t
      BY EndsOf DEF IsSplit, IsPath, Last
    <2> QED
      BY <2>1 DEF Hold, InTree, ArePages
  <1>2. pages[p] \in PageRecords /\ IsPage(p, pages[p]) /\ call.cell \in CellRecords
    BY <1>1 DEF ArePages, IsSplit
  <1>3. cells \in Seq(CellRecords) /\ Len(cells) = L + 1 /\ L \in Nat /\ pages[p].right \in Nat
    <2>1. pages[p].cells \in Seq(CellRecords) /\ pages[p].right \in Nat
      BY <1>2 DEF PageRecords
    <2> DEFINE c == pages[p].cells
    <2>2. c \in Seq(CellRecords) /\ Rowids \subseteq Nat /\ call.cell \in CellRecords
      BY <1>2, <2>1, BTreeAssumption
    <2> HIDE DEF c
    <2>3. WithCell(c, call.cell) \in Seq(CellRecords) /\ Len(WithCell(c, call.cell)) = Len(c) + 1
      BY <2>2, WithCellAt
    <2>4. Len(c) \in Nat
      BY <2>2
    <2> QED
      BY <2>1, <2>3, <2>4 DEF c
  <1>4. Shows(t[p], pages[p].kind, cells, pages[p].right, call.todo, head)
    <2>1. Held(p) = cells /\ Todo = call.todo
      BY DEF Held, Todo
    <2> QED
      BY <1>1, <2>1 DEF Hold, Holds
  <1>5. IsNode(t, t[p], R) /\ t[p].lev \in Nat
    BY <1>1 DEF IsTree, IsNode, IsNodeData
  <1> HIDE DEF cells
  <1> DEFINE n == t[p]
             pg == pages[p]
             todo == call.todo
  <1>6. CASE t[p].lev = 0
    <2>1. pages[p].kind = "leaf" /\ HalvesFit(p, call.cell)
      BY <1>4, <1>6 DEF Shows, IsSplit
    <2>2. /\ Len(cells) > 3 /\ Fitting(p, LeafPlan(cells).left) /\ Fitting(p, LeafPlan(cells).right)
      BY <1>3, <2>1 DEF HalvesFit, cells
    <2>3. plan = Plan(pages[p], cells)
      BY DEF cells
    <2>4. /\ IsNode(t, n, R) /\ n.lev = 0 /\ pg.kind = "leaf"
          /\ Shows(n, "leaf", cells, pg.right, todo, head)
      BY <1>4, <1>5, <1>6, <2>1
    <2> HIDE DEF n, pg, todo
    <2>5. \E left, right : IsDealt(t, R, n, Plan(pg, cells), p, "leaf", todo, head, left, right)
      BY <1>3, <2>2, <2>4, LeafIsDealt
    <2> QED
      BY <2>1, <2>3, <2>5 DEF n, pg, todo
  <1>7. CASE t[p].lev > 0
    <2>1. pages[p].kind = "interior"
      BY <1>4, <1>7 DEF Shows
    <2>2. L > 1
      BY <1>1, <2>1, FullInterior DEF IsSplit
    <2>3. Len(cells) > 2 /\ Len(cells) - 1 = L
      BY <1>3, <2>2
    <2>4. DividerSize * L + PtrSize * L <= Room(p, "interior")
      BY <1>2, <2>1 DEF IsPage
    <2>5. DividerSize * (Len(cells) - 1) + PtrSize * (Len(cells) - 1) <= Room(p, "interior")
      BY <2>3, <2>4
    <2>6. plan = Plan(pages[p], cells) /\ Plan(pages[p], cells).divider # call.todo[t[p].lev].key
      BY <1>7, OtherDivider DEF cells, DividerOf
    <2>7. /\ IsNode(t, n, R) /\ n.lev > 0 /\ pg.kind = "interior" /\ pg.right \in Nat
          /\ Shows(n, "interior", cells, pg.right, todo, head)
          /\ Plan(pg, cells).divider # todo[n.lev].key
      BY <1>3, <1>4, <1>5, <1>7, <2>1, <2>6
    <2> HIDE DEF n, pg, todo
    <2>8. \E left, right : IsDealt(t, R, n, Plan(pg, cells), p, "interior", todo, head, left, right)
      BY <1>3, <2>3, <2>5, <2>7, InteriorIsDealt
    <2> QED
      BY <2>1, <2>6, <2>8 DEF n, pg, todo
  <1> QED
    BY <1>5, <1>6, <1>7

-----------------------------------------------------------------------------
\* Pages of the tree

\* What there is to say about one page of the tree.
OfTree(t, R, head, p) ==
  /\ p \in DOMAIN pages /\ p \in Nat /\ p \in DOMAIN t /\ p \in InTree
  /\ pages[p] \in PageRecords /\ IsPage(p, pages[p])
  /\ pages[p].cells \in Seq(CellRecords) /\ pages[p].right \in Nat
  /\ IsNode(t, t[p], R) /\ IsNodeData(t[p]) /\ t[p].lev \in Nat
  /\ t[p].keys \in Seq(Nat) /\ Sorted(t[p].keys) /\ t[p].rng \subseteq Nat
  /\ Shows(t[p], pages[p].kind, Held(p), pages[p].right, Todo, head)

\* A page of the tree is of its kind and has the keys of its node.
LEMMA TreePage ==
  ASSUME ArePages, NEW t, NEW R, NEW head, IsTree(t, R), Hold(t, head), NEW p \in DOMAIN t
  PROVE  OfTree(t, R, head, p)
  <1>1. p \in InTree /\ p \in DOMAIN pages /\ p \in Nat
    BY DEF Hold, InTree, ArePages
  <1>2. pages[p] \in PageRecords /\ IsPage(p, pages[p])
    BY <1>1 DEF ArePages
  <1>3. pages[p].cells \in Seq(CellRecords) /\ pages[p].right \in Nat
    BY <1>2 DEF PageRecords
  <1>4. IsNode(t, t[p], R)
    BY DEF IsTree
  <1>5. IsNodeData(t[p]) /\ t[p].lev \in Nat /\ t[p].keys \in Seq(Nat) /\ Sorted(t[p].keys) /\ t[p].rng \subseteq Nat
    BY <1>4 DEF IsNode, IsNodeData
  <1>6. Shows(t[p], pages[p].kind, Held(p), pages[p].right, Todo, head)
    BY <1>1 DEF Hold, Holds
  <1> QED
    BY <1>1, <1>2, <1>3, <1>4, <1>5, <1>6 DEF OfTree

\* The pages of a path are of the tree, each one level below the one before.
LEMMA PathPages ==
  ASSUME NEW t, NEW R, IsTree(t, R), NEW path, IsPath(t, path)
  PROVE  /\ Len(path) \in Nat /\ Len(path) > 0 /\ Last(path) = path[Len(path)]
         /\ \A k \in 1 .. Len(path) : path[k] \in DOMAIN t /\ t[path[k]].lev \in Nat
         /\ \A j, k \in 1 .. Len(path) : j # k => t[path[j]].lev # t[path[k]].lev /\ path[j] # path[k]
         /\ \A k \in 1 .. Len(path) - 1 : t[path[k]].lev = t[path[k + 1]].lev + 1
  <1>1. Len(path) \in Nat /\ Len(path) > 0 /\ Last(path) = path[Len(path)]
    BY DEF IsPath, Last
  <1>2. ASSUME NEW k \in 1 .. Len(path)
        PROVE  path[k] \in DOMAIN t /\ t[path[k]].lev \in Nat /\ t[path[k]].lev + k = t[Root].lev + 1
    <2>1. path[k] \in DOMAIN t /\ t[path[k]].lev + k = t[Root].lev + 1
      BY <1>2 DEF IsPath
    <2> QED
      BY <2>1 DEF IsTree, IsNode, IsNodeData
  <1>3. t[Root].lev \in Nat
    BY DEF IsTree, IsNode, IsNodeData
  <1>4. ASSUME NEW j \in 1 .. Len(path), NEW k \in 1 .. Len(path), j # k
        PROVE  t[path[j]].lev # t[path[k]].lev
    BY <1>2, <1>3, <1>4
  <1>5. ASSUME NEW k \in 1 .. Len(path) - 1
        PROVE  t[path[k]].lev = t[path[k + 1]].lev + 1
    <2>1. k \in 1 .. Len(path) /\ k + 1 \in 1 .. Len(path)
      BY <1>1
    <2> DEFINE j == k + 1
    <2>2. j \in 1 .. Len(path) /\ j = k + 1 /\ j \in Nat /\ k \in Nat
      BY <2>1
    <2> HIDE DEF j
    <2>3. t[path[k]].lev \in Nat /\ t[path[j]].lev \in Nat
          /\ t[path[k]].lev + k = t[Root].lev + 1 /\ t[path[j]].lev + j = t[Root].lev + 1
      BY <1>2, <2>1, <2>2
    <2>4. PICK a, b, c : a = t[path[k]].lev /\ b = t[path[j]].lev /\ c = t[Root].lev
      OBVIOUS
    <2>5. a \in Nat /\ b \in Nat /\ c \in Nat /\ a + k = c + 1 /\ b + j = c + 1
      BY <1>3, <2>3, <2>4
    <2>6. a = b + 1
      BY <2>2, <2>5
    <2> QED
      BY <2>4, <2>6 DEF j
  <1> QED
    BY <1>1, <1>2, <1>4, <1>5

\* An overflow chain stays what it is when no overflow page is touched.
LEMMA ChainStays ==
  ASSUME ArePages, NEW r \in Rowids, NEW h \in Nat, IsChain(r, h), NEW after,
         DOMAIN pages \subseteq DOMAIN after,
         \A x \in DOMAIN pages : pages[x].kind = "overflow" => after[x] = pages[x],
         pages' = after
  PROVE  IsChain(r, h)'
  <1> DEFINE c == Payload[r].chain
  <1>1. CASE c = 0
    BY <1>1 DEF IsChain
  <1>2. CASE c # 0
    <2>1. c \in Nat
      BY BTreeAssumption
    <2>2. h \in DOMAIN pages /\ c <= h
          /\ \A x \in (h - c + 1) .. h :
               pages[x].kind = "overflow" /\ pages[x].right = IF x = h - c + 1 THEN 0 ELSE x - 1
      BY <1>2 DEF IsChain
    <2>3. h \in DOMAIN after
      BY <2>2
    <2>4. ASSUME NEW x \in (h - c + 1) .. h
          PROVE  after[x] = pages[x]
      <3>1. x \in DOMAIN pages
        <4>1. DOMAIN pages = 1 .. Len(pages) /\ Len(pages) \in Nat
          BY DEF ArePages
        <4>2. h \in 1 .. Len(pages) /\ c <= h
          BY <2>2, <4>1
        <4> HIDE DEF c
        <4> QED
          BY <2>1, <2>4, <4>1, <4>2
      <3> QED
        BY <2>2, <3>1
    <2>5. /\ h \in DOMAIN pages' /\ c <= h
          /\ \A x \in (h - c + 1) .. h :
               pages'[x].kind = "overflow" /\ pages'[x].right = IF x = h - c + 1 THEN 0 ELSE x - 1
      BY <2>2, <2>3, <2>4
    <2>6. Payload[r].chain # 0 /\ Payload[r].chain = c
      BY <1>2
    <2> HIDE DEF c
    <2> QED
      BY <2>1, <2>5, <2>6 DEF IsChain
  <1> QED
    BY <1>1, <1>2

\* The overflow chains of rows that stay.
LEMMA ChainsKept ==
  ASSUME ArePages, rows \subseteq Rowids, NEW head, AreChains(head), NEW Q \in SUBSET rows, NEW after,
         DOMAIN pages \subseteq DOMAIN after,
         \A x \in DOMAIN pages : pages[x].kind = "overflow" => after[x] = pages[x],
         rows' = Q, pages' = after
  PROVE  AreChains(head)'
  <1>1. ASSUME NEW r \in rows'
        PROVE  head[r] \in Nat /\ IsChain(r, head[r])'
    <2>1. r \in Rowids /\ head[r] \in Nat /\ IsChain(r, head[r])
      BY <1>1 DEF AreChains
    <2>2. PICK h : h = head[r]
      OBVIOUS
    <2>3. IsChain(r, h)'
      BY <2>1, <2>2, ChainStays
    <2> QED
      BY <2>1, <2>2, <2>3
  <1>2. \A r, s \in rows' : r \in rows /\ s \in rows
    OBVIOUS
  <1> QED
    BY <1>1, <1>2 DEF AreChains

-----------------------------------------------------------------------------
\* Where a divider goes

\* A number that is between two keys is no key, and has one place.
LEMMA OnePlace ==
  ASSUME NEW k \in Seq(Nat), Sorted(k), NEW d \in Nat,
         NEW i \in 1 .. Len(k) + 1, i > 1 => k[i - 1] < d, i <= Len(k) => d < k[i]
  PROVE  /\ \A j \in 1 .. Len(k) : k[j] # d
         /\ \A j \in 1 .. Len(k) + 1 :
              (j > 1 => k[j - 1] < d) /\ (j <= Len(k) => d < k[j]) => j = i
  <1> DEFINE L == Len(k)
  <1>1. L \in Nat
    OBVIOUS
  <1>2. ASSUME NEW j \in 1 .. L
        PROVE  k[j] \in Nat /\ (j < i => k[j] < d) /\ (j >= i => d < k[j])
    <2>1. k[j] \in Nat
      OBVIOUS
    <2>2. CASE j < i
      <3> DEFINE h == i - 1
      <3>1. h \in 1 .. L /\ i > 1 /\ j <= h
        BY <1>1, <2>2
      <3>2. k[h] < d
        BY <3>1
      <3> HIDE DEF h
      <3>3. k[h] \in Nat /\ (j < h => k[j] < k[h])
        BY <3>1 DEF Sorted
      <3> QED
        BY <2>1, <2>2, <3>1, <3>2, <3>3
    <2>3. CASE j >= i
      <3>1. i \in 1 .. L
        BY <1>1, <2>3
      <3>2. d < k[i] /\ k[i] \in Nat /\ (i < j => k[i] < k[j])
        BY <3>1 DEF Sorted
      <3> QED
        BY <2>1, <2>3, <3>1, <3>2
    <2> QED
      BY <1>1, <2>1, <2>2, <2>3
  <1>3. \A j \in 1 .. L : k[j] # d
    BY <1>2
  <1>4. ASSUME NEW j \in 1 .. L + 1, j > 1 => k[j - 1] < d, j <= L => d < k[j]
        PROVE  j = i
    <2>1. CASE j < i
      <3>1. j \in 1 .. L
        BY <1>1, <2>1
      <3> QED
        BY <1>2, <1>4, <2>1, <3>1
    <2>2. CASE j > i
      <3> DEFINE h == j - 1
      <3>1. h \in 1 .. L /\ h >= i /\ j > 1
        BY <1>1, <2>2
      <3>2. k[h] < d
        BY <1>4, <3>1
      <3> HIDE DEF h
      <3> QED
        BY <1>2, <3>1, <3>2
    <2> QED
      BY <1>1, <2>1, <2>2
  <1> QED
    BY <1>3, <1>4

-----------------------------------------------------------------------------
\* Pages that are written

Half(kind, cells, last) ==
  [kind |-> kind, cells |-> cells, used |-> Bytes(kind, cells), right |-> last]

Writes(q, kind, cells, last) ==
  /\ Rewritten(q, kind, cells, last) = Half(kind, cells, last)
  /\ Half(kind, cells, last) \in PageRecords /\ IsPage(q, Half(kind, cells, last))

\* A half that is written to a page is one.
LEMMA HalfWritten ==
  ASSUME NEW p, NEW kind \in {"leaf", "interior"}, NEW cells, NEW last, IsHalf(p, kind, cells, last),
         NEW q \in Nat, q = p \/ q # 1, q >= Root
  PROVE  Writes(q, kind, cells, last)
  <1>1. cells \in Seq(CellRecords) /\ last \in Nat /\ Takes(q, kind, cells) /\ (kind = "leaf" => last = 0)
    BY DEF IsHalf
  <1>2. Bytes(kind, cells) \in Nat /\ (kind = "interior" => Bytes(kind, cells) = DividerSize * Len(cells))
    BY <1>1, BytesAre
  <1>3. Rewritten(q, kind, cells, last) = Half(kind, cells, last)
    BY <1>1, RewrittenTakes DEF Half
  <1>4. Half(kind, cells, last) \in PageRecords
    BY <1>1, <1>2 DEF Half, PageRecords
  <1>5. IsPage(q, Half(kind, cells, last))
    BY <1>1, <1>2 DEF Half, IsPage, Takes
  <1> QED
    BY <1>3, <1>4, <1>5 DEF Writes

\* A page that has room for a cell is one with it.
LEMMA PutIsPage ==
  ASSUME NEW p \in DOMAIN pages, pages[p] \in PageRecords, IsPage(p, pages[p]),
         pages[p].kind \in {"leaf", "interior"}, NEW cell \in CellRecords, Fits(p, cell)
  PROVE  Put(pages[p], cell) \in PageRecords /\ IsPage(p, Put(pages[p], cell))
  <1> DEFINE c == pages[p].cells
             kind == pages[p].kind
             more == WithCell(c, cell)
             size == CellSize(kind, cell)
             u == pages[p].used
             L == Len(c)
             pg == Put(pages[p], cell)
  <1>1. c \in Seq(CellRecords) /\ u \in Nat /\ pages[p].right \in Nat /\ L \in Nat
        /\ pages[p] = [kind |-> kind, cells |-> c, used |-> u, right |-> pages[p].right]
    BY DEF PageRecords
  <1>2. more \in Seq(CellRecords) /\ Len(more) = L + 1
    <2> HIDE DEF c
    <2> QED
      BY <1>1, WithCellAt, BTreeAssumption
  <1>3. size \in Nat /\ (kind = "interior" => size = DividerSize)
    <2>1. cell.key \in Rowids
      BY DEF CellRecords
    <2> QED
      BY <2>1, BTreeAssumption DEF CellSize
  <1>4. /\ pg.kind = kind /\ pg.cells = more /\ pg.used = u + size /\ pg.right = pages[p].right
        /\ pg = [kind |-> kind, cells |-> more, used |-> u + size, right |-> pages[p].right]
    <2> HIDE DEF more, size
    <2>1. pg = [pages[p] EXCEPT !.cells = more, !.used = u + size]
      BY DEF Put, more, size
    <2> QED
      BY <1>1, <2>1
  <1>5. u + size + PtrSize * (L + 1) <= Room(p, kind)
    BY DEF Fits
  <1>6. kind = "interior" => p >= Root /\ u + size = DividerSize * (L + 1)
    <2>1. ASSUME kind = "interior"
          PROVE  p >= Root /\ u = DividerSize * L
      BY <2>1 DEF IsPage
    <2>2. DividerSize * (L + 1) = DividerSize * L + DividerSize
      BY <1>1, BTreeAssumption
    <2> HIDE DEF u, size, kind, L
    <2> QED
      BY <1>3, <2>1, <2>2
  <1>7. kind = "leaf" => pages[p].right = 0
    BY DEF IsPage
  <1> HIDE DEF pg, more, size, u, L
  <1>8. pg \in PageRecords
    BY <1>1, <1>2, <1>3, <1>4 DEF PageRecords
  <1>9. IsPage(p, pg)
    BY <1>2, <1>4, <1>5, <1>6, <1>7 DEF IsPage
  <1> QED
    BY <1>8, <1>9 DEF pg

\* Pages that are written, and pages that are added.
LEMMA SeqWritten ==
  ASSUME NEW S, NEW s \in Seq(S), NEW i \in 1 .. Len(s), NEW e \in S
  PROVE  /\ [s EXCEPT ![i] = e] \in Seq(S) /\ Len([s EXCEPT ![i] = e]) = Len(s)
         /\ \A k \in 1 .. Len(s) : [s EXCEPT ![i] = e][k] = IF k = i THEN e ELSE s[k]
  OBVIOUS

\* A sequence with one element more.
LEMMA SeqAdded ==
  ASSUME NEW S, NEW s \in Seq(S), NEW e \in S
  PROVE  /\ s \o <<e>> \in Seq(S) /\ Len(s \o <<e>>) = Len(s) + 1
         /\ \A k \in 1 .. Len(s) : (s \o <<e>>)[k] = s[k]
         /\ (s \o <<e>>)[Len(s) + 1] = e
  OBVIOUS

-----------------------------------------------------------------------------
\* Where the divider goes in the parent

IsSpot(k, i, d) ==
  /\ i \in 1 .. Len(k) + 1 /\ d \in Nat
  /\ (i > 1 => k[i - 1] < d) /\ (i <= Len(k) => d < k[i])
  /\ \A j \in 1 .. Len(k) : k[j] # d

\* The divider goes where the page is that was split.
LEMMA ParentSpot ==
  ASSUME NEW t, NEW R, IsTree(t, R), NEW p \in DOMAIN t, NEW x \in DOMAIN t, t[x].lev > 0,
         NEW i \in DOMAIN t[x].kids, t[x].kids[i] = p,
         NEW d \in Rowids, NEW left, NEW right, Halves(t, R, t[p], d, left, right),
         NEW cells \in Seq(CellRecords), KeysAre(t[x].keys, cells), NEW page \in Nat,
         NEW cell, cell = [key |-> d, page |-> page], NEW more, more = WithCell(cells, cell)
  PROVE  /\ IsSpot(t[x].keys, i, d) /\ d \in t[x].rng /\ d \in t[p].rng
         /\ i \in 1 .. Len(cells) + 1 /\ cell \in CellRecords
         /\ Inserts(CellRecords, more, cells, i, cell)
         /\ Inserts(Nat, KeysOf(more), t[x].keys, i, d) /\ KeysAre(KeysOf(more), more)
  <1> DEFINE k == t[x].keys
             n == t[x]
             m == t[p]
  <1>1. IsNodeData(n) /\ HasKids(t, n) /\ IsNodeData(m)
    BY DEF IsTree, IsNode
  <1>2. i \in 1 .. Len(k) + 1 /\ k \in Seq(Nat) /\ Sorted(k) /\ IsSlice(m.rng, n.rng, k, i)
    BY <1>1 DEF HasKids, IsNodeData, IsSlice
  <1>3. d \in Nat /\ Lower(m.rng, d) # {} /\ Upper(m.rng, d) # {}
    BY DEF Halves, IsNode, IsNodeData
  <1>4. d \in m.rng /\ d \in n.rng /\ (i > 1 => k[i - 1] < d) /\ (i <= Len(k) => d < k[i])
    <2> HIDE DEF m, n
    <2>1. i \in 1 .. Len(n.keys) + 1 /\ IsSlice(m.rng, n.rng, n.keys, i)
      BY <1>2 DEF n
    <2>2. d \in m.rng /\ d \in n.rng /\ (i > 1 => n.keys[i - 1] < d) /\ (i <= Len(n.keys) => d < n.keys[i])
      BY <1>1, <1>3, <2>1, DividerBetween
    <2> QED
      BY <2>2 DEF n
  <1>5. KeysAre(k, cells)
    OBVIOUS
  <1> HIDE DEF k
  <1>6. (\A j \in 1 .. Len(k) : k[j] # d)
        /\ \A j \in 1 .. Len(k) + 1 : (j > 1 => k[j - 1] < d) /\ (j <= Len(k) => d < k[j]) => j = i
    BY <1>2, <1>3, <1>4, OnePlace
  <1>7. cell \in CellRecords /\ cell.key = d
    BY DEF CellRecords
  <1> DEFINE at == Place(cells, cell.key)
  <1>8. at = Place(cells, cell.key) /\ \A j \in 1 .. Len(k) : k[j] # cell.key
    BY <1>6, <1>7
  <1> HIDE DEF at
  <1>9. /\ at \in 1 .. Len(k) + 1 /\ at \in 1 .. Len(cells) + 1
        /\ (at > 1 => k[at - 1] < cell.key) /\ (at <= Len(k) => cell.key < k[at])
        /\ Inserts(CellRecords, more, cells, at, cell) /\ Inserts(Nat, KeysOf(more), k, at, cell.key)
        /\ KeysAre(KeysOf(more), more)
    BY <1>2, <1>5, <1>7, <1>8, CellInserted
  <1>10. at = i
    BY <1>6, <1>7, <1>9
  <1>11. IsSpot(k, i, d)
    BY <1>2, <1>3, <1>4, <1>6 DEF IsSpot
  <1> QED
    BY <1>4, <1>7, <1>9, <1>10, <1>11 DEF k, m, n

-----------------------------------------------------------------------------
\* A page below the root is split

\* The pages and the call after the split: page p and the new page r have the
\* halves, and the parent x has the divider or is to be split for it.
AfterBelow(p, x, r, plan) ==
  LET kind == pages[p].kind
      cell == [key |-> plan.divider, page |-> p]
      todo == Append(call.todo, [key |-> plan.divider, page |-> r])
  IN  /\ DOMAIN pages' = 1 .. r
      /\ pages'[p] = Half(kind, plan.left, plan.leftLast)
      /\ pages'[r] = Half(kind, plan.right, plan.rightLast)
      /\ \A y \in DOMAIN pages \ {p, x} : pages'[y] = pages[y]
      /\ \/ /\ Fits(x, cell) /\ pages'[x] = Put(pages[x], cell)
            /\ call' = [op |-> "retarget", todo |-> todo]
         \/ /\ ~Fits(x, cell) /\ pages'[x] = pages[x]
            /\ call' = [op |-> "split", path |-> Front(call.path), cell |-> cell, todo |-> todo]
      /\ rows' = rows /\ ret' = ret /\ ArePages'

\* What a split below the root writes: both halves are pages with room, the
\* parent's pointer and what is left of the call are as AfterBelow says.
LEMMA SplitBelowPages ==
  ASSUME PagesHaveRoom, ArePages, SplitBelow, NEW p, NEW x, NEW plan, NEW r,
         p = Last(call.path), x = ParentOf(call.path),
         plan = Plan(pages[p], WithCell(pages[p].cells, call.cell)), r = Len(pages) + 1,
         p \in DOMAIN pages, x \in DOMAIN pages, p # x, p >= Root, Root \in DOMAIN pages,
         pages[p].kind \in {"leaf", "interior"}, pages[x].kind = "interior",
         plan.divider \in Rowids,
         IsHalf(p, pages[p].kind, plan.left, plan.leftLast),
         IsHalf(p, pages[p].kind, plan.right, plan.rightLast),
         NEW T, call.todo \in Seq(T), [key |-> plan.divider, page |-> r] \in T
  PROVE  AfterBelow(p, x, r, plan)
  <1> DEFINE kind == pages[p].kind
             cell == [key |-> plan.divider, page |-> p]
             e == [key |-> plan.divider, page |-> r]
             todo == Append(call.todo, e)
             left == Half(kind, plan.left, plan.leftLast)
             right == Half(kind, plan.right, plan.rightLast)
             one == [pages EXCEPT ![p] = left]
             split == one \o <<right>>
  <1>1. pages \in Seq(PageRecords) /\ Len(pages) \in Nat /\ DOMAIN pages = 1 .. Len(pages)
        /\ p \in 1 .. Len(pages) /\ x \in 1 .. Len(pages) /\ p \in Nat /\ r \in Nat
        /\ r # 1 /\ r >= Root /\ r \notin DOMAIN pages /\ r = Len(pages) + 1
    <2>1. pages \in Seq(PageRecords) /\ DOMAIN pages = 1 .. Len(pages) /\ Len(pages) \in Nat
      BY DEF ArePages
    <2> QED
      BY <2>1, BTreeAssumption
  <1>2. /\ Rewritten(p, kind, plan.left, plan.leftLast) = left
        /\ left \in PageRecords /\ IsPage(p, left)
    <2>1. kind \in {"leaf", "interior"} /\ IsHalf(p, kind, plan.left, plan.leftLast)
      OBVIOUS
    <2> HIDE DEF kind
    <2>2. Writes(p, kind, plan.left, plan.leftLast)
      BY <1>1, <2>1, HalfWritten
    <2> QED
      BY <2>2 DEF Writes
  <1>3. /\ Rewritten(r, kind, plan.right, plan.rightLast) = right
        /\ right \in PageRecords /\ IsPage(r, right)
    <2>1. kind \in {"leaf", "interior"} /\ IsHalf(p, kind, plan.right, plan.rightLast)
      OBVIOUS
    <2> HIDE DEF kind
    <2>2. Writes(r, kind, plan.right, plan.rightLast)
      BY <1>1, <2>1, HalfWritten
    <2> QED
      BY <2>2 DEF Writes
  <1>4. left.cells = plan.left /\ right.cells = plan.right
    BY DEF Half
  <1> HIDE DEF left, right
  <1>5. /\ one \in Seq(PageRecords) /\ Len(one) = Len(pages)
        /\ \A k \in 1 .. Len(pages) : one[k] = IF k = p THEN left ELSE pages[k]
    BY <1>1, <1>2, SeqWritten
  <1>6. /\ split \in Seq(PageRecords) /\ Len(split) = r
        /\ \A k \in 1 .. Len(pages) : split[k] = IF k = p THEN left ELSE pages[k]
        /\ split[r] = right
    <2> HIDE DEF one
    <2>0. one \in Seq(PageRecords) /\ right \in PageRecords
      BY <1>3, <1>5
    <2>1. /\ split \in Seq(PageRecords) /\ Len(split) = Len(one) + 1
          /\ \A k \in 1 .. Len(one) : split[k] = one[k]
          /\ split[Len(one) + 1] = right
      BY <2>0, SeqAdded
    <2> HIDE DEF split
    <2> QED
      BY <1>1, <1>5, <2>1
  <1>7. cell \in CellRecords
    BY <1>1 DEF CellRecords
  <1>8. /\ \/ Fits(x, cell) /\ pages' = [split EXCEPT ![x] = Put(@, cell)] /\ call' = Resume(todo)
           \/ /\ ~Fits(x, cell) /\ pages' = split
              /\ call' = [op |-> "split", path |-> Front(call.path), cell |-> cell, todo |-> todo]
        /\ rows' = rows /\ ret' = ret
    <2> DEFINE L == Rewritten(p, pages[p].kind, plan.left, plan.leftLast)
               G == Rewritten(r, pages[p].kind, plan.right, plan.rightLast)
    <2>1. L = left /\ G = right
      BY <1>2, <1>3
    <2>2. /\ \/ /\ L.cells = plan.left /\ G.cells = plan.right /\ Fits(x, cell)
                /\ pages' = [([pages EXCEPT ![p] = L] \o <<G>>) EXCEPT ![x] = Put(@, cell)]
                /\ call' = Resume(todo) /\ ret' = ret
             \/ /\ L.cells = plan.left /\ G.cells = plan.right /\ ~Fits(x, cell)
                /\ pages' = [pages EXCEPT ![p] = L] \o <<G>>
                /\ call' = [op |-> "split", path |-> Front(call.path), cell |-> cell, todo |-> todo]
                /\ ret' = ret
             \/ L.cells # plan.left
             \/ L.cells = plan.left /\ G.cells # plan.right
          /\ rows' = rows
      BY DEF SplitBelow
    <2> HIDE DEF L, G
    <2> QED
      BY <1>4, <2>1, <2>2
  <1> HIDE DEF one, split, cell, todo
  <1>9. split[x] = pages[x] /\ x \in 1 .. r /\ x # r /\ DOMAIN split = 1 .. r /\ p \in 1 .. r /\ p # r
    BY <1>1, <1>6
  <1>10. ASSUME NEW y \in 1 .. r
         PROVE  split[y] \in PageRecords /\ IsPage(y, split[y])
    <2>1. y \in 1 .. Len(pages) \/ y = r
      BY <1>1
    <2>2. split[y] \in PageRecords
      BY <1>6
    <2>3. \A k \in 1 .. Len(pages) : IsPage(k, pages[k])
      BY <1>1 DEF ArePages
    <2> QED
      BY <1>2, <1>3, <1>6, <2>1, <2>2, <2>3
  <1>11. CASE ~Fits(x, cell)
    <2>1. /\ pages' = split
          /\ call' = [op |-> "split", path |-> Front(call.path), cell |-> cell, todo |-> todo]
      BY <1>8, <1>11
    <2>2. ArePages'
      BY <1>6, <1>9, <1>10, <2>1 DEF ArePages, IsPage
    <2> QED
      BY <1>1, <1>6, <1>8, <1>9, <1>11, <2>1, <2>2 DEF AfterBelow, cell, todo, left, right
  <1>12. CASE Fits(x, cell)
    <2>1. pages' = [split EXCEPT ![x] = Put(split[x], cell)] /\ call' = Resume(todo)
      BY <1>8, <1>12
    <2>2. Put(pages[x], cell) \in PageRecords /\ IsPage(x, Put(pages[x], cell))
      <3>1. pages[x] \in PageRecords /\ IsPage(x, pages[x])
        BY <1>1 DEF ArePages
      <3> QED
        BY <1>7, <1>12, <3>1, PutIsPage
    <2> DEFINE put == Put(pages[x], cell)
    <2>3. pages' = [split EXCEPT ![x] = put]
      BY <1>9, <2>1
    <2> HIDE DEF put
    <2>4. /\ pages' \in Seq(PageRecords) /\ Len(pages') = r /\ DOMAIN pages' = 1 .. r
          /\ \A k \in 1 .. r : pages'[k] = IF k = x THEN put ELSE split[k]
      <3>1. put \in PageRecords
        BY <2>2 DEF put
      <3>2. x \in 1 .. Len(split)
        BY <1>6, <1>9
      <3>3. /\ [split EXCEPT ![x] = put] \in Seq(PageRecords) /\ Len([split EXCEPT ![x] = put]) = Len(split)
            /\ \A k \in 1 .. Len(split) : [split EXCEPT ![x] = put][k] = IF k = x THEN put ELSE split[k]
        BY <1>6, <3>1, <3>2, SeqWritten
      <3> QED
        BY <1>6, <2>3, <3>3
    <2>5. ArePages'
      <3>1. \A y \in 1 .. r : IsPage(y, pages'[y])
        BY <1>10, <2>2, <2>4 DEF put
      <3> QED
        BY <2>4, <3>1 DEF ArePages, IsPage
    <2>6. call' = [op |-> "retarget", todo |-> todo]
      <3>1. todo # <<>>
        <4>1. e \in T /\ call.todo \in Seq(T)
          OBVIOUS
        <4> HIDE DEF e
        <4>2. Len(Append(call.todo, e)) = Len(call.todo) + 1 /\ Len(call.todo) \in Nat
          BY <4>1
        <4>3. Len(<<>>) = 0
          OBVIOUS
        <4> QED
          BY <4>2, <4>3 DEF todo
      <3> QED
        BY <2>1, <3>1 DEF Resume
    <2>7. /\ pages'[x] = put /\ pages'[p] = left /\ pages'[r] = right
          /\ \A y \in DOMAIN pages \ {p, x} : pages'[y] = pages[y]
      BY <1>1, <1>6, <1>9, <2>4
    <2> QED
      BY <1>8, <1>12, <2>4, <2>5, <2>6, <2>7 DEF AfterBelow, cell, todo, left, right, put
  <1> QED
    BY <1>11, <1>12

-----------------------------------------------------------------------------
\* The page that is split and its parent.

IsParent(t, p, x, i) ==
  /\ p \in DOMAIN t /\ x \in DOMAIN t /\ p # x /\ p = Last(call.path) /\ x = ParentOf(call.path)
  /\ t[x].lev = t[p].lev + 1 /\ t[x].lev > 0 /\ t[p].lev \in Nat /\ t[p].lev = Len(call.todo)
  /\ i \in DOMAIN t[x].kids /\ t[x].kids[i] = p

\* The page above a page that is split is its parent in the tree.
LEMMA ParentIs ==
  ASSUME NEW t, NEW R, IsTree(t, R), IsSplit(t), Last(call.path) # Root
  PROVE  /\ \E i : IsParent(t, Last(call.path), ParentOf(call.path), i)
         /\ Len(call.path) > 1 /\ Front(call.path) \in Seq(DOMAIN t)
         /\ Len(Front(call.path)) = Len(call.path) - 1
         /\ \A k \in 1 .. Len(call.path) - 1 : Front(call.path)[k] = call.path[k]
  <1> DEFINE path == call.path
             n == Len(path)
             D == DOMAIN t
  <1>1. IsPath(t, path) /\ path \in Seq(D) /\ path[1] = Root
    BY DEF IsSplit, IsPath
  <1> HIDE DEF path
  <1>2. /\ n \in Nat /\ n > 0 /\ Last(path) = path[n]
        /\ \A k \in 1 .. n : path[k] \in D /\ t[path[k]].lev \in Nat
        /\ \A j, k \in 1 .. n : j # k => path[j] # path[k]
        /\ \A k \in 1 .. n - 1 : t[path[k]].lev = t[path[k + 1]].lev + 1
    BY <1>1, PathPages
  <1>3. n > 1
    BY <1>1, <1>2 DEF path
  <1> HIDE DEF D
  <1>4. /\ Front(path) \in Seq(D) /\ Len(Front(path)) = n - 1
        /\ \A k \in 1 .. n - 1 : Front(path)[k] = path[k]
    BY <1>1, <1>2, EndsOf
  <1> HIDE DEF n
  <1> DEFINE m == n - 1
  <1>5. m \in 1 .. n - 1 /\ m \in 1 .. n /\ n \in 1 .. n /\ m + 1 = n /\ m # n
    BY <1>2, <1>3
  <1>6. ParentOf(path) = path[m]
    BY <1>4, <1>5 DEF ParentOf, Last
  <1> HIDE DEF m
  <1>7. t[path[m]].lev = t[path[n]].lev + 1 /\ path[m] # path[n] /\ path[m] \in D /\ path[n] \in D
        /\ t[path[n]].lev \in Nat /\ t[path[m]].lev \in Nat
    <2>1. t[path[m]].lev = t[path[m + 1]].lev + 1
      BY <1>2, <1>5
    <2> QED
      BY <1>2, <1>5, <2>1
  <1>8. PICK i \in 1 .. Len(t[path[m]].kids) : t[path[m]].kids[i] = path[n]
    <2>1. Below(t, path[m], path[m + 1])
      BY <1>1, <1>5 DEF IsPath, n
    <2>2. Below(t, path[m], path[n])
      BY <1>5, <2>1
    <2> QED
      BY <2>2 DEF Below
  <1>9. t[path[n]].lev = Len(call.todo)
    BY <1>2 DEF IsSplit, path
  <1>10. i \in DOMAIN t[path[m]].kids
    <2>1. HasKids(t, t[path[m]])
      BY <1>7 DEF IsTree, IsNode, IsNodeData, D
    <2> QED
      BY <1>8, <2>1 DEF HasKids
  <1>11. IsParent(t, path[n], path[m], i)
    BY <1>2, <1>6, <1>7, <1>8, <1>9, <1>10 DEF IsParent, D, path
  <1> QED
    BY <1>2, <1>3, <1>4, <1>6, <1>11 DEF path, n, D

-----------------------------------------------------------------------------
\* The tree after a page below the root is split

\* Node p and a new node r have the halves, and the parent x has one more key
\* and one more node below it.
SplitTree(t, p, x, r, left, right, keys, kids) ==
  [y \in DOMAIN t \cup {r} |->
     IF y = p THEN left ELSE IF y = r THEN right
     ELSE IF y = x THEN Node(t[x].lev, t[x].rng, keys, kids) ELSE t[y]]

\* What relates the tree u after the split to the tree t before it.
IsSplitTree(t, u, head, p, x, i, r, plan, left, right) ==
  /\ IsTree(t, rows) /\ Hold(t, head) /\ IsParent(t, p, x, i)
  /\ IsDealt(t, rows, t[p], plan, p, pages[p].kind, call.todo, head, left, right)
  /\ r = Len(pages) + 1 /\ r \notin DOMAIN t /\ r \in Nat
  /\ IsTree(u, rows) /\ u[Root].lev = t[Root].lev
  /\ DOMAIN u = DOMAIN t \cup {r} /\ u[p] = left /\ u[r] = right
  /\ u[x].lev = t[x].lev /\ u[x].rng = t[x].rng
  /\ \A y \in DOMAIN t \ {p, x} : u[y] = t[y]
  /\ LET cell == [key |-> plan.divider, page |-> p]
         more == WithCell(pages[x].cells, cell)
     IN  /\ IsSpot(t[x].keys, i, plan.divider) /\ plan.divider \in t[x].rng /\ plan.divider \in t[p].rng
         /\ cell \in CellRecords /\ i \in 1 .. Len(pages[x].cells) + 1
         /\ Inserts(CellRecords, more, pages[x].cells, i, cell)
         /\ Inserts(Nat, u[x].keys, t[x].keys, i, plan.divider) /\ KeysAre(u[x].keys, more)
         /\ Inserts(DOMAIN t \cup {r}, u[x].kids, t[x].kids, i + 1, r)

\* The tree with a page split in two below its parent is a tree.
LEMMA TreeIsSplit ==
  ASSUME ArePages, NEW t, NEW head, IsTree(t, rows), Hold(t, head), call.op = "split",
         NEW p, NEW x, NEW i, IsParent(t, p, x, i), NEW r, r = Len(pages) + 1,
         NEW plan, NEW left, NEW right,
         IsDealt(t, rows, t[p], plan, p, pages[p].kind, call.todo, head, left, right)
  PROVE  \E u : IsSplitTree(t, u, head, p, x, i, r, plan, left, right)
  <1> DEFINE d == plan.divider
             cell == [key |-> d, page |-> p]
             cells == pages[x].cells
             more == WithCell(cells, cell)
             keys == KeysOf(more)
             kids == InsertAt(t[x].kids, i + 1, r)
             u == SplitTree(t, p, x, r, left, right, keys, kids)
             D == DOMAIN t
  <1>1. /\ p \in DOMAIN t /\ x \in DOMAIN t /\ p # x /\ t[x].lev > 0 /\ i \in DOMAIN t[x].kids
        /\ t[x].kids[i] = p /\ x # Last(call.path)
    BY DEF IsParent
  <1>2. /\ cells \in Seq(CellRecords) /\ p \in Nat
        /\ Shows(t[x], pages[x].kind, Held(x), pages[x].right, Todo, head)
    BY <1>1, TreePage DEF OfTree
  <1>3. KeysAre(t[x].keys, cells)
    BY <1>1, <1>2 DEF Shows, Held
  <1>4. Halves(t, rows, t[p], d, left, right) /\ d \in Rowids
    BY DEF IsDealt
  <1>5. cell = [key |-> d, page |-> p] /\ more = WithCell(cells, cell)
    OBVIOUS
  <1> HIDE DEF d, cells, more, cell
  <1>6. /\ IsSpot(t[x].keys, i, d) /\ d \in t[x].rng /\ d \in t[p].rng
        /\ i \in 1 .. Len(cells) + 1 /\ cell \in CellRecords
        /\ Inserts(CellRecords, more, cells, i, cell)
        /\ Inserts(Nat, keys, t[x].keys, i, d) /\ KeysAre(keys, more)
    BY <1>1, <1>2, <1>3, <1>4, <1>5, ParentSpot
  <1>7. r \notin DOMAIN t /\ r \in Nat /\ r \in D \cup {r}
    BY DEF Hold, InTree, ArePages
  <1>8. Inserts(D \cup {r}, kids, t[x].kids, i + 1, r)
    <2> DEFINE c == t[x].kids
               j == i + 1
               S == D \cup {r}
    <2>1. c \in Seq(S) /\ j \in 1 .. Len(c) + 1 /\ r \in S
      <3>1. HasKids(t, t[x])
        BY <1>1 DEF IsTree, IsNode, IsNodeData
      <3>2. c \in Seq(D) /\ i \in 1 .. Len(c)
        BY <1>1, <3>1 DEF HasKids
      <3> HIDE DEF c
      <3> QED
        BY <3>2
    <2> HIDE DEF c, j, S
    <2>2. Inserts(S, InsertAt(c, j, r), c, j, r)
      BY <2>1, InsertAtInserts
    <2> QED
      BY <2>2 DEF c, j, S
  <1> HIDE DEF keys, kids
  <1>9. /\ DOMAIN u = D \cup {r} /\ u[p] = left /\ u[r] = right
        /\ u[x].lev = t[x].lev /\ u[x].rng = t[x].rng /\ u[x].keys = keys /\ u[x].kids = kids
        /\ \A y \in D \ {p, x} : u[y] = t[y]
    <2>1. DOMAIN u = D \cup {r} /\ u[p] = left /\ u[r] = right
          /\ u[x] = Node(t[x].lev, t[x].rng, keys, kids) /\ \A y \in D \ {p, x} : u[y] = t[y]
      BY <1>1, <1>7 DEF SplitTree
    <2> QED
      BY <2>1 DEF Node
  <1> HIDE DEF u
  <1>10. IsHalved(u, t, p, r, left, right, x, keys, kids)
    BY <1>9 DEF IsHalved
  <1>11. IsTree(u, rows) /\ u[Root].lev = t[Root].lev
    <2>1. IsTreeSplit(u, t, rows, p, r, x, i, d, left, right, keys, kids)
      BY <1>1, <1>4, <1>6, <1>7, <1>8, <1>10 DEF IsTreeSplit
    <2> QED
      BY <2>1, TreeSplit
  <1>12. IsSplitTree(t, u, head, p, x, i, r, plan, left, right)
    BY <1>6, <1>7, <1>8, <1>9, <1>11 DEF IsSplitTree, d, cell, cells, more
  <1> QED
    BY <1>12

\* A sequence of a set is one of every larger set.
LEMMA SeqWider ==
  ASSUME NEW A, NEW B, A \subseteq B, NEW s \in Seq(A)
  PROVE  s \in Seq(B)
  OBVIOUS

-----------------------------------------------------------------------------
\* The pages show the tree after the split

\* Whichever way the divider went, the parent holds it.
LEMMA ParentHolds ==
  ASSUME NEW p, NEW x, NEW r, NEW plan, AfterBelow(p, x, r, plan), x = ParentOf(call.path),
         pages[x] \in PageRecords
  PROVE  /\ Held(x)' = WithCell(pages[x].cells, [key |-> plan.divider, page |-> p])
         /\ \A y : y # x => Held(y)' = pages'[y].cells
         /\ Todo' = Append(call.todo, [key |-> plan.divider, page |-> r])
         /\ pages'[x].kind = pages[x].kind
         /\ pages'[x].right = pages[x].right
  <1> DEFINE cell == [key |-> plan.divider, page |-> p]
             todo == Append(call.todo, [key |-> plan.divider, page |-> r])
  <1> USE DEF AfterBelow
  <1>1. CASE pages'[x] = Put(pages[x], cell) /\ call' = [op |-> "retarget", todo |-> todo]
    <2>1. \A y : Held(y)' = pages'[y].cells
      BY <1>1 DEF Held
    <2>2. Todo' = todo
      BY <1>1 DEF Todo
    <2>3. /\ Put(pages[x], cell).cells = WithCell(pages[x].cells, cell)
          /\ Put(pages[x], cell).kind = pages[x].kind /\ Put(pages[x], cell).right = pages[x].right
      BY DEF Put, PageRecords
    <2> QED
      BY <1>1, <2>1, <2>2, <2>3
  <1>2. CASE /\ pages'[x] = pages[x]
             /\ call' = [op |-> "split", path |-> Front(call.path), cell |-> cell, todo |-> todo]
    <2>1. Last(Front(call.path)) = x
      BY DEF ParentOf
    <2>2. \A y : Held(y)' = IF y = x THEN WithCell(pages'[y].cells, cell) ELSE pages'[y].cells
      BY <1>2, <2>1 DEF Held
    <2>3. Todo' = todo
      BY <1>2 DEF Todo
    <2> QED
      BY <1>2, <2>2, <2>3
  <1> QED
    BY <1>1, <1>2

\* What a page of the tree shows is the same with one more pointer to set,
\* unless the page has the divider in question.
LEMMA ShowsMore ==
  ASSUME NEW n, IsNodeData(n), NEW kind, NEW cells \in Seq(CellRecords), NEW right, NEW head,
         NEW S, NEW todo \in Seq(S), NEW e \in S, Shows(n, kind, cells, right, todo, head),
         n.lev = Len(todo) + 1 => \A j \in 1 .. Len(n.keys) : n.keys[j] # e.key
  PROVE  Shows(n, kind, cells, right, Append(todo, e), head)
  <1>1. n.lev \in Nat /\ Len(cells) \in Nat
    BY DEF IsNodeData
  <1>2. CASE n.lev = 0
    BY <1>2 DEF Shows
  <1>3. CASE n.lev > 0
    <2>1. Points(n, cells, right, todo) /\ Len(n.keys) = Len(cells)
      BY <1>3 DEF Shows, KeysAre
    <2>2. Points(n, cells, right, Append(todo, e))
      BY <1>1, <1>3, <2>1, OthersPoint
    <2> QED
      BY <1>3, <2>2 DEF Shows
  <1> QED
    BY <1>1, <1>2, <1>3

\* After a split below the root the pages hold the tree that is split.
LEMMA HoldAfterBelow ==
  ASSUME ArePages, call.op = "split", NEW t, NEW u, NEW head, NEW p, NEW x, NEW i, NEW r, NEW plan,
         NEW left, NEW right, IsSplitTree(t, u, head, p, x, i, r, plan, left, right),
         AfterBelow(p, x, r, plan), IsTodo(t), Root \in DOMAIN pages
  PROVE  Hold(u, head)'
  <1> DEFINE d == plan.divider
             cell == [key |-> d, page |-> p]
             more == WithCell(pages[x].cells, cell)
             S == [key : Nat, page : DOMAIN t \cup {r}]
             e == [key |-> d, page |-> r]
             todo == call.todo
             kind == pages[p].kind
  <1>1. /\ IsTree(t, rows) /\ Hold(t, head) /\ IsParent(t, p, x, i) /\ p \in DOMAIN t /\ x \in DOMAIN t
        /\ p # x /\ x = ParentOf(call.path) /\ t[x].lev = Len(todo) + 1 /\ t[x].lev > 0
        /\ t[p].lev = Len(todo) /\ p = Last(call.path) /\ i \in DOMAIN t[x].kids /\ t[x].kids[i] = p
        /\ r = Len(pages) + 1 /\ r \notin DOMAIN t /\ r \in Nat
        /\ DOMAIN u = DOMAIN t \cup {r} /\ u[p] = left /\ u[r] = right /\ IsTree(u, rows)
        /\ u[x].lev = t[x].lev /\ \A y \in DOMAIN t \ {p, x} : u[y] = t[y]
    BY DEF IsSplitTree, IsParent
  <1>2. OfTree(t, rows, head, p) /\ OfTree(t, rows, head, x)
    BY <1>1, TreePage
  <1>3. /\ Held(x)' = more /\ \A y : y # x => Held(y)' = pages'[y].cells
        /\ Todo' = Append(todo, e) /\ pages'[x].kind = pages[x].kind /\ pages'[x].right = pages[x].right
    BY <1>1, <1>2, ParentHolds DEF OfTree
  <1>4. d \in Nat /\ d \in Rowids /\ e \in S /\ todo \in Seq(S) /\ Todo = todo
    <2>1. d \in Rowids
      BY DEF IsSplitTree, IsDealt
    <2>2. d \in Nat
      BY <2>1, BTreeAssumption
    <2>3. Todo = todo
      BY DEF Todo
    <2>4. todo \in Seq([key : Nat, page : DOMAIN t])
      BY <2>3 DEF IsTodo
    <2>5. [key : Nat, page : DOMAIN t] \subseteq S
      OBVIOUS
    <2>6. todo \in Seq(S)
      <3> HIDE DEF S, todo
      <3> QED
        BY <2>4, <2>5, SeqWider
    <2> QED
      BY <2>1, <2>2, <2>3, <2>6
  <1>5. /\ IsHalf(p, kind, plan.left, plan.leftLast) /\ IsHalf(p, kind, plan.right, plan.rightLast)
        /\ Shows(left, kind, plan.left, plan.leftLast, todo, head)
        /\ Shows(right, kind, plan.right, plan.rightLast, todo, head)
        /\ left.lev = Len(todo) /\ right.lev = Len(todo) /\ d \in t[x].rng
    BY <1>1 DEF IsSplitTree, IsDealt, Halves
  <1>6. /\ DOMAIN pages' = 1 .. r
        /\ pages'[p] = Half(kind, plan.left, plan.leftLast)
        /\ pages'[r] = Half(kind, plan.right, plan.rightLast)
        /\ \A y \in DOMAIN pages \ {p, x} : pages'[y] = pages[y]
    BY DEF AfterBelow
  <1>7. InTree' = DOMAIN u
    <2>1. pages'[p].kind = kind /\ pages'[r].kind = kind /\ kind # "overflow" /\ r >= Root /\ r \in DOMAIN pages'
      <3>1. kind # "overflow"
        BY <1>2 DEF OfTree, InTree
      <3>2. DOMAIN pages = 1 .. Len(pages) /\ Len(pages) \in Nat
        BY DEF ArePages
      <3>3. r >= Root
        BY <1>1, <3>2, BTreeAssumption
      <3>4. r \in 1 .. r
        BY <1>1, <3>2
      <3> QED
        BY <1>6, <3>1, <3>3, <3>4 DEF Half
    <2>2. DOMAIN t = InTree
      BY <1>1 DEF Hold
    <2>3. DOMAIN pages = 1 .. Len(pages) /\ Len(pages) \in Nat
      BY DEF ArePages
    <2>4. DOMAIN pages' = DOMAIN pages \cup {r}
      BY <1>1, <1>6, <2>3
    <2>5. ASSUME NEW y \in DOMAIN pages
          PROVE  pages'[y].kind = pages[y].kind
      BY <1>3, <1>6, <2>1, <2>5
    <2>6. r \notin DOMAIN pages
      BY <1>1, <2>3
    <2>7. ASSUME NEW y \in DOMAIN pages'
          PROVE  (y >= Root /\ pages'[y].kind # "overflow") <=> y \in DOMAIN u
      <3>1. CASE y = r
        BY <1>1, <2>1, <3>1
      <3>2. CASE y \in DOMAIN pages
        BY <1>1, <2>2, <2>5, <2>6, <3>2 DEF InTree
      <3> QED
        BY <2>4, <2>7, <3>1, <3>2
    <2>8. DOMAIN u \subseteq DOMAIN pages'
      BY <1>1, <2>2, <2>4 DEF InTree
    <2> QED
      BY <2>7, <2>8 DEF InTree
  <1> HIDE DEF S, e, d
  <1>8. ASSUME NEW y \in DOMAIN u
        PROVE  Holds(y, u[y], head)'
    <2> DEFINE after == Append(todo, e)
    <2>1. CASE y = x
      <3> DEFINE n == t[x]
                 m == u[x]
                 cells == pages[x].cells
                 last == pages[x].right
      <3>1. /\ Points(n, cells, last, todo) /\ n.lev = Len(todo) + 1 /\ Len(n.keys) = Len(cells)
            /\ cells \in Seq(CellRecords) /\ n.lev \in Nat
        <4>1. Shows(n, pages[x].kind, cells, last, todo, head)
          BY <1>1, <1>2, <1>4 DEF OfTree, Held
        <4> QED
          BY <1>1, <1>2, <4>1 DEF Shows, KeysAre, OfTree
      <3>2. /\ IsSpot(n.keys, i, d) /\ i \in 1 .. Len(cells) + 1 /\ Inserts(CellRecords, more, cells, i, cell)
            /\ Inserts(Nat, m.keys, n.keys, i, d) /\ KeysAre(m.keys, more)
            /\ Inserts(DOMAIN t \cup {r}, m.kids, n.kids, i + 1, r)
        BY DEF IsSplitTree, d
      <3>3. Len(n.kids) = Len(cells) + 1
        <4>1. HasKids(t, n)
          BY <1>1 DEF IsTree, IsNode, IsNodeData
        <4> QED
          BY <3>1, <4>1 DEF HasKids
      <3>4. /\ \A j \in 1 .. Len(n.keys) : n.keys[j] # d
            /\ m.lev = n.lev /\ n.kids[i] = p /\ e.key = d /\ e.page = r
        BY <1>1, <3>2 DEF IsSpot, e
      <3>5. Points(m, more, last, after)
        <4> HIDE DEF n, m, cells, last, more, after, todo
        <4>1. Inserts(CellRecords, more, cells, i, [key |-> d, page |-> p]) /\ after = Append(todo, e)
          BY <3>2 DEF after
        <4> QED
          BY <1>4, <3>1, <3>2, <3>3, <3>4, <4>1, ParentPoints
      <3>6. pages'[x].kind = "interior"
        BY <1>1, <1>2, <1>3 DEF OfTree, Shows
      <3>7. Shows(m, pages'[x].kind, Held(x)', pages'[x].right, Todo', head)
        BY <1>1, <1>3, <3>1, <3>2, <3>5, <3>6 DEF Shows
      <3> QED
        BY <1>1, <2>1, <3>7 DEF Holds, Shows
    <2>2. ASSUME NEW cells, NEW last, NEW n, IsHalf(p, kind, cells, last), IsNodeData(n),
                 Shows(n, kind, cells, last, todo, head), n.lev = Len(todo)
          PROVE  Shows(n, kind, cells, last, after, head) /\ Len(cells) > 0
      <3>1. cells \in Seq(CellRecords) /\ Len(cells) > 0
        BY <2>2 DEF IsHalf
      <3>2. n.lev # Len(todo) + 1
        BY <2>2 DEF IsNodeData
      <3> HIDE DEF todo, kind
      <3> QED
        BY <1>4, <2>2, <3>1, <3>2, ShowsMore
    <2>3. CASE y = p
      <3>1. IsNodeData(left)
        BY <1>1 DEF IsTree, IsNode
      <3>2. Shows(left, kind, plan.left, plan.leftLast, after, head) /\ Len(plan.left) > 0
        BY <1>5, <2>2, <3>1
      <3>3. Held(p)' = plan.left /\ pages'[p].kind = kind /\ pages'[p].right = plan.leftLast
        BY <1>1, <1>3, <1>6 DEF Half
      <3> QED
        BY <1>1, <1>3, <2>3, <3>2, <3>3 DEF Holds
    <2>4. CASE y = r
      <3>1. IsNodeData(right)
        BY <1>1 DEF IsTree, IsNode
      <3>2. Shows(right, kind, plan.right, plan.rightLast, after, head) /\ Len(plan.right) > 0
        BY <1>5, <2>2, <3>1
      <3>3. Held(r)' = plan.right /\ pages'[r].kind = kind /\ pages'[r].right = plan.rightLast
        BY <1>1, <1>3, <1>6 DEF Half
      <3> QED
        BY <1>1, <1>3, <2>4, <3>2, <3>3 DEF Holds
    <2>5. CASE y \in DOMAIN t \ {p, x}
      <3> DEFINE n == t[y]
                 cells == pages[y].cells
                 last == pages[y].right
      <3>1. u[y] = n /\ OfTree(t, rows, head, y) /\ pages'[y] = pages[y]
        <4>1. y \in DOMAIN pages
          BY <1>1, <2>5 DEF Hold, InTree
        <4> QED
          BY <1>1, <1>6, <2>5, <4>1, TreePage
      <3>2. Held(y) = cells /\ Held(y)' = cells
        BY <1>1, <1>3, <2>5, <3>1 DEF Held
      <3>3. /\ Shows(n, pages[y].kind, cells, last, todo, head) /\ IsNodeData(n)
            /\ cells \in Seq(CellRecords)
        BY <1>4, <3>1, <3>2 DEF OfTree
      <3>4. n.lev = Len(todo) + 1 => \A j \in 1 .. Len(n.keys) : n.keys[j] # e.key
        <4>1. n.lev = Len(todo) + 1 => n.rng \cap t[x].rng = {}
          BY <1>1, <2>5 DEF IsTree, LevelApart
        <4>2. \A j \in 1 .. Len(n.keys) : n.keys[j] \in n.rng
          BY <3>3 DEF IsNodeData
        <4> QED
          BY <1>5, <4>1, <4>2 DEF e
      <3>5. Shows(n, pages[y].kind, cells, last, after, head)
        <4> DEFINE kin == pages[y].kind
        <4>1. Shows(n, kin, cells, last, todo, head) /\ todo \in Seq(S) /\ e \in S
          BY <1>4, <3>3
        <4> HIDE DEF todo, n, cells, last, kin
        <4>2. Shows(n, kin, cells, last, Append(todo, e), head)
          BY <3>3, <3>4, <4>1, ShowsMore
        <4> QED
          BY <4>2 DEF kin
      <3>6. n.lev = 0 /\ y # Root => Len(cells) > 0
        BY <1>1, <3>2, <2>5 DEF Hold, Holds
      <3> QED
        BY <1>3, <3>1, <3>2, <3>5, <3>6 DEF Holds
    <2> QED
      BY <1>1, <2>1, <2>3, <2>4, <2>5
  <1> QED
    BY <1>7, <1>8 DEF Hold

-----------------------------------------------------------------------------
\* What is left of the call after the split

\* What is in the range of a sequence is at one of its places.
LEMMA InRange ==
  ASSUME NEW s \in Seq(Nat), NEW v, v \in Range(s)
  PROVE  \E a \in 1 .. Len(s) : s[a] = v
  <1>1. PICK a \in DOMAIN s : s[a] = v
    BY DEF Range
  <1>2. DOMAIN s = 1 .. Len(s)
    OBVIOUS
  <1> QED
    BY <1>1, <1>2

\* Some node of level j has the key.
HasKey(t, j, key) ==
  \E p \in DOMAIN t : t[p].lev = j /\ \E i \in 1 .. Len(t[p].keys) : t[p].keys[i] = key

\* After a split below the root each divider that waits is in the tree at its level.
LEMMA TodoAfterBelow ==
  ASSUME ArePages, call.op = "split", NEW t, NEW u, NEW head, NEW p, NEW x, NEW i, NEW r, NEW plan,
         NEW left, NEW right, IsSplitTree(t, u, head, p, x, i, r, plan, left, right), IsSplit(t),
         IsTodo(t), plan = Plan(pages[p], WithCell(pages[p].cells, call.cell)),
         Todo' = Append(call.todo, [key |-> plan.divider, page |-> r])
  PROVE  IsTodo(u)'
  <1> DEFINE d == plan.divider
             S == [key : Nat, page : DOMAIN u]
             e == [key |-> d, page |-> r]
             todo == call.todo
             n == Len(todo)
  <1>1. /\ IsTree(t, rows) /\ p \in DOMAIN t /\ x \in DOMAIN t /\ p = Last(call.path)
        /\ p # x /\ t[x].lev = n + 1 /\ t[p].lev = n
        /\ DOMAIN u = DOMAIN t \cup {r} /\ u[p] = left /\ u[r] = right
        /\ u[x].lev = t[x].lev /\ \A y \in DOMAIN t \ {p, x} : u[y] = t[y]
    BY DEF IsSplitTree, IsParent
  <1>2. d \in Nat /\ e \in S /\ todo \in Seq(S) /\ Todo = todo /\ n \in Nat
    <2>1. d \in Rowids
      BY DEF IsSplitTree, IsDealt
    <2>2. d \in Nat
      BY <2>1, BTreeAssumption
    <2>3. Todo = todo
      BY DEF Todo
    <2>4. todo \in Seq([key : Nat, page : DOMAIN t])
      BY <2>3 DEF IsTodo
    <2>5. [key : Nat, page : DOMAIN t] \subseteq S
      BY <1>1
    <2>6. todo \in Seq(S)
      <3> HIDE DEF S, todo
      <3> QED
        BY <2>4, <2>5, SeqWider
    <2>7. e \in S
      BY <1>1, <2>2
    <2> QED
      BY <2>2, <2>3, <2>4, <2>6, <2>7
  <1> HIDE DEF S
  <1>3. ASSUME NEW j \in 1 .. n
        PROVE  HasKey(u, j, todo[j].key)
    <2>1. j \in DOMAIN Todo
      BY <1>2
    <2>2. PICK y \in DOMAIN t : t[y].lev = j /\ \E k \in 1 .. Len(t[y].keys) : t[y].keys[k] = todo[j].key
      BY <1>2, <2>1 DEF IsTodo
    <2>3. CASE y # p
      <3>1. y # x
        BY <1>1, <1>2, <2>2
      <3> QED
        BY <1>1, <2>2, <2>3, <3>1 DEF HasKey
    <2>4. CASE y = p
      <3>1. j = n /\ t[p].lev > 0
        BY <1>1, <2>2, <2>4
      <3>2. call.cell.key = todo[n].key /\ d # todo[n].key
        BY <1>1, <3>1, OtherDivider DEF DividerOf
      <3>3. PICK k \in 1 .. Len(t[p].keys) : t[p].keys[k] = todo[n].key
        BY <2>2, <2>4, <3>1
      <3>4. t[p].keys[k] \in {d} \cup Range(left.keys) \cup Range(right.keys)
        BY <3>1, <3>3 DEF IsSplitTree, IsDealt
      <3>5. todo[n].key \in Range(left.keys) \/ todo[n].key \in Range(right.keys)
        BY <3>2, <3>3, <3>4
      <3>6. left.lev = n /\ right.lev = n
        BY <1>1 DEF IsSplitTree, IsDealt, Halves
      <3>7. left.keys \in Seq(Nat) /\ right.keys \in Seq(Nat)
        BY <1>1 DEF IsSplitTree, IsTree, IsNode, IsNodeData
      <3>8. \/ \E a \in 1 .. Len(left.keys) : left.keys[a] = todo[n].key
            \/ \E a \in 1 .. Len(right.keys) : right.keys[a] = todo[n].key
        <4>1. ASSUME todo[n].key \in Range(left.keys)
              PROVE  \E a \in 1 .. Len(left.keys) : left.keys[a] = todo[n].key
          BY <3>7, <4>1, InRange
        <4>2. ASSUME todo[n].key \in Range(right.keys)
              PROVE  \E a \in 1 .. Len(right.keys) : right.keys[a] = todo[n].key
          BY <3>7, <4>2, InRange
        <4> QED
          BY <3>5, <4>1, <4>2
      <3> QED
        BY <1>1, <3>1, <3>6, <3>8 DEF HasKey
    <2> QED
      BY <2>3, <2>4
  <1>4. HasKey(u, n + 1, d)
    <2>1. Inserts(Nat, u[x].keys, t[x].keys, i, d) /\ IsSpot(t[x].keys, i, d)
      BY DEF IsSplitTree
    <2>2. i \in 1 .. Len(u[x].keys) /\ u[x].keys[i] = d
      <3>1. i \in 1 .. Len(t[x].keys) + 1 /\ Len(u[x].keys) = Len(t[x].keys) + 1
        BY <2>1 DEF Inserts, IsSpot
      <3>2. u[x].keys[i] = d
        BY <2>1, <3>1 DEF Inserts
      <3> QED
        BY <3>1, <3>2
    <2> QED
      BY <1>1, <2>2 DEF HasKey
  <1> DEFINE after == Append(todo, e)
  <1>5. /\ after \in Seq(S) /\ DOMAIN after = 1 .. n + 1 /\ after[n + 1] = e
        /\ \A j \in 1 .. n : after[j] = todo[j]
    <2> HIDE DEF todo, e
    <2> QED
      BY <1>2 DEF n
  <1>6. \A j \in 1 .. n + 1 : HasKey(u, j, after[j].key)
    <2> SUFFICES ASSUME NEW j \in 1 .. n + 1
                 PROVE  HasKey(u, j, after[j].key)
      OBVIOUS
    <2> HIDE DEF after
    <2>1. CASE j = n + 1
      BY <1>4, <1>5, <2>1
    <2>2. CASE j # n + 1
      <3>1. j \in 1 .. n
        BY <1>2, <2>2
      <3> QED
        BY <1>3, <1>5, <3>1
    <2> QED
      BY <2>1, <2>2
  <1>7. Todo' = after
    OBVIOUS
  <1> HIDE DEF after
  <1>8. Todo' \in Seq([key : Nat, page : DOMAIN u]) /\ DOMAIN Todo' = 1 .. n + 1
    BY <1>5, <1>7 DEF S
  <1>9. \A j \in DOMAIN Todo' : HasKey(u, j, Todo'[j].key)
    BY <1>6, <1>7, <1>8
  <1> QED
    BY <1>8, <1>9 DEF IsTodo, HasKey

\* The path above page p, which has been split, is one in the tree after it.
IsPathAbove(t, u, p, x, r, path) ==
  /\ IsPath(u, path) /\ Len(path) = Len(call.path) - 1 /\ Last(path) = x
  /\ \A k \in 1 .. Len(path) : path[k] = call.path[k]
  /\ \A k \in 1 .. Len(path) : path[k] \in DOMAIN t /\ path[k] # p /\ path[k] # r
  /\ \A k \in 1 .. Len(path) : t[path[k]].lev = u[path[k]].lev

\* A path that stays one.
LEMMA PathAfterBelow ==
  ASSUME ArePages, NEW t, NEW u, NEW head, NEW p, NEW x, NEW i, NEW r, NEW plan,
         NEW left, NEW right, IsSplitTree(t, u, head, p, x, i, r, plan, left, right), IsSplit(t),
         NEW path, path = Front(call.path)
  PROVE  IsPathAbove(t, u, p, x, r, path)
  <1> DEFINE D == DOMAIN t
             n == Len(call.path)
  <1>1. /\ IsTree(t, rows) /\ p \in D /\ x \in D /\ p = Last(call.path) /\ x = ParentOf(call.path)
        /\ p # x /\ r \notin D /\ IsTree(u, rows) /\ u[Root].lev = t[Root].lev
        /\ DOMAIN u = D \cup {r} /\ u[x].lev = t[x].lev /\ \A y \in D \ {p, x} : u[y] = t[y]
        /\ Inserts(D \cup {r}, u[x].kids, t[x].kids, i + 1, r) /\ t[x].lev = t[p].lev + 1
        /\ t[p].lev \in Nat /\ i \in DOMAIN t[x].kids /\ HasKids(t, t[x])
    BY DEF IsSplitTree, IsParent, IsTree, IsNode, IsNodeData
  <1>2. /\ IsPath(t, call.path) /\ n \in Nat /\ n > 0 /\ p = call.path[n]
        /\ \A k \in 1 .. n : call.path[k] \in D /\ t[call.path[k]].lev \in Nat
        /\ \A j, k \in 1 .. n : j # k => t[call.path[j]].lev # t[call.path[k]].lev /\ call.path[j] # call.path[k]
        /\ \A k \in 1 .. n - 1 : t[call.path[k]].lev = t[call.path[k + 1]].lev + 1
    BY <1>1, PathPages DEF IsSplit
  <1>3. p # Root
    <2>1. t[x].lev <= t[Root].lev
      BY <1>1 DEF IsTree
    <2> QED
      BY <1>1, <2>1
  <1>4. /\ n > 1 /\ path \in Seq(D) /\ Len(path) = n - 1
        /\ \A k \in 1 .. n - 1 : path[k] = call.path[k]
    BY <1>1, <1>3, ParentIs
  <1>5. Last(path) = x /\ path[1] = Root
    <2>1. 1 \in 1 .. n - 1
      BY <1>2, <1>4
    <2> QED
      BY <1>1, <1>2, <1>4, <2>1 DEF ParentOf, IsPath
  <1> HIDE DEF D
  <1>6. ASSUME NEW k \in 1 .. n - 1
        PROVE  path[k] = call.path[k] /\ path[k] \in D /\ path[k] # p /\ path[k] # r /\ u[path[k]].lev = t[path[k]].lev
               /\ t[path[k]].lev + k = t[Root].lev + 1
    <2>1. k \in 1 .. n /\ k # n /\ n \in 1 .. n
      BY <1>2
    <2>2. path[k] = call.path[k] /\ path[k] \in D /\ path[k] # p
      BY <1>2, <1>4, <2>1
    <2>3. u[path[k]].lev = t[path[k]].lev
      BY <1>1, <2>2 DEF D
    <2>4. t[call.path[k]].lev + k = t[Root].lev + 1
      BY <1>2, <2>1 DEF IsPath
    <2> QED
      BY <1>1, <2>2, <2>3, <2>4
  <1>7. ASSUME NEW k \in 1 .. n - 1 - 1
        PROVE  Below(u, path[k], path[k + 1])
    <2> DEFINE a == path[k]
               b == path[k + 1]
    <2>1. k \in 1 .. n - 1 /\ k + 1 \in 1 .. n - 1 /\ k \in 1 .. Len(call.path) - 1
      BY <1>2
    <2>2. a = call.path[k] /\ b = call.path[k + 1] /\ a \in D /\ a # p
      BY <1>6, <2>1
    <2>3. Below(t, a, b)
      BY <1>2, <2>1, <2>2 DEF IsPath
    <2> HIDE DEF a, b
    <2>4. ASSUME a # x
          PROVE  Below(u, a, b)
      <3>1. u[a] = t[a]
        BY <1>1, <2>2, <2>4
      <3> QED
        BY <2>3, <3>1 DEF Below
    <2>5. ASSUME a = x
          PROVE  Below(u, a, b)
      <3>1. PICK j \in 1 .. Len(t[x].kids) : t[x].kids[j] = b
        BY <2>3, <2>5 DEF Below
      <3>2. t[x].kids \in Seq(D) /\ i \in 1 .. Len(t[x].kids)
        BY <1>1 DEF HasKids, D
      <3> DEFINE c == t[x].kids
                 g == u[x].kids
                 f == i + 1
      <3>3. /\ Len(g) = Len(c) + 1 /\ Len(c) \in Nat /\ f \in Nat
            /\ \A h \in 1 .. Len(c) + 1 : g[h] = IF h < f THEN c[h] ELSE IF h = f THEN r ELSE c[h - 1]
        BY <1>1, <3>2 DEF Inserts
      <3>4. j \in 1 .. Len(c) /\ c[j] = b
        BY <3>1
      <3> HIDE DEF c, g, f
      <3>5. CASE j < f
        <4>1. g[j] = b /\ j \in 1 .. Len(g)
          BY <3>3, <3>4, <3>5
        <4> QED
          BY <2>5, <4>1 DEF Below, g
      <3>6. CASE j >= f
        <4> DEFINE h == j + 1
        <4>1. h \in 1 .. Len(c) + 1 /\ h - 1 = j /\ ~(h < f) /\ h # f
          BY <3>3, <3>4, <3>6
        <4> HIDE DEF h
        <4>2. g[h] = b /\ h \in 1 .. Len(g)
          BY <3>3, <3>4, <4>1
        <4> QED
          BY <2>5, <4>2 DEF Below, g
      <3> QED
        BY <3>3, <3>4, <3>5, <3>6
    <2> QED
      BY <2>4, <2>5 DEF a, b
  <1>8. path \in Seq(DOMAIN u)
    BY <1>1, <1>4, SeqWider
  <1>9. IsPath(u, path)
    <2>1. Len(path) - 1 = n - 1 - 1 /\ Len(path) > 0
      BY <1>2, <1>4
    <2> QED
      BY <1>1, <1>4, <1>5, <1>6, <1>7, <1>8, <2>1 DEF IsPath
  <1> QED
    BY <1>4, <1>5, <1>6, <1>9 DEF D, IsPathAbove

\* What Fits and DividerOf say of a page that stays as it is.
LEMMA SamePage ==
  ASSUME NEW q, pages'[q] = pages[q], NEW cell
  PROVE  (Fits(q, cell)' <=> Fits(q, cell)) /\ DividerOf(q, cell)' = DividerOf(q, cell)
  <1>1. Fits(q, cell)' <=> Fits(q, cell)
    BY DEF Fits
  <1>2. DividerOf(q, cell)' = DividerOf(q, cell)
    BY DEF DividerOf, Plan, InteriorPlan
  <1> QED
    BY <1>1, <1>2

\* The divider that came to a full parent is what the parent is split for.
LEMMA SplitAfterBelow ==
  ASSUME ArePages, call.op = "split", NEW t, NEW u, NEW head, NEW p, NEW x, NEW i, NEW r, NEW plan,
         NEW left, NEW right, IsSplitTree(t, u, head, p, x, i, r, plan, left, right), IsSplit(t), IsTodo(t),
         plan = Plan(pages[p], WithCell(pages[p].cells, call.cell)), AfterBelow(p, x, r, plan),
         NEW cell, cell = [key |-> plan.divider, page |-> p], ~Fits(x, cell), pages'[x] = pages[x],
         NEW todo, todo = Append(call.todo, [key |-> plan.divider, page |-> r]),
         NEW path, path = Front(call.path), NEW n, n = Len(call.path),
         call' = [op |-> "split", path |-> path, cell |-> cell, todo |-> todo]
  PROVE  IsSplit(u)'
  <1> DEFINE d == plan.divider
             L == Len(call.todo)
  <1>1. /\ IsPath(u, path) /\ Len(path) = n - 1 /\ Last(path) = x
        /\ \A k \in 1 .. Len(path) : path[k] = call.path[k]
        /\ \A k \in 1 .. Len(path) : path[k] \in DOMAIN t /\ path[k] # p /\ path[k] # r
        /\ \A k \in 1 .. Len(path) : t[path[k]].lev = u[path[k]].lev
    <2>1. IsPathAbove(t, u, p, x, r, path)
      BY PathAfterBelow
    <2> QED
      BY <2>1 DEF IsPathAbove
  <1>2. /\ IsTree(t, rows) /\ Hold(t, head) /\ p \in DOMAIN t /\ x \in DOMAIN t /\ x # Last(call.path) /\ p = Last(call.path)
        /\ t[x].lev = L + 1 /\ u[x].lev = t[x].lev /\ u[x].rng = t[x].rng /\ d \in t[x].rng
        /\ cell \in CellRecords /\ IsSpot(t[x].keys, i, d) /\ t[x].lev > 0 /\ IsParent(t, p, x, i)
    BY DEF IsSplitTree, IsParent
  <1>3. n \in Nat /\ n > 1 /\ p = call.path[n]
    <2>1. IsPath(t, call.path)
      BY DEF IsSplit
    <2>2. n \in Nat /\ Last(call.path) = call.path[n]
      BY <1>2, <2>1, PathPages
    <2>3. Len(path) > 0
      BY <1>1 DEF IsPath
    <2>4. n > 1
      BY <1>1, <2>2, <2>3
    <2> QED
      BY <1>2, <2>2, <2>4
  <1>4. /\ call'.path = path /\ call'.cell = cell /\ call'.todo = todo
    OBVIOUS
  <1>5. \A j \in 1 .. Len(pages'[x].cells) : pages'[x].cells[j].key # cell.key
    <2>1. KeysAre(t[x].keys, pages[x].cells)
      BY <1>2, TreePage DEF OfTree, Held, Shows
    <2> QED
      BY <1>2, <2>1 DEF IsSpot, KeysAre
  <1>6. ~Fits(x, cell)'
    BY DEF Fits
  <1>7. Len(todo) = L + 1 /\ todo[L + 1].key = d
    <2> DEFINE S == [key : Nat, page : DOMAIN t \cup {r}]
               e == [key |-> d, page |-> r]
    <2>1. call.todo \in Seq([key : Nat, page : DOMAIN t])
      BY DEF IsTodo, Todo
    <2>2. e \in S
      <3>1. d \in Rowids
        BY DEF IsSplitTree, IsDealt
      <3> QED
        BY <3>1, BTreeAssumption
    <2>3. [key : Nat, page : DOMAIN t] \subseteq S
      OBVIOUS
    <2> DEFINE c == call.todo
    <2>4. e.key = d /\ todo = Append(c, e)
      OBVIOUS
    <2> HIDE DEF S, e, c
    <2>5. c \in Seq(S)
      BY <2>1, <2>3, SeqWider DEF c
    <2>6. Len(Append(c, e)) = Len(c) + 1 /\ Append(c, e)[Len(c) + 1] = e
      BY <2>2, <2>5
    <2> QED
      BY <2>4, <2>6 DEF c
  <1>8. PICK arr : Arrives(t, call.path, arr) /\ arr[n] = call.cell
    BY DEF IsSplit
  <1> DEFINE m == n - 1
             less == [k \in 1 .. m |-> arr[k]]
  <1>9. m \in Nat /\ m > 0 /\ m + 1 = n /\ Len(path) = m
    <2>1. n \in Nat /\ n > 1 /\ Len(path) = n - 1
      BY <1>1, <1>3
    <2> QED
      BY <2>1
  <1> HIDE DEF m
  <1>10. ASSUME NEW k \in 1 .. m
         PROVE  /\ k \in 1 .. n /\ path[k] = call.path[k] /\ less[k] = arr[k] /\ pages'[path[k]] = pages[path[k]]
                /\ t[path[k]].lev = u[path[k]].lev
    <2>1. path[k] \in DOMAIN pages
      BY <1>1, <1>2, <1>9 DEF Hold, InTree
    <2> QED
      BY <1>1, <1>9, <2>1 DEF AfterBelow
  <1>11. arr[m] = cell
    <2>1. m \in 1 .. n - 1
      BY <1>9
    <2>2. arr[m] = [key |-> DividerOf(call.path[m + 1], arr[m + 1]), page |-> call.path[m + 1]]
      BY <1>8, <2>1 DEF Arrives
    <2> QED
      BY <1>3, <1>8, <1>9, <2>2 DEF DividerOf
  <1>12. Arrives(u, path, less)'
    <2>1. DOMAIN less = 1 .. Len(path)
      BY <1>9
    <2>2. ASSUME NEW k \in 1 .. Len(path) - 1
          PROVE  less[k] = [key |-> DividerOf(path[k + 1], less[k + 1])', page |-> path[k + 1]]
      <3> DEFINE j == k + 1
      <3>1. k \in 1 .. m /\ j \in 1 .. m /\ k \in 1 .. Len(call.path) - 1
        BY <1>9
      <3>2. arr[k] = [key |-> DividerOf(call.path[j], arr[j]), page |-> call.path[j]]
        BY <1>8, <3>1 DEF Arrives
      <3> HIDE DEF j, less
      <3>3. less[k] = [key |-> DividerOf(path[j], less[j]), page |-> path[j]]
        BY <1>10, <3>1, <3>2
      <3>4. DividerOf(path[j], less[j])' = DividerOf(path[j], less[j])
        BY <1>10, <3>1, SamePage
      <3> QED
        BY <3>3, <3>4 DEF j
    <2>3. ASSUME NEW k \in 1 .. Len(path), u[path[k]].lev > 0,
                 \A j \in k .. Len(path) : ~Fits(path[j], less[j])'
          PROVE  DividerOf(path[k], less[k])' # less[k].key
      <3>1. k \in 1 .. m /\ k \in 1 .. Len(call.path) /\ k \in Nat
        BY <1>9
      <3>2. \A j \in k .. Len(call.path) : ~Fits(call.path[j], arr[j])
        <4> SUFFICES ASSUME NEW j \in k .. n
                     PROVE  ~Fits(call.path[j], arr[j])
          OBVIOUS
        <4>1. CASE j = n
          BY <1>2, <1>3, <1>8, <4>1 DEF IsSplit
        <4>2. CASE j # n
          <5>1. j \in 1 .. m /\ j \in k .. Len(path)
            BY <1>9, <3>1, <4>2
          <5> HIDE DEF less
          <5>2. ~Fits(path[j], less[j])'
            BY <2>3, <5>1
          <5>3. ~Fits(path[j], less[j])
            BY <1>10, <5>1, <5>2, SamePage
          <5> QED
            BY <1>10, <5>1, <5>3
        <4> QED
          BY <4>1, <4>2
      <3> HIDE DEF less
      <3>3. t[call.path[k]].lev > 0
        BY <1>10, <2>3, <3>1
      <3>4. DividerOf(call.path[k], arr[k]) # arr[k].key
        BY <1>8, <3>1, <3>2, <3>3 DEF Arrives
      <3>5. DividerOf(path[k], less[k]) # less[k].key
        BY <1>10, <3>1, <3>4
      <3>6. DividerOf(path[k], less[k])' = DividerOf(path[k], less[k])
        BY <1>10, <3>1, SamePage
      <3> QED
        BY <3>5, <3>6
    <2> HIDE DEF less
    <2> QED
      BY <2>1, <2>2, <2>3 DEF Arrives
  <1>13. less[Len(path)] = cell
    BY <1>9, <1>11
  <1> HIDE DEF less
  <1>14. (\E a : Arrives(u, call.path, a) /\ a[Len(call.path)] = call.cell)'
    BY <1>4, <1>12, <1>13
  <1> HIDE DEF d
  <1>15. cell.key = d
    BY DEF d
  <1>16. Last(call'.path) = x /\ IsPath(u, call'.path)
    BY <1>1, <1>4
  <1>17. u[x].lev = L + 1 /\ u[x].lev > 0 /\ u[x].lev # 0 /\ L \in Nat
    BY <1>2 DEF IsParent
  <1>18. call'.cell.key \in u[x].rng /\ call'.cell \in CellRecords
         /\ call'.cell.key = call'.todo[u[x].lev].key /\ u[x].lev = Len(call'.todo)
    BY <1>2, <1>4, <1>7, <1>15, <1>17 DEF d
  <1>19. ~Fits(x, call.cell)'
    BY <1>4, <1>6 DEF Fits
  <1> QED
    BY <1>4, <1>5, <1>14, <1>16, <1>17, <1>18, <1>19 DEF IsSplit

-----------------------------------------------------------------------------
\* A page below the root is split: the tree stays one

\* A split below the root keeps the invariant of the tree, and does not fail.
LEMMA SplitBelowKeeps ==
  ASSUME PagesHaveRoom, TreeInv, SplitBelow
  PROVE  TreeInv' /\ ret' = ret
  <1>1. ArePages /\ Root \in DOMAIN pages /\ rows \subseteq Rowids
    BY DEF TreeInv
  <1>2. PICK t, head : Represents(t, head)
    BY DEF TreeInv
  <1>3. IsTree(t, rows) /\ Hold(t, head) /\ AreChains(head) /\ IsCall(t)
    BY <1>2 DEF Represents
  <1>4. call.op = "split" /\ Last(call.path) # Root
    BY DEF SplitBelow
  <1>5. IsSplit(t) /\ IsTodo(t)
    BY <1>3, <1>4 DEF IsCall, Idle
  <1>6. PICK p, x, i : IsParent(t, p, x, i)
    BY <1>3, <1>4, <1>5, ParentIs
  <1>7. PICK plan, r : plan = Plan(pages[p], WithCell(pages[p].cells, call.cell)) /\ r = Len(pages) + 1
    OBVIOUS
  <1>8. /\ p = Last(call.path) /\ x = ParentOf(call.path) /\ p # x /\ p \in DOMAIN t /\ x \in DOMAIN t
        /\ t[x].lev > 0
    BY <1>6 DEF IsParent
  <1>9. OfTree(t, rows, head, p) /\ OfTree(t, rows, head, x)
    BY <1>1, <1>3, <1>8, TreePage
  <1>10. PICK left, right :
            IsDealt(t, rows, t[p], plan, p, pages[p].kind, call.todo, head, left, right)
    BY <1>1, <1>3, <1>4, <1>5, <1>7, <1>8, PageIsDealt
  <1>11. PICK u : IsSplitTree(t, u, head, p, x, i, r, plan, left, right)
    BY <1>1, <1>3, <1>4, <1>6, <1>7, <1>10, TreeIsSplit
  <1>12. AfterBelow(p, x, r, plan)
    <2>1. p \in DOMAIN pages /\ x \in DOMAIN pages /\ p >= Root /\ pages[x].kind = "interior"
          /\ pages[p].kind \in {"leaf", "interior"}
      BY <1>8, <1>9 DEF OfTree, InTree, Shows
    <2>2. /\ plan.divider \in Rowids /\ IsHalf(p, pages[p].kind, plan.left, plan.leftLast)
          /\ IsHalf(p, pages[p].kind, plan.right, plan.rightLast)
      BY <1>10 DEF IsDealt
    <2> DEFINE S == [key : Nat, page : DOMAIN t \cup {r}]
    <2>3. call.todo \in Seq([key : Nat, page : DOMAIN t])
      BY <1>4, <1>5 DEF IsTodo, Todo
    <2>4. [key |-> plan.divider, page |-> r] \in S
      BY <2>2, BTreeAssumption
    <2>5. call.todo \in Seq(S)
      <3>1. [key : Nat, page : DOMAIN t] \subseteq S
        OBVIOUS
      <3> HIDE DEF S
      <3> QED
        BY <2>3, <3>1, SeqWider
    <2> HIDE DEF S
    <2> QED
      BY <1>1, <1>7, <1>8, <2>1, <2>2, <2>4, <2>5, SplitBelowPages
  <1>13. Hold(u, head)'
    BY <1>1, <1>4, <1>5, <1>11, <1>12, HoldAfterBelow
  <1>14. rows' = rows /\ ret' = ret /\ ArePages' /\ DOMAIN pages' = 1 .. r
    BY <1>12 DEF AfterBelow
  <1>15. IsTree(u, rows')
    BY <1>11, <1>14 DEF IsSplitTree
  <1>16. AreChains(head)'
    <2>1. DOMAIN pages \subseteq DOMAIN pages'
      BY <1>1, <1>7, <1>14 DEF ArePages
    <2>2. \A y \in DOMAIN pages : pages[y].kind = "overflow" => pages'[y] = pages[y]
      <3>1. pages[p].kind # "overflow" /\ pages[x].kind # "overflow"
        BY <1>9 DEF OfTree, InTree
      <3> QED
        BY <1>12, <3>1 DEF AfterBelow
    <2>3. PICK after, Q : after = pages' /\ Q = rows'
      OBVIOUS
    <2>4. Q \in SUBSET rows /\ DOMAIN pages \subseteq DOMAIN after
          /\ \A y \in DOMAIN pages : pages[y].kind = "overflow" => after[y] = pages[y]
      BY <1>14, <2>1, <2>2, <2>3
    <2> QED
      BY <1>1, <1>3, <2>3, <2>4, ChainsKept
  <1>17. IsTodo(u)'
    <2>1. Todo' = Append(call.todo, [key |-> plan.divider, page |-> r])
      BY <1>8, <1>9, <1>12, ParentHolds DEF OfTree
    <2> QED
      BY <1>1, <1>4, <1>5, <1>7, <1>11, <2>1, TodoAfterBelow
  <1>18. IsCall(u)'
    <2> DEFINE cell == [key |-> plan.divider, page |-> p]
    <2>1. PICK todo : todo = Append(call.todo, [key |-> plan.divider, page |-> r])
      OBVIOUS
    <2>2. CASE call' = [op |-> "retarget", todo |-> todo]
      <3>1. call'.op = "retarget" /\ call' = [op |-> "retarget", todo |-> call'.todo]
        BY <2>2
      <3>2. call'.todo # <<>>
        <4>1. call.todo \in Seq([key : Nat, page : DOMAIN t])
          BY <1>4, <1>5 DEF IsTodo, Todo
        <4>2. Len(todo) # 0
          BY <2>1, <4>1
        <4>3. Len(<<>>) = 0
          OBVIOUS
        <4> QED
          BY <2>2, <4>2, <4>3
      <3> QED
        BY <1>17, <3>1, <3>2 DEF IsCall
    <2>3. CASE /\ ~Fits(x, cell) /\ pages'[x] = pages[x]
               /\ call' = [op |-> "split", path |-> Front(call.path), cell |-> cell, todo |-> todo]
      <3>1. PICK path, n : path = Front(call.path) /\ n = Len(call.path)
        OBVIOUS
      <3>2. IsSplit(u)'
        BY <1>1, <1>4, <1>5, <1>7, <1>11, <1>12, <2>1, <2>3, <3>1, SplitAfterBelow
      <3>3. /\ call'.op = "split"
            /\ call' = [op |-> "split", path |-> call'.path, cell |-> call'.cell, todo |-> call'.todo]
        BY <2>3
      <3> QED
        BY <1>17, <3>2, <3>3 DEF IsCall
    <2> QED
      BY <1>12, <2>1, <2>2, <2>3 DEF AfterBelow
  <1>19. Represents(u, head)'
    BY <1>13, <1>15, <1>16, <1>18 DEF Represents
  <1>20. Root \in DOMAIN pages' /\ rows' \subseteq Rowids
    BY <1>1, <1>7, <1>14 DEF ArePages
  <1> QED
    BY <1>14, <1>19, <1>20 DEF TreeInv

-----------------------------------------------------------------------------
\* The root is split

\* A sequence with two elements more.
LEMMA TwoAdded ==
  ASSUME NEW S, NEW s \in Seq(S), NEW a \in S, NEW b \in S
  PROVE  /\ s \o <<a, b>> \in Seq(S) /\ Len(s \o <<a, b>>) = Len(s) + 2
         /\ \A k \in 1 .. Len(s) : (s \o <<a, b>>)[k] = s[k]
         /\ (s \o <<a, b>>)[Len(s) + 1] = a /\ (s \o <<a, b>>)[Len(s) + 2] = b
  OBVIOUS

\* The root with the two halves below it.
Parent(d, l, r) ==
  [kind |-> "interior", cells |-> <<[key |-> d, page |-> l]>>, used |-> DividerSize, right |-> r]

AfterRoot(l, r, plan) ==
  LET kind == pages[Root].kind
  IN  /\ DOMAIN pages' = 1 .. l
      /\ pages'[l] = Half(kind, plan.left, plan.leftLast)
      /\ pages'[r] = Half(kind, plan.right, plan.rightLast)
      /\ pages'[Root] = Parent(plan.divider, l, r)
      /\ \A y \in DOMAIN pages \ {Root} : pages'[y] = pages[y]
      /\ call' = Resume(call.todo) /\ rows' = rows /\ ret' = ret /\ ArePages'

\* A page with one divider has room for it.
LEMMA ParentIsPage ==
  ASSUME PagesHaveRoom, NEW d \in Rowids, NEW l \in Nat, NEW r \in Nat
  PROVE  Parent(d, l, r) \in PageRecords /\ IsPage(Root, Parent(d, l, r))
  <1> DEFINE pg == Parent(d, l, r)
             cell == [key |-> d, page |-> l]
  <1>1. /\ pg = [kind |-> "interior", cells |-> <<cell>>, used |-> DividerSize, right |-> r]
        /\ pg.kind = "interior" /\ pg.cells = <<cell>> /\ pg.used = DividerSize /\ pg.right = r
    BY DEF Parent
  <1>2. cell \in CellRecords
    BY DEF CellRecords
  <1>3. DividerSize \in Nat /\ PtrSize \in Nat /\ 2 * (DividerSize + PtrSize) <= Room(Root, "interior")
        /\ Room(Root, "interior") \in Int
    BY RoomTypes
  <1> HIDE DEF pg, cell
  <1>4. pg.cells \in Seq(CellRecords) /\ Len(pg.cells) = 1
    BY <1>1, <1>2
  <1>5. pg \in PageRecords
    <2>1. <<cell>> \in Seq(CellRecords)
      BY <1>2
    <2> QED
      BY <1>1, <1>3, <2>1 DEF PageRecords
  <1>6. DividerSize + PtrSize * 1 <= Room(Root, "interior") /\ DividerSize = DividerSize * 1
    BY <1>3
  <1>7. Root >= Root
    BY BTreeAssumption
  <1>8. IsPage(Root, pg)
    BY <1>1, <1>4, <1>6, <1>7 DEF IsPage
  <1> QED
    BY <1>5, <1>8 DEF pg

\* What a split of the root writes: two new pages with the halves, and the root
\* with one divider.
LEMMA SplitRootPages ==
  ASSUME PagesHaveRoom, ArePages, SplitRoot, NEW plan, NEW l, NEW r, Root \in DOMAIN pages,
         plan = Plan(pages[Root], WithCell(pages[Root].cells, call.cell)),
         r = Len(pages) + 1, l = Len(pages) + 2,
         pages[Root].kind \in {"leaf", "interior"}, plan.divider \in Rowids,
         IsHalf(Root, pages[Root].kind, plan.left, plan.leftLast),
         IsHalf(Root, pages[Root].kind, plan.right, plan.rightLast)
  PROVE  AfterRoot(l, r, plan)
  <1> DEFINE kind == pages[Root].kind
             left == Half(kind, plan.left, plan.leftLast)
             right == Half(kind, plan.right, plan.rightLast)
             root == Parent(plan.divider, l, r)
             one == [pages EXCEPT ![Root] = root]
             both == one \o <<right, left>>
  <1>1. /\ pages \in Seq(PageRecords) /\ Len(pages) \in Nat /\ DOMAIN pages = 1 .. Len(pages)
        /\ Root \in 1 .. Len(pages) /\ r \in Nat /\ l \in Nat /\ r # 1 /\ l # 1 /\ l # r
        /\ r >= Root /\ l >= Root /\ r \notin DOMAIN pages /\ l \notin DOMAIN pages
        /\ r = Len(pages) + 1 /\ l = Len(pages) + 2
    <2>1. pages \in Seq(PageRecords) /\ DOMAIN pages = 1 .. Len(pages) /\ Len(pages) \in Nat
      BY DEF ArePages
    <2> QED
      BY <2>1, BTreeAssumption
  <1>2. Rewritten(l, kind, plan.left, plan.leftLast) = left /\ left \in PageRecords /\ IsPage(l, left)
    <2>1. kind \in {"leaf", "interior"} /\ IsHalf(Root, kind, plan.left, plan.leftLast)
      OBVIOUS
    <2> HIDE DEF kind
    <2>2. Writes(l, kind, plan.left, plan.leftLast)
      BY <1>1, <2>1, HalfWritten
    <2> QED
      BY <2>2 DEF Writes
  <1>3. Rewritten(r, kind, plan.right, plan.rightLast) = right /\ right \in PageRecords /\ IsPage(r, right)
    <2>1. kind \in {"leaf", "interior"} /\ IsHalf(Root, kind, plan.right, plan.rightLast)
      OBVIOUS
    <2> HIDE DEF kind
    <2>2. Writes(r, kind, plan.right, plan.rightLast)
      BY <1>1, <2>1, HalfWritten
    <2> QED
      BY <2>2 DEF Writes
  <1>4. left.cells = plan.left /\ right.cells = plan.right
    BY DEF Half
  <1> HIDE DEF left, right
  <1>5. root \in PageRecords /\ IsPage(Root, root)
    BY <1>1, ParentIsPage
  <1>6. /\ pages' = both /\ call' = Resume(call.todo) /\ rows' = rows /\ ret' = ret
    <2> DEFINE A == Rewritten(l, pages[Root].kind, plan.left, plan.leftLast)
               G == Rewritten(r, pages[Root].kind, plan.right, plan.rightLast)
    <2>1. A = left /\ G = right
      BY <1>2, <1>3
    <2>2. /\ \/ /\ A.cells = plan.left /\ G.cells = plan.right
                /\ pages' = [pages EXCEPT ![Root] = root] \o <<G, A>>
                /\ call' = Resume(call.todo) /\ ret' = ret
             \/ A.cells # plan.left
             \/ A.cells = plan.left /\ G.cells # plan.right
          /\ rows' = rows
      BY DEF SplitRoot, Parent
    <2> HIDE DEF A, G, root
    <2> QED
      BY <1>4, <2>1, <2>2
  <1> HIDE DEF root
  <1>7. /\ one \in Seq(PageRecords) /\ Len(one) = Len(pages)
        /\ \A k \in 1 .. Len(pages) : one[k] = IF k = Root THEN root ELSE pages[k]
    BY <1>1, <1>5, SeqWritten
  <1> HIDE DEF one
  <1>8. /\ both \in Seq(PageRecords) /\ Len(both) = Len(one) + 2
        /\ \A k \in 1 .. Len(one) : both[k] = one[k]
        /\ both[Len(one) + 1] = right /\ both[Len(one) + 2] = left
    <2>1. one \in Seq(PageRecords) /\ right \in PageRecords /\ left \in PageRecords
      BY <1>2, <1>3, <1>7
    <2> QED
      BY <2>1, TwoAdded
  <1> HIDE DEF both
  <1>9. /\ both \in Seq(PageRecords) /\ Len(both) = l /\ DOMAIN both = 1 .. l
        /\ \A k \in 1 .. Len(pages) : both[k] = IF k = Root THEN root ELSE pages[k]
        /\ both[r] = right /\ both[l] = left
    BY <1>1, <1>7, <1>8
  <1>10. ASSUME NEW y \in 1 .. l
         PROVE  IsPage(y, both[y])
    <2>1. y \in 1 .. Len(pages) \/ y = r \/ y = l
      BY <1>1
    <2>2. \A k \in 1 .. Len(pages) : IsPage(k, pages[k])
      BY <1>1 DEF ArePages
    <2> QED
      BY <1>2, <1>3, <1>5, <1>9, <2>1, <2>2
  <1>11. ArePages'
    BY <1>6, <1>9, <1>10 DEF ArePages, IsPage
  <1> QED
    BY <1>1, <1>6, <1>9, <1>11 DEF AfterRoot, left, right, root

-----------------------------------------------------------------------------
\* The tree after the root is split

GrownTree(t, l, r, left, right, d) ==
  [y \in DOMAIN t \cup {l, r} |->
     IF y = l THEN left ELSE IF y = r THEN right
     ELSE IF y = Root THEN Node(t[Root].lev + 1, Nat, <<d>>, <<l, r>>) ELSE t[y]]

\* A split of the root keeps the invariant of the tree, and does not fail.
LEMMA SplitRootKeeps ==
  ASSUME PagesHaveRoom, TreeInv, SplitRoot
  PROVE  TreeInv' /\ ret' = ret
  <1>1. ArePages /\ Root \in DOMAIN pages /\ rows \subseteq Rowids
    BY DEF TreeInv
  <1>2. PICK t, head : Represents(t, head)
    BY DEF TreeInv
  <1>3. IsTree(t, rows) /\ Hold(t, head) /\ AreChains(head) /\ IsCall(t)
    BY <1>2 DEF Represents
  <1>4. call.op = "split" /\ Last(call.path) = Root
    BY DEF SplitRoot
  <1>5. IsSplit(t) /\ IsTodo(t)
    BY <1>3, <1>4 DEF IsCall, Idle
  <1>6. PICK plan, r, l, todo : plan = Plan(pages[Root], WithCell(pages[Root].cells, call.cell))
                          /\ r = Len(pages) + 1 /\ l = Len(pages) + 2 /\ todo = call.todo
    OBVIOUS
  <1>7. Root \in DOMAIN t /\ t[Root].rng = Nat /\ t[Root].lev = Len(todo)
    BY <1>3, <1>4, <1>5, <1>6 DEF IsTree, IsSplit
  <1>8. OfTree(t, rows, head, Root)
    BY <1>1, <1>3, <1>7, TreePage
  <1>9. PICK left, right :
            IsDealt(t, rows, t[Root], plan, Root, pages[Root].kind, call.todo, head, left, right)
    BY <1>1, <1>3, <1>4, <1>5, <1>6, PageIsDealt
  <1>10. /\ plan.divider \in Rowids /\ Halves(t, rows, t[Root], plan.divider, left, right)
         /\ IsHalf(Root, pages[Root].kind, plan.left, plan.leftLast)
         /\ IsHalf(Root, pages[Root].kind, plan.right, plan.rightLast)
         /\ Shows(left, pages[Root].kind, plan.left, plan.leftLast, todo, head)
         /\ Shows(right, pages[Root].kind, plan.right, plan.rightLast, todo, head)
    BY <1>6, <1>9 DEF IsDealt
  <1>11. AfterRoot(l, r, plan)
    <2>1. pages[Root].kind \in {"leaf", "interior"}
      BY <1>8 DEF OfTree, Shows
    <2> QED
      BY <1>1, <1>6, <1>10, <2>1, SplitRootPages
  <1>12. /\ DOMAIN pages = 1 .. Len(pages) /\ Len(pages) \in Nat /\ r \in Nat /\ l \in Nat /\ l # r
         /\ r \notin DOMAIN pages /\ l \notin DOMAIN pages /\ DOMAIN t = InTree /\ l # Root /\ r # Root
         /\ r \notin DOMAIN t /\ l \notin DOMAIN t /\ r > Root /\ l > Root
    <2>1. DOMAIN pages = 1 .. Len(pages) /\ Len(pages) \in Nat /\ DOMAIN t = InTree
      BY <1>1, <1>3 DEF ArePages, Hold
    <2>2. r \in Nat /\ l \in Nat /\ l # r /\ r \notin 1 .. Len(pages) /\ l \notin 1 .. Len(pages)
          /\ r > Root /\ l > Root
      BY <1>1, <1>6, <2>1, BTreeAssumption
    <2> QED
      BY <1>1, <2>1, <2>2 DEF InTree
  <1> DEFINE d == plan.divider
             kind == pages[Root].kind
  <1>13. PICK u : u = GrownTree(t, l, r, left, right, d)
    OBVIOUS
  <1>14. /\ DOMAIN u = DOMAIN t \cup {l, r} /\ u[l] = left /\ u[r] = right
         /\ u[Root] = Node(t[Root].lev + 1, Nat, <<d>>, <<l, r>>)
         /\ \A y \in DOMAIN t \ {Root} : u[y] = t[y]
    BY <1>7, <1>12, <1>13 DEF GrownTree
  <1>15. u[Root].lev = t[Root].lev + 1 /\ u[Root].rng = Nat /\ u[Root].keys = <<d>> /\ u[Root].kids = <<l, r>>
    BY <1>14 DEF Node
  <1>16. IsTree(u, rows)
    <2>1. IsGrown(u, t, l, r, left, right, d)
      BY <1>14, <1>15 DEF IsGrown
    <2> HIDE DEF d
    <2>2. Halves(t, rows, t[Root], d, left, right)
      BY <1>10 DEF d
    <2> QED
      BY <1>3, <1>12, <2>1, <2>2, RootSplit
  <1>17. /\ \A y : Held(y)' = pages'[y].cells
         /\ Todo' = todo /\ Todo = todo
         /\ todo \in Seq([key : Nat, page : DOMAIN t])
         /\ call' = Resume(todo)
    <2>1. Todo = todo /\ todo \in Seq([key : Nat, page : DOMAIN t]) /\ call' = Resume(todo)
      BY <1>4, <1>5, <1>6, <1>11 DEF Todo, IsTodo, AfterRoot
    <2>2. CASE todo = <<>>
      BY <2>1, <2>2 DEF Held, Todo, Resume, Idle
    <2>3. CASE todo # <<>>
      BY <2>1, <2>3 DEF Held, Todo, Resume, Idle
    <2> QED
      BY <2>1, <2>2, <2>3
  <1>18. /\ DOMAIN pages' = 1 .. l
         /\ pages'[l] = Half(kind, plan.left, plan.leftLast)
         /\ pages'[r] = Half(kind, plan.right, plan.rightLast)
         /\ pages'[Root] = Parent(d, l, r)
         /\ \A y \in DOMAIN pages \ {Root} : pages'[y] = pages[y]
         /\ rows' = rows /\ ret' = ret /\ ArePages'
    BY <1>11 DEF AfterRoot
  <1>19. InTree' = DOMAIN u
    <2>1. kind # "overflow" /\ pages'[l].kind = kind /\ pages'[r].kind = kind /\ pages'[Root].kind = "interior"
      BY <1>8, <1>18 DEF OfTree, InTree, Half, Parent
    <2>2. DOMAIN pages' = DOMAIN pages \cup {l, r}
      BY <1>6, <1>12, <1>18
    <2>3. ASSUME NEW y \in DOMAIN pages'
          PROVE  (y >= Root /\ pages'[y].kind # "overflow") <=> y \in DOMAIN u
      <3> l >= Root /\ r >= Root
        BY <1>12, BTreeAssumption
      <3>0. CASE y = l
        BY <1>14, <2>1, <3>0
      <3>1. CASE y = r
        BY <1>14, <2>1, <3>1
      <3>2. CASE y = Root
        BY <1>7, <1>14, <2>1, <3>2, BTreeAssumption
      <3>3. CASE y \in DOMAIN pages \ {Root}
        BY <1>12, <1>14, <1>18, <3>3 DEF InTree
      <3> QED
        BY <2>2, <2>3, <3>0, <3>1, <3>2, <3>3
    <2>4. DOMAIN u \subseteq DOMAIN pages'
      BY <1>12, <1>14, <2>2 DEF InTree
    <2> QED
      BY <2>3, <2>4 DEF InTree
  <1>20. ASSUME NEW y \in DOMAIN u
         PROVE  Holds(y, u[y], head)'
    <2>1. CASE y = Root
      <3> DEFINE cell == [key |-> d, page |-> l]
                 n == u[Root]
      <3>1. /\ Held(Root)' = <<cell>> /\ pages'[Root].kind = "interior" /\ pages'[Root].right = r
        BY <1>17, <1>18 DEF Parent
      <3>2. KeysAre(n.keys, <<cell>>)
        <4>1. Len(<<cell>>) = 1 /\ Len(<<d>>) = 1 /\ <<cell>>[1] = cell /\ <<d>>[1] = d /\ cell.key = d
          OBVIOUS
        <4> QED
          BY <1>15, <4>1 DEF KeysAre
      <3>3. n.lev > Len(todo) /\ n.lev > 0 /\ Len(todo) \in Nat /\ n.lev \in Nat
        BY <1>7, <1>15, <1>17
      <3>4. Points(n, <<cell>>, r, todo)
        <4>1. ASSUME NEW j \in 1 .. 1 + 1
              PROVE  n.kids[j] = PointerIn(<<cell>>, r, j) /\ ~Waits(n, todo, j)
          <5>1. n.kids[1] = l /\ n.kids[2] = r /\ Len(<<cell>>) = 1 /\ <<cell>>[1].page = l
            BY <1>15
          <5>2. ~Waits(n, todo, j)
            BY <3>3 DEF Waits
          <5>3. j = 1 \/ j = 2
            OBVIOUS
          <5> HIDE DEF n, cell
          <5> QED
            BY <5>1, <5>2, <5>3 DEF PointerIn
        <4>2. Len(<<cell>>) = 1
          OBVIOUS
        <4> HIDE DEF n, cell
        <4> QED
          BY <4>1, <4>2 DEF Points, PointsTo
      <3>5. Shows(n, "interior", <<cell>>, r, todo, head)
        BY <3>2, <3>3, <3>4 DEF Shows
      <3> HIDE DEF n, cell
      <3>6. n.lev # 0 /\ u[Root] = n
        BY <3>3 DEF n
      <3> QED
        BY <1>17, <2>1, <3>1, <3>5, <3>6 DEF Holds
    <2>2. CASE y = l
      <3>1. Held(l)' = plan.left /\ pages'[l].kind = kind /\ pages'[l].right = plan.leftLast
        BY <1>17, <1>18 DEF Half
      <3> QED
        BY <1>10, <1>14, <1>17, <2>2, <3>1 DEF Holds, IsHalf
    <2>3. CASE y = r
      <3>1. Held(r)' = plan.right /\ pages'[r].kind = kind /\ pages'[r].right = plan.rightLast
        BY <1>17, <1>18 DEF Half
      <3> QED
        BY <1>10, <1>14, <1>17, <2>3, <3>1 DEF Holds, IsHalf
    <2>4. CASE y \in DOMAIN t \ {Root}
      <3>1. y \in DOMAIN pages \ {Root} /\ Holds(y, t[y], head)
        BY <1>3, <1>12, <2>4 DEF Hold, InTree
      <3>2. Held(y) = pages[y].cells /\ pages'[y] = pages[y] /\ u[y] = t[y] /\ Held(y)' = pages[y].cells
        BY <1>4, <1>14, <1>17, <1>18, <2>4, <3>1 DEF Held
      <3> QED
        BY <1>17, <3>1, <3>2 DEF Holds
    <2> QED
      BY <1>14, <2>1, <2>2, <2>3, <2>4
  <1>21. Hold(u, head)'
    BY <1>19, <1>20 DEF Hold
  <1>22. AreChains(head)'
    <2>1. \A y \in DOMAIN pages : pages[y].kind = "overflow" => pages'[y] = pages[y]
      BY <1>8, <1>18 DEF OfTree, InTree
    <2>2. PICK after, Q : after = pages' /\ Q = rows'
      OBVIOUS
    <2>3. Q \in SUBSET rows /\ DOMAIN pages \subseteq DOMAIN after
          /\ \A y \in DOMAIN pages : pages[y].kind = "overflow" => after[y] = pages[y]
      BY <1>6, <1>12, <1>18, <2>1, <2>2
    <2> QED
      BY <1>1, <1>3, <2>2, <2>3, ChainsKept
  <1>23. IsTodo(u)'
    <2>1. todo \in Seq([key : Nat, page : DOMAIN u])
      <3>1. [key : Nat, page : DOMAIN t] \subseteq [key : Nat, page : DOMAIN u]
        BY <1>14
      <3> QED
        BY <1>17, <3>1, SeqWider
    <2>2. ASSUME NEW j \in DOMAIN todo
          PROVE  HasKey(u, j, todo[j].key)
      <3>1. PICK y \in DOMAIN t : t[y].lev = j /\ \E k \in 1 .. Len(t[y].keys) : t[y].keys[k] = todo[j].key
        BY <1>5, <1>17 DEF IsTodo
      <3>2. CASE y # Root
        BY <1>14, <3>1, <3>2 DEF HasKey
      <3>3. CASE y = Root
        <4>1. j = Len(todo) /\ t[Root].lev > 0
          BY <1>7, <1>17, <3>1, <3>3
        <4>2. d # todo[j].key
          BY <1>4, <1>5, <1>6, <4>1, <1>7, OtherDivider DEF DividerOf
        <4>3. PICK k \in 1 .. Len(t[Root].keys) : t[Root].keys[k] = todo[j].key
          BY <3>1, <3>3
        <4>4. t[Root].keys[k] \in {d} \cup Range(left.keys) \cup Range(right.keys)
          BY <1>9, <4>1, <4>3 DEF IsDealt
        <4>5. todo[j].key \in Range(left.keys) \/ todo[j].key \in Range(right.keys)
          BY <4>2, <4>3, <4>4
        <4>6. left.lev = j /\ right.lev = j
          BY <1>7, <1>10, <4>1 DEF Halves
        <4>7. left.keys \in Seq(Nat) /\ right.keys \in Seq(Nat)
          BY <1>14, <1>16 DEF IsTree, IsNode, IsNodeData
        <4>8. \/ \E a \in 1 .. Len(left.keys) : left.keys[a] = todo[j].key
              \/ \E a \in 1 .. Len(right.keys) : right.keys[a] = todo[j].key
          BY <4>5, <4>7, InRange
        <4> QED
          BY <1>14, <4>6, <4>8 DEF HasKey
      <3> QED
        BY <3>2, <3>3
    <2> QED
      BY <1>17, <2>1, <2>2 DEF IsTodo, HasKey
  <1>24. IsCall(u)'
    <2>1. CASE todo = <<>>
      BY <1>17, <2>1 DEF IsCall, Resume, Idle
    <2>2. CASE todo # <<>>
      <3>1. call' = [op |-> "retarget", todo |-> todo]
        BY <1>17, <2>2 DEF Resume
      <3>2. call'.op = "retarget" /\ call' = [op |-> "retarget", todo |-> call'.todo] /\ call'.todo # <<>>
        BY <2>2, <3>1
      <3> QED
        BY <1>23, <3>2 DEF IsCall
    <2> QED
      BY <2>1, <2>2
  <1>25. Represents(u, head)'
    BY <1>16, <1>18, <1>21, <1>22, <1>24 DEF Represents
  <1>26. Root \in DOMAIN pages' /\ rows' \subseteq Rowids
    BY <1>1, <1>6, <1>12, <1>18
  <1> QED
    BY <1>18, <1>25, <1>26 DEF TreeInv

-----------------------------------------------------------------------------
\* Going down

\* What holds of a node if it holds of the nodes below it holds of all nodes.
LEMMA TreeInduction ==
  ASSUME NEW t, NEW R, IsTree(t, R), NEW S,
         \A p \in DOMAIN t :
           (t[p].lev > 0 => \A i \in 1 .. Len(t[p].kids) : t[p].kids[i] \in S) => p \in S
  PROVE  \A p \in DOMAIN t : p \in S
  <1> DEFINE done == {n \in Nat : \A p \in DOMAIN t : t[p].lev < n => p \in S}
  <1>1. \A p \in DOMAIN t : t[p].lev \in Nat /\ IsNode(t, t[p], R)
    BY DEF IsTree, IsNode, IsNodeData
  <1>2. 0 \in done
    BY <1>1
  <1>3. ASSUME NEW n \in Nat, n \in done
        PROVE  n + 1 \in done
    <2>1. ASSUME NEW p \in DOMAIN t, t[p].lev < n + 1
          PROVE  p \in S
      <3>1. ASSUME t[p].lev > 0, NEW i \in 1 .. Len(t[p].kids)
            PROVE  t[p].kids[i] \in S
        <4>1. HasKids(t, t[p])
          BY <1>1, <3>1 DEF IsNode
        <4>2. i \in DOMAIN t[p].kids /\ t[p].kids[i] \in DOMAIN t
          BY <3>1, <4>1 DEF HasKids
        <4>3. t[t[p].kids[i]].lev = t[p].lev - 1
          BY <4>1, <4>2 DEF HasKids
        <4> QED
          BY <1>1, <1>3, <2>1, <4>2, <4>3
      <3> QED
        BY <3>1
    <2> QED
      BY <2>1
  <1> HIDE DEF done
  <1>4. \A n \in Nat : n \in done
    BY <1>2, <1>3, Induction
  <1> QED
    <2> SUFFICES ASSUME NEW p \in DOMAIN t PROVE p \in S
      OBVIOUS
    <2>1. t[p].lev + 1 \in done /\ t[p].lev < t[p].lev + 1
      BY <1>1, <1>4
    <2> QED
      BY <2>1 DEF done

\* A rowid that a node is responsible for is in one slice of it.
LEMMA SliceFor ==
  ASSUME NEW n, IsNodeData(n), NEW cells \in Seq(CellRecords), KeysAre(n.keys, cells), NEW r \in n.rng,
         NEW i, i = Place(cells, r)
  PROVE  /\ i \in 1 .. Len(cells) + 1
         /\ i <= Len(cells) /\ n.keys[i] = r => r \in Slice(n.rng, n.keys, i + 1)
         /\ ~(i <= Len(cells) /\ n.keys[i] = r) => r \in Slice(n.rng, n.keys, i)
         /\ ~(i <= Len(cells) /\ n.keys[i] = r) => \A j \in 1 .. Len(n.keys) : n.keys[j] # r
  <1> DEFINE k == n.keys
             L == Len(cells)
  <1>1. k \in Seq(Nat) /\ Sorted(k) /\ r \in Nat /\ L \in Nat /\ Len(k) = L
        /\ \A j \in 1 .. L : k[j] = cells[j].key /\ k[j] \in Nat
    BY DEF IsNodeData, KeysAre
  <1>2. /\ i \in 1 .. L + 1 /\ (\A j \in 1 .. L : j < i => k[j] < r)
        /\ (i <= L => r <= k[i])
    <2>1. Rowids \subseteq Nat
      BY BTreeAssumption
    <2>2. /\ i \in 1 .. Len(cells) + 1 /\ (\A j \in 1 .. Len(cells) : j < i => cells[j].key < r)
          /\ (i <= Len(cells) => r <= cells[i].key)
      BY <1>1, <2>1, PlaceOf
    <2>3. i <= L => i \in 1 .. L
      BY <1>1, <2>2
    <2> HIDE DEF k
    <2> QED
      BY <1>1, <2>2, <2>3
  <1> HIDE DEF k, L
  <1>3. i > 1 => i - 1 \in 1 .. L /\ i - 1 < i
    BY <1>1, <1>2
  <1>4. i > 1 => k[i - 1] < r
    BY <1>2, <1>3
  <1>5. ASSUME ~(i <= L /\ k[i] = r)
        PROVE  r \in Slice(n.rng, k, i) /\ \A j \in 1 .. L : k[j] # r
    <2>1. i <= L => r < k[i] /\ k[i] \in Nat
      BY <1>1, <1>2, <1>5
    <2>2. i > 1 => k[i - 1] <= r
      BY <1>1, <1>3, <1>4
    <2>3. ASSUME NEW j \in 1 .. L, j >= i
          PROVE  k[j] # r
      <3>1. i \in 1 .. Len(k) /\ j \in 1 .. Len(k)
        BY <1>1, <1>2, <2>3
      <3>2. i < j => k[i] < k[j]
        BY <1>1, <3>1, KeyOrder
      <3> QED
        BY <1>1, <1>2, <2>1, <2>3, <3>1, <3>2
    <2>4. \A j \in 1 .. L : j < i => k[j] # r
      BY <1>1, <1>2
    <2> QED
      BY <1>1, <1>2, <2>1, <2>2, <2>3, <2>4 DEF Slice
  <1>6. ASSUME i <= L, k[i] = r
        PROVE  r \in Slice(n.rng, k, i + 1)
    <2> DEFINE h == i + 1
    <2>1. h > 1 /\ h - 1 = i /\ h \in Nat
      BY <1>2
    <2>2. h <= L => r < k[h]
      <3>1. ASSUME h <= L
            PROVE  i \in 1 .. Len(k) /\ h \in 1 .. Len(k) /\ i < h
        BY <1>1, <1>2, <3>1
      <3> HIDE DEF h
      <3> QED
        BY <1>1, <1>6, <3>1, KeyOrder
    <2> HIDE DEF h
    <2>3. r \in Slice(n.rng, k, h)
      BY <1>1, <1>6, <2>1, <2>2 DEF Slice
    <2> QED
      BY <2>3 DEF h
  <1> QED
    BY <1>1, <1>2, <1>5, <1>6 DEF k, L

\* Interior pages lead to nodes of the tree, one level down.
Leads(t) ==
  \A p \in DOMAIN pages : pages[p].kind = "interior" =>
    /\ p \in DOMAIN t /\ t[p].lev > 0
    /\ \A i \in Nat \ {0} :
         Child(pages[p], i) \in DOMAIN t /\ t[Child(pages[p], i)].lev = t[p].lev - 1

\* Between calls and splits an interior page leads to pages one level down.
LEMMA TreeLeads ==
  ASSUME ArePages, NEW t, NEW R, NEW head, IsTree(t, R), Hold(t, head), call.op # "split"
  PROVE  Leads(t) /\ DOMAIN t \subseteq DOMAIN pages
  <1>1. ASSUME NEW p \in DOMAIN pages, pages[p].kind = "interior"
        PROVE  /\ p \in DOMAIN t /\ t[p].lev > 0
               /\ \A i \in Nat \ {0} :
                    Child(pages[p], i) \in DOMAIN t /\ t[Child(pages[p], i)].lev = t[p].lev - 1
    <2>1. p \in DOMAIN t
      <3>1. IsPage(p, pages[p])
        BY DEF ArePages
      <3> QED
        BY <1>1, <3>1 DEF IsPage, InTree, Hold
    <2>2. OfTree(t, R, head, p)
      BY <2>1, TreePage
    <2>3. Held(p) = pages[p].cells
      BY DEF Held
    <2> DEFINE cells == pages[p].cells
               right == pages[p].right
               n == t[p]
    <2>4. n.lev > 0 /\ KeysAre(n.keys, cells) /\ Points(n, cells, right, Todo) /\ HasKids(t, n)
          /\ cells \in Seq(CellRecords)
      BY <1>1, <2>2, <2>3 DEF OfTree, Shows, IsNode
    <2>5. n.kids \in Seq(DOMAIN t) /\ Len(n.kids) = Len(cells) + 1 /\ Len(cells) \in Nat
          /\ \A i \in 1 .. Len(n.kids) : n.kids[i] \in DOMAIN t /\ t[n.kids[i]].lev = n.lev - 1
      BY <2>4 DEF HasKids, KeysAre
    <2> HIDE DEF cells, right, n
    <2>6. ASSUME NEW i \in 1 .. Len(cells) + 1
          PROVE  PointerIn(cells, right, i) \in DOMAIN t /\ t[PointerIn(cells, right, i)].lev = n.lev - 1
      <3>1. PointsTo(n, cells, right, Todo, i)
        BY <2>4 DEF Points
      <3>2. CASE Waits(n, Todo, i)
        <4>1. i > 1 /\ i - 1 \in 1 .. Len(n.kids)
          BY <2>5, <3>2 DEF Waits
        <4>2. n.kids[i - 1] = PointerIn(cells, right, i)
          BY <3>1, <3>2 DEF PointsTo
        <4> QED
          BY <2>5, <4>1, <4>2
      <3>3. CASE ~Waits(n, Todo, i)
        BY <2>5, <3>1, <3>3 DEF PointsTo
      <3> QED
        BY <3>2, <3>3
    <2>7. ASSUME NEW i \in Nat \ {0}
          PROVE  Child(pages[p], i) \in DOMAIN t /\ t[Child(pages[p], i)].lev = n.lev - 1
      <3>1. CASE i <= Len(cells)
        <4>1. Child(pages[p], i) = PointerIn(cells, right, i) /\ i \in 1 .. Len(cells) + 1
          BY <2>5, <3>1 DEF Child, PointerIn, cells, right
        <4> QED
          BY <2>6, <4>1
      <3>2. CASE ~(i <= Len(cells))
        <4> DEFINE j == Len(cells) + 1
        <4>1. j \in 1 .. Len(cells) + 1 /\ ~(j <= Len(cells))
          BY <2>5
        <4> HIDE DEF j
        <4>2. Child(pages[p], i) = PointerIn(cells, right, j)
          BY <3>2, <4>1 DEF Child, PointerIn, cells, right
        <4> QED
          BY <2>6, <4>1, <4>2
      <3> QED
        BY <3>1, <3>2
    <2> QED
      BY <2>1, <2>4, <2>7 DEF n
  <1>2. DOMAIN t \subseteq DOMAIN pages
    BY DEF Hold, InTree
  <1> QED
    BY <1>1, <1>2 DEF Leads

\* What a descent answers: base at a page where it stops, and else join of the
\* page and what the descent from the child that go takes answers.
Descent(V, stop, base, go, join, f) ==
  /\ f \in [DOMAIN pages -> V]
  /\ \A p \in DOMAIN pages : f[p] = IF p \in stop THEN base[p] ELSE join[<<p, f[Child(pages[p], go[p])]>>]

IsDescent(V, stop, base, go, join) ==
  /\ V # {} /\ \A p \in DOMAIN pages \ stop : pages[p].kind = "interior"
  /\ go \in [DOMAIN pages -> Nat \ {0}] /\ \A p \in DOMAIN pages : base[p] \in V
  /\ \A p \in DOMAIN pages, v \in V : join[<<p, v>>] \in V

Depth(t) == [p \in DOMAIN pages |-> IF p \in DOMAIN t THEN t[p].lev ELSE 0]

\* The levels of the tree rank its pages, so that recursion down it ends.
LEMMA DepthIsRank ==
  ASSUME NEW t, NEW R, IsTree(t, R)
  PROVE  Ranked(DOMAIN pages, Depth(t), t[Root].lev + 1)
  <1>1. \A p \in DOMAIN t : t[p].lev \in Nat /\ t[p].lev <= t[Root].lev
    BY DEF IsTree, IsNode, IsNodeData
  <1>2. t[Root].lev \in Nat
    BY <1>1 DEF IsTree
  <1>3. Depth(t) \in [DOMAIN pages -> Nat]
    BY <1>1 DEF Depth
  <1>4. \A p \in DOMAIN pages : Depth(t)[p] < t[Root].lev + 1
    BY <1>1, <1>2 DEF Depth
  <1> QED
    BY <1>2, <1>3, <1>4 DEF Ranked

\* A recursion down the pages of the tree has a solution.
LEMMA Descends ==
  ASSUME NEW t, NEW R, IsTree(t, R), Leads(t), DOMAIN t \subseteq DOMAIN pages,
         NEW V, NEW stop, NEW base, NEW go, NEW join, IsDescent(V, stop, base, go, join)
  PROVE  \E f : Descent(V, stop, base, go, join, f)
  <1> DEFINE D == DOMAIN pages
             rank == Depth(t)
             next(p) == Child(pages[p], go[p])
             body == [pf \in D \X [D -> V] |->
                        IF pf[1] \in stop THEN base[pf[1]] ELSE join[<<pf[1], pf[2][next(pf[1])]>>]]
  <1>1. ASSUME NEW p \in D, p \notin stop
        PROVE  next(p) \in D /\ rank[next(p)] < rank[p]
    <2>1. pages[p].kind = "interior" /\ go[p] \in Nat \ {0}
      BY <1>1 DEF IsDescent
    <2>2. p \in DOMAIN t /\ next(p) \in DOMAIN t /\ t[next(p)].lev = t[p].lev - 1
      BY <2>1 DEF Leads
    <2>3. t[p].lev \in Nat
      BY <2>2 DEF IsTree, IsNode, IsNodeData
    <2> HIDE DEF next
    <2> QED
      BY <2>2, <2>3 DEF Depth
  <1>2. body \in [D \X [D -> V] -> V]
    <2> HIDE DEF next
    <2> SUFFICES ASSUME NEW p \in D, NEW f \in [D -> V]
                 PROVE  (IF p \in stop THEN base[p] ELSE join[<<p, f[next(p)]>>]) \in V
      OBVIOUS
    <2>1. CASE p \in stop
      BY <2>1 DEF IsDescent
    <2>2. CASE p \notin stop
      <3>1. f[next(p)] \in V
        BY <1>1, <2>2
      <3> QED
        BY <2>2, <3>1 DEF IsDescent
    <2> QED
      BY <2>1, <2>2
  <1>3. ASSUME NEW p \in D, NEW f \in [D -> V], NEW g \in [D -> V],
               \A q \in D : rank[q] < rank[p] => f[q] = g[q]
        PROVE  body[<<p, f>>] = body[<<p, g>>]
    <2> HIDE DEF next
    <2>1. p \notin stop => f[next(p)] = g[next(p)]
      BY <1>1, <1>3
    <2> QED
      BY <2>1
  <1>4. LooksBelow(D, V, rank, body)
    <2> HIDE DEF body, rank, D
    <2> QED
      BY <1>2, <1>3 DEF LooksBelow
  <1>5. Ranked(D, rank, t[Root].lev + 1)
    BY DepthIsRank
  <1>6. V # {}
    BY DEF IsDescent
  <1>7. Defined(D, V, body)
    <2> HIDE DEF body, rank, D
    <2> QED
      BY <1>4, <1>5, <1>6, RecursiveFunction
  <1>8. PICK f \in [D -> V] : \A p \in D : f[p] = body[<<p, f>>]
    BY <1>7 DEF Defined
  <1>9. Descent(V, stop, base, go, join, f)
    BY <1>8 DEF Descent
  <1> QED
    BY <1>9

-----------------------------------------------------------------------------
\* Interior nodes and their pages

\* What there is to say of an interior page that is not being split.
Inner(t, q) ==
  /\ q \in DOMAIN t /\ q \in DOMAIN pages /\ pages[q].kind = "interior"
  /\ pages[q].cells \in Seq(CellRecords) /\ KeysAre(t[q].keys, pages[q].cells) /\ IsNodeData(t[q])
  /\ Len(t[q].kids) = Len(pages[q].cells) + 1 /\ Len(pages[q].cells) \in Nat
  /\ Len(pages[q].cells) > 0 /\ Points(t[q], pages[q].cells, pages[q].right, Todo)
  /\ \A i \in 1 .. Len(pages[q].cells) + 1 :
       /\ t[q].kids[i] \in DOMAIN t /\ t[t[q].kids[i]].lev = t[q].lev - 1
       /\ t[t[q].kids[i]].rng = Slice(t[q].rng, t[q].keys, i) /\ t[t[q].kids[i]].rng # {}
       /\ ~Waits(t[q], Todo, i) => Child(pages[q], i) = t[q].kids[i]

\* What an interior page holds and where its pointers lead.
LEMMA InnerPage ==
  ASSUME ArePages, NEW t, NEW R, NEW head, IsTree(t, R), Hold(t, head), call.op # "split",
         NEW q \in DOMAIN t, t[q].lev > 0
  PROVE  Inner(t, q)
  <1>1. OfTree(t, R, head, q)
    BY TreePage
  <1>2. Held(q) = pages[q].cells
    BY DEF Held
  <1>3. /\ pages[q].kind = "interior" /\ KeysAre(t[q].keys, pages[q].cells) /\ HasKids(t, t[q])
        /\ pages[q].cells \in Seq(CellRecords) /\ IsNodeData(t[q]) /\ q \in DOMAIN pages
        /\ Points(t[q], pages[q].cells, pages[q].right, Todo)
    BY <1>1, <1>2 DEF OfTree, Shows, IsNode
  <1>4. Len(t[q].kids) = Len(pages[q].cells) + 1 /\ Len(pages[q].cells) \in Nat /\ Len(pages[q].cells) > 0
        /\ DOMAIN t[q].kids = 1 .. Len(pages[q].cells) + 1
    BY <1>3 DEF HasKids, KeysAre
  <1>5. ASSUME NEW i \in 1 .. Len(pages[q].cells) + 1
        PROVE  /\ t[q].kids[i] \in DOMAIN t /\ t[t[q].kids[i]].lev = t[q].lev - 1
               /\ t[t[q].kids[i]].rng = Slice(t[q].rng, t[q].keys, i) /\ t[t[q].kids[i]].rng # {}
               /\ ~Waits(t[q], Todo, i) => Child(pages[q], i) = t[q].kids[i]
    <2>1. t[q].kids[i] \in DOMAIN t
      BY <1>3, <1>4 DEF HasKids
    <2>2. t[t[q].kids[i]].lev = t[q].lev - 1 /\ t[t[q].kids[i]].rng = Slice(t[q].rng, t[q].keys, i)
      BY <1>3, <1>4 DEF HasKids
    <2>3. t[t[q].kids[i]].rng # {}
      BY <2>1 DEF IsTree, IsNode, IsNodeData
    <2>4. ASSUME ~Waits(t[q], Todo, i)
          PROVE  Child(pages[q], i) = t[q].kids[i]
      <3>1. PointsTo(t[q], pages[q].cells, pages[q].right, Todo, i)
        BY <1>3 DEF Points
      <3> QED
        BY <2>4, <3>1 DEF PointsTo, PointerIn, Child
    <2> QED
      BY <2>1, <2>2, <2>3, <2>4
  <1> QED
    BY <1>3, <1>4, <1>5 DEF Inner

\* Nodes of one level that share a rowid are one.
LEMMA OneOfLevel ==
  ASSUME NEW t, NEW R, IsTree(t, R), NEW p \in DOMAIN t, NEW q \in DOMAIN t,
         t[p].lev = t[q].lev, NEW r, r \in t[p].rng, r \in t[q].rng
  PROVE  p = q
  BY DEF IsTree, LevelApart

\* No key of a node is the least rowid of a node at or above its level.
LEMMA KeyIsNotLeast ==
  ASSUME ArePages, NEW t, NEW R, NEW head, IsTree(t, R), Hold(t, head), call.op # "split",
         NEW p \in DOMAIN t, t[p].lev > 0, NEW j \in 1 .. Len(t[p].keys), NEW key, key = t[p].keys[j]
  PROVE  \A c \in DOMAIN t : ~(t[c].lev >= t[p].lev /\ key \in t[c].rng /\ \A x \in t[c].rng : x >= key)
  <1> DEFINE Least(c) == t[c].lev >= t[p].lev /\ key \in t[c].rng /\ \A x \in t[c].rng : x >= key
             S == {c \in DOMAIN t : ~Least(c)}
  <1>1. Inner(t, p) /\ IsNodeData(t[p]) /\ key \in t[p].rng /\ \A c \in DOMAIN t : t[c].lev \in Nat
    <2>1. Inner(t, p)
      BY InnerPage
    <2>2. IsNodeData(t[p])
      BY <2>1 DEF Inner
    <2>3. \A c \in DOMAIN t : t[c].lev \in Nat
      BY DEF IsTree, IsNode, IsNodeData
    <2> QED
      BY <2>1, <2>2, <2>3 DEF IsNodeData
  <1>2. ~Least(p)
    <2>1. PICK x \in Slice(t[p].rng, t[p].keys, 1) : TRUE
      <3>1. 1 \in 1 .. Len(pages[p].cells) + 1
        BY <1>1 DEF Inner
      <3> QED
        BY <1>1, <3>1 DEF Inner
    <2>2. Len(t[p].keys) \in Nat /\ t[p].keys \in Seq(Nat) /\ Sorted(t[p].keys) /\ 1 \in 1 .. Len(t[p].keys)
      BY <1>1 DEF IsNodeData
    <2>3. x \in t[p].rng /\ x < t[p].keys[1] /\ x \in Nat
      BY <1>1, <2>1, <2>2 DEF Slice, IsNodeData
    <2>4. t[p].keys[1] \in Nat /\ key \in Nat /\ t[p].keys[1] <= key
      <3>1. t[p].keys[1] \in Nat /\ t[p].keys[j] \in Nat /\ (1 < j => t[p].keys[1] < t[p].keys[j])
        BY <2>2, KeyOrder
      <3> QED
        BY <3>1
    <2>5. x \in t[p].rng /\ ~(x >= key)
      BY <2>3, <2>4
    <2> QED
      BY <2>5
  <1>3. ASSUME NEW c \in DOMAIN t, t[c].lev > 0 => \A i \in 1 .. Len(t[c].kids) : t[c].kids[i] \in S
        PROVE  c \in S
    <2>1. SUFFICES ASSUME Least(c) PROVE FALSE
      OBVIOUS
    <2>2. CASE t[c].lev = t[p].lev
      <3>1. c = p
        BY <1>1, <2>1, <2>2, OneOfLevel
      <3> QED
        BY <1>2, <2>1, <3>1
    <2>3. CASE t[c].lev > t[p].lev
      <3>1. Inner(t, c) /\ t[c].lev > 0
        <4>1. t[c].lev > 0
          BY <1>1, <2>3
        <4> QED
          BY <4>1, InnerPage
      <3>2. PICK i \in 1 .. Len(pages[c].cells) + 1 : key \in Slice(t[c].rng, t[c].keys, i)
        <4> DEFINE at == Place(pages[c].cells, key)
                   L == Len(pages[c].cells)
        <4>1. /\ at \in 1 .. L + 1 /\ L \in Nat
              /\ at <= L /\ t[c].keys[at] = key => key \in Slice(t[c].rng, t[c].keys, at + 1)
              /\ ~(at <= L /\ t[c].keys[at] = key) => key \in Slice(t[c].rng, t[c].keys, at)
          BY <2>1, <3>1, SliceFor DEF Inner
        <4> HIDE DEF at, L
        <4>2. CASE at <= L /\ t[c].keys[at] = key
          <5>1. at + 1 \in 1 .. L + 1
            BY <4>1, <4>2
          <5> QED
            BY <4>1, <4>2, <5>1 DEF L
        <4>3. CASE ~(at <= L /\ t[c].keys[at] = key)
          BY <4>1, <4>3 DEF L
        <4> QED
          BY <4>2, <4>3
      <3> DEFINE k == t[c].kids[i]
      <3>3. k \in DOMAIN t /\ t[k].lev = t[c].lev - 1 /\ t[k].rng = Slice(t[c].rng, t[c].keys, i)
            /\ i \in 1 .. Len(t[c].kids)
        BY <3>1, <3>2 DEF Inner
      <3>4. k \in S
        BY <1>3, <3>1, <3>3
      <3> HIDE DEF k
      <3>5. t[k].lev >= t[p].lev /\ key \in t[k].rng
        BY <1>1, <2>3, <3>2, <3>3
      <3>6. \A x \in t[k].rng : x >= key
        BY <2>1, <3>3 DEF Slice
      <3> QED
        BY <3>4, <3>5, <3>6
    <2> QED
      BY <1>1, <2>1, <2>2, <2>3
  <1>4. \A c \in DOMAIN t : c \in S
    <2> HIDE DEF S
    <2> QED
      BY <1>3, TreeInduction
  <1> QED
    BY <1>4

-----------------------------------------------------------------------------
\* The search for a divider

Finding(key, down) ==
  [p \in DOMAIN pages |->
     LET i == Place(pages[p].cells, key)
     IN  CASE pages[p].kind # "interior" -> 0
           [] pages[p].kind = "interior" /\ i <= Len(pages[p].cells)
              /\ pages[p].cells[i].key = key -> p
           [] OTHER -> down[Child(pages[p], i)]]

\* The page has the key where the search looks.
HasAt(p, key) ==
  LET i == Place(pages[p].cells, key) IN i <= Len(pages[p].cells) /\ pages[p].cells[i].key = key

Finds(key, f) ==
  /\ PageWithDivider(key) = f[Root]
  /\ \A p \in DOMAIN pages : pages[p].kind = "interior" =>
       f[p] = IF HasAt(p, key) THEN p ELSE f[Child(pages[p], Place(pages[p].cells, key))]

\* The search for the page with a divider is the recursive function it is meant to be.
LEMMA DividerSearch ==
  ASSUME ArePages, NEW t, NEW R, IsTree(t, R), Leads(t), DOMAIN t \subseteq DOMAIN pages, NEW key \in Nat
  PROVE  \E f : Finds(key, f)
  <1> DEFINE D == DOMAIN pages
             at(p) == Place(pages[p].cells, key)
             stop == {p \in D : pages[p].kind # "interior" \/ HasAt(p, key)}
             base == [p \in D |-> IF pages[p].kind # "interior" THEN 0 ELSE p]
             go == [p \in D |-> at(p)]
             join == [pv \in D \X Nat |-> pv[2]]
  <1>1. \A p \in D : p \in Nat /\ at(p) \in Nat \ {0}
    <2> SUFFICES ASSUME NEW p \in D PROVE p \in Nat /\ at(p) \in Nat \ {0}
      OBVIOUS
    <2>1. p \in Nat /\ pages[p].cells \in Seq(CellRecords)
      <3>1. pages \in Seq(PageRecords) /\ p \in 1 .. Len(pages)
        BY DEF ArePages
      <3>2. pages[p] \in PageRecords
        BY <3>1
      <3> QED
        BY <3>1, <3>2 DEF PageRecords
    <2>2. at(p) \in 1 .. Len(pages[p].cells) + 1
      BY <2>1, PlaceOf, BTreeAssumption
    <2> QED
      BY <2>1, <2>2
  <1> HIDE DEF at
  <1>2. IsDescent(Nat, stop, base, go, join)
    BY <1>1 DEF IsDescent
  <1>3. PICK h : Descent(Nat, stop, base, go, join, h)
    BY <1>2, Descends
  <1>4. \A p \in D : h[p] = IF p \in stop THEN base[p] ELSE h[Child(pages[p], at(p))]
    <2> SUFFICES ASSUME NEW p \in D
                 PROVE  h[p] = IF p \in stop THEN base[p] ELSE h[Child(pages[p], at(p))]
      OBVIOUS
    <2>1. h[p] = IF p \in stop THEN base[p] ELSE join[<<p, h[Child(pages[p], at(p))]>>]
      BY <1>3 DEF Descent
    <2>2. CASE p \notin stop
      <3>1. Child(pages[p], at(p)) \in D
        BY <1>1, <2>2 DEF Leads
      <3>2. h[Child(pages[p], at(p))] \in Nat
        BY <1>3, <3>1 DEF Descent
      <3> QED
        BY <2>1, <2>2, <3>2
    <2> QED
      BY <2>1, <2>2
  <1>5. h = Finding(key, h)
    <2>1. \A p \in D : h[p] = Finding(key, h)[p]
      BY <1>4 DEF Finding, HasAt, at
    <2> QED
      BY <1>3, <2>1 DEF Descent, Finding
  <1>6. PICK f : f = Finding(key, f) /\ PageWithDivider(key) = f[Root]
    BY <1>5 DEF PageWithDivider, Finding
  <1>7. ASSUME NEW p \in DOMAIN pages, pages[p].kind = "interior"
        PROVE  f[p] = IF HasAt(p, key) THEN p ELSE f[Child(pages[p], Place(pages[p].cells, key))]
    <2>1. f[p] = Finding(key, f)[p]
      BY <1>6
    <2> QED
      BY <1>7, <2>1 DEF Finding, HasAt
  <1>8. Finds(key, f)
    BY <1>6, <1>7 DEF Finds
  <1> QED
    BY <1>8

\* The search finds the page with the key, if the pointers above it are set.
LEMMA DividerFound ==
  ASSUME ArePages, NEW t, NEW R, NEW head, IsTree(t, R), Hold(t, head), call.op # "split",
         NEW p \in DOMAIN t, t[p].lev > 0, Len(Todo) <= t[p].lev, Len(Todo) \in Nat,
         NEW j \in 1 .. Len(t[p].keys), NEW key, key = t[p].keys[j]
  PROVE  PageWithDivider(key) = p /\ HasAt(p, key)
  <1>1. /\ Inner(t, p) /\ IsNodeData(t[p]) /\ key \in t[p].rng /\ key \in Nat
        /\ \A c \in DOMAIN t : t[c].lev \in Nat
    <2>1. Inner(t, p)
      BY InnerPage
    <2>2. IsNodeData(t[p])
      BY <2>1 DEF Inner
    <2>3. \A c \in DOMAIN t : t[c].lev \in Nat
      BY DEF IsTree, IsNode, IsNodeData
    <2> QED
      BY <2>1, <2>2, <2>3 DEF IsNodeData
  <1>2. Leads(t) /\ DOMAIN t \subseteq DOMAIN pages
    BY TreeLeads
  <1>3. PICK f : Finds(key, f)
    BY <1>1, <1>2, DividerSearch
  <1>4. ASSUME NEW q, Inner(t, q), key \in t[q].rng
        PROVE  /\ Place(pages[q].cells, key) \in 1 .. Len(pages[q].cells) + 1
               /\ HasAt(q, key) => key \in Slice(t[q].rng, t[q].keys, Place(pages[q].cells, key) + 1)
                     /\ Place(pages[q].cells, key) \in 1 .. Len(pages[q].cells)
                     /\ t[q].keys[Place(pages[q].cells, key)] = key
               /\ ~HasAt(q, key) => /\ key \in Slice(t[q].rng, t[q].keys, Place(pages[q].cells, key))
                                    /\ \A h \in 1 .. Len(t[q].keys) : t[q].keys[h] # key
    <2> DEFINE at == Place(pages[q].cells, key)
               L == Len(pages[q].cells)
    <2>1. /\ at \in 1 .. L + 1 /\ L \in Nat
          /\ at <= L /\ t[q].keys[at] = key => key \in Slice(t[q].rng, t[q].keys, at + 1)
          /\ ~(at <= L /\ t[q].keys[at] = key) => key \in Slice(t[q].rng, t[q].keys, at)
          /\ ~(at <= L /\ t[q].keys[at] = key) => \A h \in 1 .. Len(t[q].keys) : t[q].keys[h] # key
      BY <1>4, SliceFor DEF Inner
    <2>2. at <= L => t[q].keys[at] = pages[q].cells[at].key
      BY <1>4, <2>1 DEF Inner, KeysAre
    <2>3. HasAt(q, key) <=> at <= L /\ t[q].keys[at] = key
      BY <2>2 DEF HasAt
    <2>4. at <= L => at \in 1 .. L
      BY <2>1
    <2> HIDE DEF at, L
    <2>5. /\ at \in 1 .. L + 1
          /\ HasAt(q, key) => key \in Slice(t[q].rng, t[q].keys, at + 1) /\ at \in 1 .. L /\ t[q].keys[at] = key
          /\ ~HasAt(q, key) => /\ key \in Slice(t[q].rng, t[q].keys, at)
                               /\ \A h \in 1 .. Len(t[q].keys) : t[q].keys[h] # key
      BY <2>1, <2>3, <2>4
    <2> QED
      BY <2>5 DEF at, L
  <1>5. HasAt(p, key)
    BY <1>1, <1>4
  <1> DEFINE S == {q \in DOMAIN t : t[q].lev >= t[p].lev /\ key \in t[q].rng => f[q] = p}
  <1>6. ASSUME NEW q \in DOMAIN t, t[q].lev > 0 => \A i \in 1 .. Len(t[q].kids) : t[q].kids[i] \in S
        PROVE  q \in S
    <2>1. SUFFICES ASSUME t[q].lev >= t[p].lev, key \in t[q].rng PROVE f[q] = p
      OBVIOUS
    <2>2. Inner(t, q) /\ t[q].lev > 0
      <3>1. t[q].lev > 0
        BY <1>1, <2>1
      <3> QED
        BY <3>1, InnerPage
    <2>3. f[q] = IF HasAt(q, key) THEN q ELSE f[Child(pages[q], Place(pages[q].cells, key))]
      BY <1>3, <2>2 DEF Finds, Inner
    <2> DEFINE at == Place(pages[q].cells, key)
    <2>4. CASE t[q].lev = t[p].lev
      <3>1. q = p
        BY <1>1, <2>1, <2>4, OneOfLevel
      <3> QED
        BY <1>5, <2>3, <3>1
    <2>5. CASE t[q].lev > t[p].lev
      <3>1. ~HasAt(q, key)
        <4>1. SUFFICES ASSUME HasAt(q, key) PROVE FALSE
          OBVIOUS
        <4> DEFINE h == at + 1
                   c == t[q].kids[h]
        <4>2. key \in Slice(t[q].rng, t[q].keys, h) /\ at \in 1 .. Len(pages[q].cells) /\ t[q].keys[at] = key
          BY <1>4, <2>1, <2>2, <4>1
        <4>3. h \in 1 .. Len(pages[q].cells) + 1 /\ h > 1 /\ h - 1 = at
          BY <2>2, <4>2 DEF Inner
        <4> HIDE DEF h, at
        <4>4. c \in DOMAIN t /\ t[c].lev = t[q].lev - 1 /\ t[c].rng = Slice(t[q].rng, t[q].keys, h)
          BY <2>2, <4>3 DEF Inner
        <4> HIDE DEF c
        <4>5. t[c].lev >= t[p].lev /\ key \in t[c].rng
          BY <1>1, <2>5, <4>2, <4>4
        <4>6. \A x \in t[c].rng : x >= key
          BY <4>2, <4>3, <4>4 DEF Slice
        <4> QED
          BY <4>4, <4>5, <4>6, KeyIsNotLeast
      <3> DEFINE c == t[q].kids[at]
      <3>2. at \in 1 .. Len(pages[q].cells) + 1 /\ key \in Slice(t[q].rng, t[q].keys, at)
        BY <1>4, <2>1, <2>2, <3>1
      <3>3. ~Waits(t[q], Todo, at)
        BY <1>1, <2>5 DEF Waits
      <3> HIDE DEF at
      <3>4. /\ c \in DOMAIN t /\ t[c].lev = t[q].lev - 1 /\ t[c].rng = Slice(t[q].rng, t[q].keys, at)
            /\ Child(pages[q], at) = c /\ at \in 1 .. Len(t[q].kids)
        BY <2>2, <3>2, <3>3 DEF Inner
      <3>5. c \in S
        BY <1>6, <2>2, <3>4
      <3> HIDE DEF c
      <3>6. t[c].lev >= t[p].lev /\ key \in t[c].rng
        BY <1>1, <2>5, <3>2, <3>4
      <3>7. f[c] = p
        BY <3>5, <3>6
      <3> QED
        BY <2>3, <3>1, <3>4, <3>7 DEF at
    <2> QED
      BY <1>1, <2>1, <2>4, <2>5
  <1>7. \A q \in DOMAIN t : q \in S
    <2> HIDE DEF S
    <2> QED
      BY <1>6, TreeInduction
  <1>8. Root \in S /\ t[Root].lev >= t[p].lev /\ key \in t[Root].rng
    BY <1>1, <1>7 DEF IsTree
  <1>9. f[Root] = p
    BY <1>8
  <1> QED
    BY <1>3, <1>5, <1>9 DEF Finds

-----------------------------------------------------------------------------
\* The pointer after a divider is set

\* The pages when child i of page p is set to target.
AfterPoint(p, i, target, after) ==
  /\ DOMAIN after = DOMAIN pages /\ \A y \in DOMAIN pages \ {p} : after[y] = pages[y]
  /\ after[p].kind = pages[p].kind /\ Len(after[p].cells) = Len(pages[p].cells)
  /\ \A h \in 1 .. Len(pages[p].cells) : after[p].cells[h].key = pages[p].cells[h].key
  /\ \A h \in 1 .. Len(pages[p].cells) + 1 : PointerIn(after[p].cells, after[p].right, h) =
       IF h = i THEN target ELSE PointerIn(pages[p].cells, pages[p].right, h)
  /\ after \in Seq(PageRecords) /\ \A y \in DOMAIN after : IsPage(y, after[y])

\* What setting one pointer of an interior page writes.
LEMMA PagePointed ==
  ASSUME ArePages, NEW p \in DOMAIN pages, pages[p].kind = "interior",
         NEW i \in 1 .. Len(pages[p].cells) + 1, NEW target \in Nat
  PROVE  AfterPoint(p, i, target, PointTo(p, i, target))
  <1> DEFINE pg == pages[p]
             c == pg.cells
             L == Len(c)
             after == PointTo(p, i, target)
  <1>1. /\ pages \in Seq(PageRecords) /\ DOMAIN pages = 1 .. Len(pages) /\ pg \in PageRecords
        /\ c \in Seq(CellRecords) /\ L \in Nat /\ IsPage(p, pg) /\ pg.right \in Nat /\ pg.used \in Nat
        /\ pg = [kind |-> pg.kind, cells |-> c, used |-> pg.used, right |-> pg.right]
    <2>1. pages \in Seq(PageRecords) /\ IsPage(p, pg) /\ p \in 1 .. Len(pages)
      BY DEF ArePages
    <2>2. pg \in PageRecords
      BY <2>1
    <2> HIDE DEF pg
    <2> QED
      BY <2>1, <2>2 DEF PageRecords
  <1>2. PICK new : /\ new \in PageRecords /\ IsPage(p, new) /\ new.kind = pg.kind
                   /\ Len(new.cells) = L /\ (\A h \in 1 .. L : new.cells[h].key = c[h].key)
                   /\ \A h \in 1 .. L + 1 : PointerIn(new.cells, new.right, h) =
                        IF h = i THEN target ELSE PointerIn(c, pg.right, h)
                   /\ after = [pages EXCEPT ![p] = new]
    <2>1. CASE i <= L
      <3> DEFINE cell == [key |-> c[i].key, page |-> target]
                 some == [c EXCEPT ![i] = cell]
                 new == [kind |-> pg.kind, cells |-> some, used |-> pg.used, right |-> pg.right]
      <3>1. i \in 1 .. L /\ c[i] \in CellRecords
        BY <1>1, <2>1
      <3>2. cell \in CellRecords /\ [c[i] EXCEPT !.page = target] = cell
        BY <3>1 DEF CellRecords
      <3>3. after = [pages EXCEPT ![p] = [pages[p] EXCEPT !.cells = [pages[p].cells EXCEPT ![i] = [pages[p].cells[i] EXCEPT !.page = target]]]]
        BY <2>1 DEF PointTo
      <3>4. [pages[p] EXCEPT !.cells = some] = new
        <4> HIDE DEF some
        <4>1. [pg EXCEPT !.cells = some] = new
          <5> HIDE DEF pg
          <5> QED
            BY <1>1
        <4> QED
          BY <4>1
      <3>5. after = [pages EXCEPT ![p] = new]
        BY <3>2, <3>3, <3>4
      <3> HIDE DEF cell
      <3>6. some \in Seq(CellRecords) /\ Len(some) = L /\ \A h \in 1 .. L : some[h] = IF h = i THEN cell ELSE c[h]
        <4> HIDE DEF c
        <4> QED
          BY <1>1, <3>1, <3>2, SeqWritten
      <3> HIDE DEF some
      <3>7. new \in PageRecords /\ new.kind = pg.kind /\ new.cells = some /\ new.right = pg.right /\ new.used = pg.used
        BY <1>1, <3>6 DEF PageRecords
      <3> HIDE DEF new
      <3>8. IsPage(p, new)
        BY <1>1, <3>6, <3>7 DEF IsPage
      <3>9. \A h \in 1 .. L : some[h].key = c[h].key
        BY <3>6 DEF cell
      <3>10. \A h \in 1 .. L + 1 : PointerIn(some, pg.right, h) =
                        IF h = i THEN target ELSE PointerIn(c, pg.right, h)
        <4> HIDE DEF c, pg
        <4> QED
          BY <2>1, <3>6 DEF PointerIn, cell
      <3> QED
        BY <3>5, <3>6, <3>7, <3>8, <3>9, <3>10
    <2>2. CASE ~(i <= L)
      <3> DEFINE new == [kind |-> pg.kind, cells |-> c, used |-> pg.used, right |-> target]
      <3>1. after = [pages EXCEPT ![p] = [pages[p] EXCEPT !.right = target]]
        BY <2>2 DEF PointTo
      <3>2. [pages[p] EXCEPT !.right = target] = new
        <4>1. [pg EXCEPT !.right = target] = new
          <5> HIDE DEF pg, c
          <5> QED
            BY <1>1
        <4> QED
          BY <4>1
      <3>3. new \in PageRecords /\ new.kind = pg.kind /\ new.cells = c /\ new.right = target /\ new.used = pg.used
        BY <1>1 DEF PageRecords
      <3>4. after = [pages EXCEPT ![p] = new]
        BY <3>1, <3>2
      <3> HIDE DEF new
      <3>5. IsPage(p, new)
        BY <1>1, <3>3 DEF IsPage
      <3>6. \A h \in 1 .. L + 1 : PointerIn(c, target, h) =
                        IF h = i THEN target ELSE PointerIn(c, pg.right, h)
        <4>1. i \in 1 .. L + 1
          OBVIOUS
        <4> HIDE DEF c, pg
        <4> QED
          BY <1>1, <2>2, <4>1 DEF PointerIn
      <3> QED
        BY <3>3, <3>4, <3>5, <3>6
    <2> QED
      BY <2>1, <2>2
  <1> HIDE DEF after, c, L, pg
  <1>3. /\ after \in Seq(PageRecords) /\ Len(after) = Len(pages)
        /\ \A k \in 1 .. Len(pages) : after[k] = IF k = p THEN new ELSE pages[k]
    BY <1>1, <1>2, SeqWritten
  <1>4. DOMAIN after = DOMAIN pages /\ after[p] = new /\ \A y \in DOMAIN pages \ {p} : after[y] = pages[y]
    BY <1>1, <1>3
  <1>5. \A y \in DOMAIN after : IsPage(y, after[y])
    BY <1>2, <1>4 DEF ArePages
  <1>6. AfterPoint(p, i, target, after)
    <2>1. pages[p].cells = c /\ pages[p].right = pg.right /\ Len(pages[p].cells) = L /\ pages[p].kind = pg.kind
      BY DEF c, pg, L
    <2> QED
      BY <1>2, <1>3, <1>4, <1>5, <2>1 DEF AfterPoint
  <1> QED
    BY <1>6 DEF after

\* A call that only has pointers left to set.
IsRest(todo) == Todo = todo /\ call.op # "split" /\ call = Resume(todo)

\* What is left of a call when its next pointer is to be set.
LEMMA RestIs ==
  ASSUME NEW todo, call' = Resume(todo)
  PROVE  Todo' = todo /\ (\A y : Held(y)' = pages'[y].cells)
         /\ \/ call' = Idle
            \/ call' = [op |-> "retarget", todo |-> todo] /\ todo # <<>>
  <1>1. CASE todo = <<>>
    BY <1>1 DEF Held, Todo, Resume, Idle
  <1>2. CASE todo # <<>>
    BY <1>2 DEF Held, Todo, Resume, Idle
  <1> QED
    BY <1>1, <1>2

\* Setting a pointer keeps the tree, and what is left of the call is done.
LEMMA RetargetKeeps ==
  ASSUME TreeInv, Retarget
  PROVE  TreeInv' /\ ret' = ret
  <1>1. ArePages /\ Root \in DOMAIN pages /\ rows \subseteq Rowids
    BY DEF TreeInv
  <1>2. PICK t, head : Represents(t, head)
    BY DEF TreeInv
  <1>3. IsTree(t, rows) /\ Hold(t, head) /\ AreChains(head) /\ IsCall(t)
    BY <1>2 DEF Represents
  <1>4. call.op = "retarget" /\ rows' = rows
    BY DEF Retarget
  <1>5. PICK todo : call = [op |-> "retarget", todo |-> todo] /\ call.todo = todo /\ todo # <<>> /\ Todo = todo
                    /\ IsTodo(t)
    BY <1>3, <1>4 DEF IsCall, Idle, Todo
  <1> DEFINE S == [key : Nat, page : DOMAIN t]
             L == Len(todo)
  <1>6. todo \in Seq(S) /\ L \in Nat /\ L > 0 /\ DOMAIN todo = 1 .. L
    <2>1. todo \in Seq(S)
      BY <1>5 DEF IsTodo
    <2> HIDE DEF S
    <2> QED
      BY <1>5, <2>1
  <1>7. PICK e : e = todo[L]
    OBVIOUS
  <1>8. /\ e = Last(todo) /\ e \in S /\ Front(todo) \in Seq(S) /\ Len(Front(todo)) = L - 1
        /\ \A k \in 1 .. L - 1 : Front(todo)[k] = todo[k]
    <2>1. L \in 1 .. L /\ todo[L] \in S
      <3> HIDE DEF S
      <3> QED
        BY <1>6
    <2> HIDE DEF S
    <2>2. /\ Last(todo) = todo[Len(todo)] /\ Front(todo) \in Seq(S) /\ Len(Front(todo)) = Len(todo) - 1
          /\ \A k \in 1 .. Len(todo) - 1 : Front(todo)[k] = todo[k]
      BY <1>6, EndsOf
    <2> QED
      BY <1>7, <2>1, <2>2
  <1>9. PICK p \in DOMAIN t : t[p].lev = L /\ \E i \in 1 .. Len(t[p].keys) : t[p].keys[i] = e.key
    <2>1. L \in DOMAIN todo
      BY <1>6
    <2> QED
      BY <1>5, <1>7, <2>1 DEF IsTodo
  <1>10. PICK j \in 1 .. Len(t[p].keys) : t[p].keys[j] = e.key
    BY <1>9
  <1>11. e.key \in Nat /\ e.page \in DOMAIN t
    BY <1>8
  <1>12. PageWithDivider(e.key) = p /\ HasAt(p, e.key)
    BY <1>1, <1>3, <1>4, <1>5, <1>6, <1>9, <1>10, DividerFound
  <1>13. Inner(t, p)
    BY <1>1, <1>3, <1>4, <1>6, <1>9, InnerPage
  <1>14. DOMAIN t = InTree /\ p \in DOMAIN pages /\ p >= Root /\ p # 0 /\ e.page \in Nat
    <2>1. DOMAIN t = InTree
      BY <1>3 DEF Hold
    <2> QED
      <3>1. \A y \in DOMAIN t : y \in DOMAIN pages /\ y >= Root
        BY <2>1 DEF InTree
      <3>2. DOMAIN pages \subseteq Nat \ {0}
        BY <1>1 DEF ArePages
      <3> QED
        BY <1>9, <1>11, <2>1, <3>1, <3>2
  <1>15. PICK a : a = Place(pages[p].cells, e.key)
    OBVIOUS
  <1>16. a \in 1 .. Len(pages[p].cells) /\ pages[p].cells[a].key = e.key /\ t[p].keys[a] = e.key
         /\ a + 1 \in 1 .. Len(pages[p].cells) + 1
    <2>1. a \in 1 .. Len(pages[p].cells) + 1
      BY <1>11, <1>13, <1>15, PlaceOf, BTreeAssumption DEF Inner
    <2>2. a <= Len(pages[p].cells) /\ pages[p].cells[a].key = e.key
      BY <1>12, <1>15 DEF HasAt
    <2>3. a \in 1 .. Len(pages[p].cells) /\ a + 1 \in 1 .. Len(pages[p].cells) + 1
      BY <1>13, <2>1, <2>2 DEF Inner
    <2> QED
      BY <1>13, <2>2, <2>3 DEF Inner, KeysAre
  <1>17. PICK i : i = a + 1
    OBVIOUS
  <1>18. PICK after : after = PointTo(p, i, e.page)
    OBVIOUS
  <1>19. pages' = after /\ call' = Resume(Front(todo)) /\ ret' = ret
    BY <1>5, <1>8, <1>12, <1>14, <1>15, <1>17, <1>18 DEF Retarget
  <1>20. AfterPoint(p, i, e.page, after)
    BY <1>1, <1>13, <1>14, <1>16, <1>17, <1>18, PagePointed DEF Inner
  <1>21. /\ Todo' = Front(todo) /\ \A y : Held(y)' = pages'[y].cells
         /\ call' = Idle \/ (call' = [op |-> "retarget", todo |-> Front(todo)] /\ Front(todo) # <<>>)
    BY <1>19, RestIs
  <1>22. ArePages' /\ DOMAIN pages' = DOMAIN pages
    BY <1>19, <1>20 DEF AfterPoint, ArePages
  <1>23. InTree' = InTree
    BY <1>19, <1>20, <1>22 DEF AfterPoint, InTree
  <1>24. ASSUME NEW y \in DOMAIN t, y # p
         PROVE  Holds(y, t[y], head)'
    <2>1. Holds(y, t[y], head) /\ OfTree(t, rows, head, y)
      BY <1>1, <1>3, <1>14, TreePage DEF Hold
    <2>2. pages'[y] = pages[y] /\ Held(y) = pages[y].cells /\ Held(y)' = pages[y].cells
      BY <1>4, <1>14, <1>19, <1>20, <1>21, <1>24 DEF AfterPoint, InTree, Held
    <2>3. /\ Shows(t[y], pages[y].kind, pages[y].cells, pages[y].right, todo, head)
          /\ t[y].lev = 0 /\ y # Root => Len(pages[y].cells) > 0
      BY <1>5, <2>1, <2>2 DEF Holds
    <2>4. t[y].lev > 0 => Points(t[y], pages[y].cells, pages[y].right, Front(todo))
      <3> SUFFICES ASSUME t[y].lev > 0
                   PROVE  Points(t[y], pages[y].cells, pages[y].right, Front(todo))
        OBVIOUS
      <3>1. Inner(t, y)
        BY <1>1, <1>3, <1>4, InnerPage
      <3>2. t[y].lev = L => \A h \in 1 .. Len(t[y].keys) : t[y].keys[h] # todo[L].key
        <4> SUFFICES ASSUME t[y].lev = L, NEW h \in 1 .. Len(t[y].keys), t[y].keys[h] = e.key
                     PROVE  FALSE
          BY <1>7
        <4>1. e.key \in t[y].rng /\ e.key \in t[p].rng
          <5>1. ASSUME NEW q, IsNodeData(t[q]), NEW x \in 1 .. Len(t[q].keys)
                PROVE  t[q].keys[x] \in t[q].rng
            BY <5>1 DEF IsNodeData
          <5>2. IsNodeData(t[y]) /\ IsNodeData(t[p])
            BY <1>13, <3>1 DEF Inner
          <5>3. t[y].keys[h] \in t[y].rng /\ t[p].keys[j] \in t[p].rng
            BY <5>1, <5>2
          <5> QED
            BY <1>10, <5>3
        <4> QED
          BY <1>3, <1>9, <1>24, <4>1, OneOfLevel
      <3> DEFINE n == t[y]
                 cells == pages[y].cells
                 right == pages[y].right
      <3>3. n.lev \in Nat /\ n.lev > 0 /\ Points(n, cells, right, todo) /\ Len(n.keys) = Len(cells) /\ Len(cells) \in Nat
        BY <1>5, <3>1 DEF Inner, IsNodeData, KeysAre
      <3> HIDE DEF cells, right, S
      <3>4. n.lev = L => \A h \in 1 .. Len(n.keys) : n.keys[h] # todo[L].key
        BY <3>2
      <3> HIDE DEF n
      <3>5. Points(n, cells, right, Front(todo))
        BY <1>6, <3>3, <3>4, OthersDone
      <3> QED
        BY <3>5 DEF n, cells, right
    <2>5. Shows(t[y], pages[y].kind, pages[y].cells, pages[y].right, Front(todo), head)
      BY <2>3, <2>4 DEF Shows
    <2> QED
      BY <1>21, <2>2, <2>3, <2>5 DEF Holds
  <1>25. Holds(p, t[p], head)'
    <2> DEFINE n == t[p]
               cells == pages[p].cells
               right == pages[p].right
               some == after[p].cells
               last == after[p].right
    <2>1. /\ n.lev \in Nat /\ n.lev > 0 /\ Len(todo) = n.lev /\ Points(n, cells, right, todo) /\ cells \in Seq(CellRecords)
          /\ KeysAre(n.keys, cells) /\ Len(n.keys) = Len(cells) /\ n.keys \in Seq(Nat) /\ Sorted(n.keys)
      BY <1>5, <1>6, <1>9, <1>13 DEF Inner, IsNodeData, KeysAre
    <2>2. /\ Len(some) = Len(cells) /\ (\A h \in 1 .. Len(cells) : some[h].key = cells[h].key)
          /\ \A h \in 1 .. Len(cells) + 1 : PointerIn(some, last, h) =
               IF h = a + 1 THEN todo[n.lev].page ELSE PointerIn(cells, right, h)
          /\ after[p].kind = "interior"
      BY <1>7, <1>9, <1>13, <1>17, <1>20 DEF AfterPoint, Inner
    <2>3. a \in 1 .. Len(cells) /\ n.keys[a] = todo[n.lev].key
      BY <1>7, <1>9, <1>16
    <2> HIDE DEF n, cells, right, some, last, S
    <2>4. Points(n, some, last, Front(todo))
      BY <1>6, <2>1, <2>2, <2>3, PointerSet
    <2>5. KeysAre(n.keys, some)
      BY <2>1, <2>2 DEF KeysAre
    <2>6. Shows(n, "interior", some, last, Front(todo), head)
      BY <2>1, <2>4, <2>5 DEF Shows
    <2> QED
      BY <1>19, <1>21, <2>1, <2>2, <2>6 DEF Holds, n, some, last
  <1>26. Hold(t, head)'
    <2>1. \A y \in InTree : Holds(y, t[y], head)'
      BY <1>14, <1>24, <1>25
    <2> QED
      BY <1>14, <1>23, <2>1 DEF Hold
  <1>27. AreChains(head)'
    <2>1. rows \in SUBSET rows /\ \A x \in DOMAIN pages : pages[x].kind = "overflow" => after[x] = pages[x]
      BY <1>13, <1>20 DEF AfterPoint, Inner
    <2> QED
      BY <1>1, <1>3, <1>4, <1>19, <1>20, <2>1, ChainsKept DEF AfterPoint
  <1>28. IsTodo(t)'
    <2>1. Todo' \in Seq(S)
      BY <1>8, <1>21
    <2>2. DOMAIN Front(todo) = 1 .. L - 1
      <3> HIDE DEF S
      <3> QED
        BY <1>6, <1>8
    <2>3. ASSUME NEW k \in DOMAIN Front(todo)
          PROVE  HasKey(t, k, Front(todo)[k].key)
      <3>1. k \in DOMAIN todo /\ Front(todo)[k] = todo[k]
        BY <1>6, <1>8, <2>2
      <3> QED
        BY <1>5, <3>1 DEF IsTodo, HasKey
    <2> QED
      BY <1>21, <2>1, <2>3 DEF IsTodo, HasKey
  <1>29. IsCall(t)'
    <2>1. CASE call' = Idle
      BY <2>1 DEF IsCall
    <2>2. CASE call' = [op |-> "retarget", todo |-> Front(todo)] /\ Front(todo) # <<>>
      BY <1>28, <2>2 DEF IsCall
    <2> QED
      BY <1>21, <2>1, <2>2
  <1>30. IsTree(t, rows)'
    BY <1>3, <1>4 DEF IsTree, IsNode, HasRows
  <1> QED
    BY <1>1, <1>4, <1>19, <1>22, <1>26, <1>27, <1>29, <1>30 DEF TreeInv, Represents

-----------------------------------------------------------------------------
\* The descents as equations

\* Pages and their cells.
LEMMA PageTypes ==
  ASSUME ArePages, NEW p \in DOMAIN pages
  PROVE  /\ p \in Nat /\ p > 0 /\ pages[p] \in PageRecords /\ IsPage(p, pages[p])
         /\ pages[p].cells \in Seq(CellRecords) /\ Len(pages[p].cells) \in Nat
         /\ (pages[p].cells = <<>> <=> Len(pages[p].cells) = 0)
         /\ \A r \in Nat : Place(pages[p].cells, r) \in 1 .. Len(pages[p].cells) + 1
  <1>1. pages \in Seq(PageRecords) /\ p \in 1 .. Len(pages) /\ IsPage(p, pages[p])
    BY DEF ArePages
  <1>2. pages[p] \in PageRecords
    BY <1>1
  <1>3. pages[p].cells \in Seq(CellRecords)
    BY <1>2 DEF PageRecords
  <1>4. \A r \in Nat : Place(pages[p].cells, r) \in 1 .. Len(pages[p].cells) + 1
    BY <1>3, PlaceOf, BTreeAssumption
  <1>5. Len(pages[p].cells) \in Nat /\ (pages[p].cells = <<>> <=> Len(pages[p].cells) = 0)
    BY <1>3
  <1> QED
    BY <1>1, <1>2, <1>3, <1>4, <1>5

StackType == Seq([page : DOMAIN pages, idx : Nat])

\* Frames make stacks.
LEMMA FrameTypes ==
  ASSUME NEW p \in DOMAIN pages, NEW i \in Nat
  PROVE  <<Frame(p, i)>> \in StackType /\ <<>> \in StackType
         /\ \A s \in StackType : <<Frame(p, i)>> \o s \in StackType
  <1> DEFINE S == [page : DOMAIN pages, idx : Nat]
  <1>1. Frame(p, i) \in S
    BY DEF Frame
  <1> HIDE DEF S
  <1>2. <<Frame(p, i)>> \in Seq(S) /\ <<>> \in Seq(S) /\ \A s \in Seq(S) : <<Frame(p, i)>> \o s \in Seq(S)
    BY <1>1
  <1> QED
    BY <1>2 DEF StackType, S

\* find_leaf_for_insert.
GoingTo(r, down) ==
  [p \in DOMAIN pages |->
     LET i == Place(pages[p].cells, r)
     IN  IF pages[p].kind # "interior" THEN <<p>> ELSE <<p>> \o down[Child(pages[p], i)]]

GoesTo(r, f) ==
  /\ \A p \in DOMAIN pages :
       /\ pages[p].kind # "interior" => f[p] = <<p>>
       /\ pages[p].kind = "interior" => f[p] = <<p>> \o f[Child(pages[p], Place(pages[p].cells, r))]

\* The path to a rowid as an equation.
LEMMA PathDescent ==
  ASSUME ArePages, NEW t, NEW R, IsTree(t, R), Leads(t), DOMAIN t \subseteq DOMAIN pages, NEW r \in Nat
  PROVE  \E f : GoesTo(r, f) /\ PathTo(r) = f[Root]
  <1> DEFINE D == DOMAIN pages
             V == Seq(DOMAIN pages)
             at(p) == Place(pages[p].cells, r)
             stop == {p \in D : pages[p].kind # "interior"}
             base == [p \in D |-> <<p>>]
             go == [p \in D |-> at(p)]
             join == [pv \in D \X V |-> <<pv[1]>> \o pv[2]]
  <1>1. \A p \in D : p \in Nat /\ at(p) \in Nat \ {0} /\ (pages[p].cells = <<>> <=> Len(pages[p].cells) = 0)
                   /\ Len(pages[p].cells) \in Nat
    <2> SUFFICES ASSUME NEW p \in D
                 PROVE  p \in Nat /\ at(p) \in Nat \ {0} /\ (pages[p].cells = <<>> <=> Len(pages[p].cells) = 0)
                        /\ Len(pages[p].cells) \in Nat
      OBVIOUS
    <2>1. p \in Nat /\ Len(pages[p].cells) \in Nat /\ (pages[p].cells = <<>> <=> Len(pages[p].cells) = 0)
      BY PageTypes
    <2>2. at(p) \in Nat \ {0}
      <3>1. at(p) \in 1 .. Len(pages[p].cells) + 1
        BY PageTypes
      <3> QED
        BY <2>1, <3>1
    <2> QED
      BY <2>1, <2>2
  <1> HIDE DEF at
  <1>2. \A p \in D : base[p] \in V
    OBVIOUS
  <1>3. ASSUME NEW p \in D, NEW v \in V
        PROVE  join[<<p, v>>] \in V
    <2>1. <<p>> \in Seq(DOMAIN pages)
      OBVIOUS
    <2>2. <<p>> \o v \in V
      BY <2>1
    <2>3. join[<<p, v>>] = <<p>> \o v
      <3> HIDE DEF V
      <3> QED
        OBVIOUS
    <2> QED
      BY <2>2, <2>3
  <1>4. IsDescent(V, stop, base, go, join)
    <2>1. V # {}
      <3>1. <<>> \in V
        OBVIOUS
      <3> QED
        BY <3>1
    <2>2. \A p \in D \ stop : pages[p].kind = "interior"
      OBVIOUS
    <2>3. go \in [D -> Nat \ {0}]
      BY <1>1
    <2> HIDE DEF base, join, V, stop, go
    <2> QED
      BY <1>2, <1>3, <2>1, <2>2, <2>3 DEF IsDescent
  <1>5. PICK h : Descent(V, stop, base, go, join, h)
    <2> HIDE DEF base, join, V, stop, go
    <2> QED
      BY <1>4, Descends
  <1>6. ASSUME NEW p \in D
        PROVE  h[p] = IF p \in stop THEN base[p] ELSE join[<<p, h[Child(pages[p], at(p))]>>]
    BY <1>5 DEF Descent
  <1>7. ASSUME NEW p \in D, p \notin stop
        PROVE  h[Child(pages[p], at(p))] \in V
    <2>1. Child(pages[p], at(p)) \in D
      BY <1>1, <1>7 DEF Leads
    <2> HIDE DEF base, join, V, stop, go
    <2> QED
      BY <1>5, <2>1 DEF Descent
  <1>8. ASSUME NEW p \in D
        PROVE  h[p] = GoingTo(r, h)[p]
    <2>1. CASE p \in stop
      <3>1. h[p] = base[p]
        BY <1>6, <2>1
      <3> QED
        BY <1>1, <2>1, <3>1 DEF GoingTo, at
    <2>2. CASE p \notin stop
      <3>1. h[p] = join[<<p, h[Child(pages[p], at(p))]>>]
        BY <1>6, <2>2
      <3>2. h[p] = <<p>> \o h[Child(pages[p], at(p))]
        BY <1>7, <2>2, <3>1
      <3> QED
        BY <2>2, <3>2 DEF GoingTo, at
    <2> QED
      BY <2>1, <2>2
  <1>9. h = GoingTo(r, h)
    BY <1>5, <1>8 DEF Descent, GoingTo
  <1>10. PICK f : f = GoingTo(r, f) /\ PathTo(r) = f[Root]
    BY <1>9 DEF PathTo, GoingTo
  <1>11. \A p \in D : f[p] = GoingTo(r, f)[p]
    BY <1>10
  <1>12. GoesTo(r, f)
    BY <1>1, <1>11 DEF GoesTo, GoingTo, Child
  <1> QED
    BY <1>10, <1>12

\* descend_first.
GoingFirst(down) ==
  [p \in DOMAIN pages |->
     CASE pages[p].cells = <<>> /\ pages[p].kind # "interior" -> <<>>
       [] pages[p].cells = <<>> /\ pages[p].kind = "interior" -> down[pages[p].right]
       [] pages[p].cells # <<>> /\ pages[p].kind # "interior" -> <<Frame(p, 1)>>
       [] OTHER -> <<Frame(p, 1)>> \o down[Child(pages[p], 1)]]

GoesFirst(f) ==
  /\ \A p \in DOMAIN pages : pages[p].cells = <<>> /\ pages[p].kind # "interior" => f[p] = <<>>
  /\ \A p \in DOMAIN pages : pages[p].cells # <<>> =>
       /\ pages[p].kind # "interior" => f[p] = <<Frame(p, 1)>>
       /\ pages[p].kind = "interior" => f[p] = <<Frame(p, 1)>> \o f[Child(pages[p], 1)]

\* The descent to the first cell as an equation.
LEMMA FirstDescent ==
  ASSUME ArePages, NEW t, NEW R, IsTree(t, R), Leads(t), DOMAIN t \subseteq DOMAIN pages
  PROVE  \E f : GoesFirst(f) /\ \A top : DescendFirst(top) = f[top]
  <1> DEFINE D == DOMAIN pages
             V == StackType
             at(p) == 1
             stop == {p \in D : pages[p].kind # "interior"}
             base == [p \in D |-> IF pages[p].cells = <<>> THEN <<>> ELSE <<Frame(p, 1)>>]
             go == [p \in D |-> at(p)]
             join == [pv \in D \X V |-> IF pages[pv[1]].cells = <<>> THEN pv[2] ELSE <<Frame(pv[1], 1)>> \o pv[2]]
  <1>1. \A p \in D : p \in Nat /\ at(p) \in Nat \ {0} /\ (pages[p].cells = <<>> <=> Len(pages[p].cells) = 0)
                   /\ Len(pages[p].cells) \in Nat
    <2> SUFFICES ASSUME NEW p \in D
                 PROVE  p \in Nat /\ at(p) \in Nat \ {0} /\ (pages[p].cells = <<>> <=> Len(pages[p].cells) = 0)
                        /\ Len(pages[p].cells) \in Nat
      OBVIOUS
    <2>1. p \in Nat /\ Len(pages[p].cells) \in Nat /\ (pages[p].cells = <<>> <=> Len(pages[p].cells) = 0)
      BY PageTypes
    <2>2. at(p) \in Nat \ {0}
      OBVIOUS
    <2> QED
      BY <2>1, <2>2
  <1> HIDE DEF at
  <1>2. \A p \in D : base[p] \in V
    <2> SUFFICES ASSUME NEW p \in D PROVE base[p] \in V
      OBVIOUS
    <2>1. <<>> \in StackType /\ <<Frame(p, 1)>> \in StackType
      BY FrameTypes
    <2> QED
      BY <2>1
  <1>3. ASSUME NEW p \in D, NEW v \in V
        PROVE  join[<<p, v>>] \in V
    <2>1. <<Frame(p, 1)>> \o v \in StackType
      BY FrameTypes
    <2> QED
      BY <2>1
  <1>4. IsDescent(V, stop, base, go, join)
    <2>1. V # {}
      <3>1. <<>> \in V
        BY DEF StackType
      <3> QED
        BY <3>1
    <2>2. \A p \in D \ stop : pages[p].kind = "interior"
      OBVIOUS
    <2>3. go \in [D -> Nat \ {0}]
      BY <1>1
    <2> HIDE DEF base, join, V, stop, go
    <2> QED
      BY <1>2, <1>3, <2>1, <2>2, <2>3 DEF IsDescent
  <1>5. PICK h : Descent(V, stop, base, go, join, h)
    <2> HIDE DEF base, join, V, stop, go
    <2> QED
      BY <1>4, Descends
  <1>6. ASSUME NEW p \in D
        PROVE  h[p] = IF p \in stop THEN base[p] ELSE join[<<p, h[Child(pages[p], at(p))]>>]
    BY <1>5 DEF Descent
  <1>7. ASSUME NEW p \in D, p \notin stop
        PROVE  h[Child(pages[p], at(p))] \in V
    <2>1. Child(pages[p], at(p)) \in D
      BY <1>1, <1>7 DEF Leads
    <2> HIDE DEF base, join, V, stop, go
    <2> QED
      BY <1>5, <2>1 DEF Descent
  <1>8. ASSUME NEW p \in D
        PROVE  h[p] = GoingFirst(h)[p]
    <2>1. CASE p \in stop
      <3>1. h[p] = base[p]
        BY <1>6, <2>1
      <3> QED
        BY <1>1, <2>1, <3>1 DEF GoingFirst, at
    <2>2. CASE p \notin stop
      <3>1. h[p] = join[<<p, h[Child(pages[p], at(p))]>>]
        BY <1>6, <2>2
      <3> DEFINE c == Child(pages[p], at(p))
      <3>2. h[p] = IF pages[p].cells = <<>> THEN h[c] ELSE <<Frame(p, 1)>> \o h[c]
        BY <1>7, <2>2, <3>1
      <3>3. c = Child(pages[p], 1)
        BY DEF at
      <3>4. pages[p].cells = <<>> => c = pages[p].right
        BY <1>1, <3>3 DEF Child
      <3> QED
        BY <2>2, <3>2, <3>3, <3>4 DEF GoingFirst
    <2> QED
      BY <2>1, <2>2
  <1>9. h = GoingFirst(h)
    BY <1>5, <1>8 DEF Descent, GoingFirst
  <1>10. PICK f : f = GoingFirst(f) /\ \A top : DescendFirst(top) = f[top]
    BY <1>9 DEF DescendFirst, GoingFirst
  <1>11. \A p \in D : f[p] = GoingFirst(f)[p]
    BY <1>10
  <1>12. GoesFirst(f)
    BY <1>1, <1>11 DEF GoesFirst, GoingFirst, Child
  <1> QED
    BY <1>10, <1>12

\* descend_last.
GoingLast(down) ==
  [p \in DOMAIN pages |->
     LET n == Len(pages[p].cells)
     IN  CASE n = 0 /\ pages[p].kind # "interior" -> <<>>
           [] n = 0 /\ pages[p].kind = "interior" -> down[pages[p].right]
           [] n > 0 /\ pages[p].kind # "interior" -> <<Frame(p, n)>>
           [] OTHER -> <<Frame(p, n + 1)>> \o down[pages[p].right]]

GoesLast(f) ==
  /\ \A p \in DOMAIN pages : pages[p].cells = <<>> /\ pages[p].kind # "interior" => f[p] = <<>>
  /\ \A p \in DOMAIN pages : pages[p].cells # <<>> =>
       /\ pages[p].kind # "interior" => f[p] = <<Frame(p, Len(pages[p].cells))>>
       /\ pages[p].kind = "interior" => f[p] = <<Frame(p, Len(pages[p].cells) + 1)>> \o f[Child(pages[p], Len(pages[p].cells) + 1)]

\* The descent to the last cell as an equation.
LEMMA LastDescent ==
  ASSUME ArePages, NEW t, NEW R, IsTree(t, R), Leads(t), DOMAIN t \subseteq DOMAIN pages
  PROVE  \E f : GoesLast(f) /\ \A top : DescendLast(top) = f[top]
  <1> DEFINE D == DOMAIN pages
             V == StackType
             at(p) == Len(pages[p].cells) + 1
             stop == {p \in D : pages[p].kind # "interior"}
             base == [p \in D |-> IF pages[p].cells = <<>> THEN <<>> ELSE <<Frame(p, Len(pages[p].cells))>>]
             go == [p \in D |-> at(p)]
             join == [pv \in D \X V |-> IF pages[pv[1]].cells = <<>> THEN pv[2] ELSE <<Frame(pv[1], Len(pages[pv[1]].cells) + 1)>> \o pv[2]]
  <1>1. \A p \in D : p \in Nat /\ at(p) \in Nat \ {0} /\ (pages[p].cells = <<>> <=> Len(pages[p].cells) = 0)
                   /\ Len(pages[p].cells) \in Nat
    <2> SUFFICES ASSUME NEW p \in D
                 PROVE  p \in Nat /\ at(p) \in Nat \ {0} /\ (pages[p].cells = <<>> <=> Len(pages[p].cells) = 0)
                        /\ Len(pages[p].cells) \in Nat
      OBVIOUS
    <2>1. p \in Nat /\ Len(pages[p].cells) \in Nat /\ (pages[p].cells = <<>> <=> Len(pages[p].cells) = 0)
      BY PageTypes
    <2>2. at(p) \in Nat \ {0}
      BY <2>1
    <2> QED
      BY <2>1, <2>2
  <1> HIDE DEF at
  <1>2. \A p \in D : base[p] \in V
    <2> SUFFICES ASSUME NEW p \in D PROVE base[p] \in V
      OBVIOUS
    <2>1. <<>> \in StackType /\ <<Frame(p, Len(pages[p].cells))>> \in StackType
      BY <1>1, FrameTypes
    <2> QED
      BY <2>1
  <1>3. ASSUME NEW p \in D, NEW v \in V
        PROVE  join[<<p, v>>] \in V
    <2>0. Len(pages[p].cells) + 1 \in Nat
      BY <1>1
    <2>1. <<Frame(p, Len(pages[p].cells) + 1)>> \o v \in StackType
      BY <2>0, FrameTypes
    <2> QED
      BY <2>1
  <1>4. IsDescent(V, stop, base, go, join)
    <2>1. V # {}
      <3>1. <<>> \in V
        BY DEF StackType
      <3> QED
        BY <3>1
    <2>2. \A p \in D \ stop : pages[p].kind = "interior"
      OBVIOUS
    <2>3. go \in [D -> Nat \ {0}]
      BY <1>1
    <2> HIDE DEF base, join, V, stop, go
    <2> QED
      BY <1>2, <1>3, <2>1, <2>2, <2>3 DEF IsDescent
  <1>5. PICK h : Descent(V, stop, base, go, join, h)
    <2> HIDE DEF base, join, V, stop, go
    <2> QED
      BY <1>4, Descends
  <1>6. ASSUME NEW p \in D
        PROVE  h[p] = IF p \in stop THEN base[p] ELSE join[<<p, h[Child(pages[p], at(p))]>>]
    BY <1>5 DEF Descent
  <1>7. ASSUME NEW p \in D, p \notin stop
        PROVE  h[Child(pages[p], at(p))] \in V
    <2>1. Child(pages[p], at(p)) \in D
      BY <1>1, <1>7 DEF Leads
    <2> HIDE DEF base, join, V, stop, go
    <2> QED
      BY <1>5, <2>1 DEF Descent
  <1>8. ASSUME NEW p \in D
        PROVE  h[p] = GoingLast(h)[p]
    <2>1. CASE p \in stop
      <3>1. h[p] = base[p]
        BY <1>6, <2>1
      <3> QED
        BY <1>1, <2>1, <3>1 DEF GoingLast, at
    <2>2. CASE p \notin stop
      <3>1. h[p] = join[<<p, h[Child(pages[p], at(p))]>>]
        BY <1>6, <2>2
      <3> DEFINE c == Child(pages[p], at(p))
                 n == Len(pages[p].cells)
      <3>2. h[p] = IF pages[p].cells = <<>> THEN h[c] ELSE <<Frame(p, n + 1)>> \o h[c]
        BY <1>7, <2>2, <3>1
      <3>3. n \in Nat /\ (pages[p].cells = <<>> <=> n = 0) /\ c = pages[p].right
        BY <1>1 DEF at, Child
      <3> HIDE DEF n, c
      <3>4. h[p] = IF n = 0 THEN h[pages[p].right] ELSE <<Frame(p, n + 1)>> \o h[pages[p].right]
        BY <3>2, <3>3
      <3> QED
        BY <2>2, <3>3, <3>4 DEF GoingLast, n
    <2> QED
      BY <2>1, <2>2
  <1>9. h = GoingLast(h)
    BY <1>5, <1>8 DEF Descent, GoingLast
  <1>10. PICK f : f = GoingLast(f) /\ \A top : DescendLast(top) = f[top]
    BY <1>9 DEF DescendLast, GoingLast
  <1>11. \A p \in D : f[p] = GoingLast(f)[p]
    BY <1>10
  <1>12. ASSUME NEW p \in D, pages[p].cells # <<>>
         PROVE  /\ pages[p].kind # "interior" => f[p] = <<Frame(p, Len(pages[p].cells))>>
                /\ pages[p].kind = "interior" => f[p] = <<Frame(p, Len(pages[p].cells) + 1)>> \o f[Child(pages[p], Len(pages[p].cells) + 1)]
    <2> DEFINE n == Len(pages[p].cells)
    <2>1. n \in Nat /\ n > 0 /\ n # 0
      BY <1>1, <1>12
    <2>2. Child(pages[p], n + 1) = pages[p].right
      BY <2>1 DEF Child
    <2>3. f[p] = GoingLast(f)[p]
      BY <1>11
    <2> HIDE DEF n
    <2>4. f[p] = CASE n = 0 /\ pages[p].kind # "interior" -> <<>>
                   [] n = 0 /\ pages[p].kind = "interior" -> f[pages[p].right]
                   [] n > 0 /\ pages[p].kind # "interior" -> <<Frame(p, n)>>
                   [] OTHER -> <<Frame(p, n + 1)>> \o f[pages[p].right]
      BY <2>3 DEF GoingLast, n
    <2> QED
      BY <2>1, <2>2, <2>4 DEF n
  <1>13. ASSUME NEW p \in D, pages[p].cells = <<>>, pages[p].kind # "interior"
         PROVE  f[p] = <<>>
    <2> DEFINE n == Len(pages[p].cells)
    <2>1. n = 0
      BY <1>1, <1>13
    <2>2. f[p] = GoingLast(f)[p]
      BY <1>11
    <2> HIDE DEF n
    <2>3. f[p] = CASE n = 0 /\ pages[p].kind # "interior" -> <<>>
                   [] n = 0 /\ pages[p].kind = "interior" -> f[pages[p].right]
                   [] n > 0 /\ pages[p].kind # "interior" -> <<Frame(p, n)>>
                   [] OTHER -> <<Frame(p, n + 1)>> \o f[pages[p].right]
      BY <2>2 DEF GoingLast, n
    <2> QED
      BY <1>13, <2>1, <2>3
  <1>14. GoesLast(f)
    BY <1>12, <1>13 DEF GoesLast
  <1> QED
    BY <1>10, <1>14

\* Where a search ends in a leaf, and what it pushes above.
HasFrom(p, r) == Place(pages[p].cells, r) <= Len(pages[p].cells)

Landed(p, r) ==
  [stack |-> <<Frame(p, Place(pages[p].cells, r))>>,
   answer |-> IF pages[p].cells[Place(pages[p].cells, r)].key = r THEN "Equal" ELSE "Greater"]

Pushed(p, i, v) == [stack |-> <<Frame(p, i)>> \o v.stack, answer |-> v.answer]

\* search.
Searching(r, down) ==
  [p \in DOMAIN pages |->
     LET cells == pages[p].cells
         i == Place(cells, r)
         below == down[Child(pages[p], i)]
         here == Frame(p, i)
     IN  CASE cells = <<>> -> [stack |-> <<>>, answer |-> "Empty"]
           [] cells # <<>> /\ pages[p].kind = "interior" ->
                [below EXCEPT !.stack = <<here>> \o @]
           [] OTHER ->
                IF i > Len(cells) THEN [stack |-> <<>>, answer |-> "Less"]
                ELSE [stack |-> <<here>>,
                      answer |-> IF cells[i].key = r THEN "Equal" ELSE "Greater"]]

Searches(r, f) ==
  /\ \A p \in DOMAIN pages : pages[p].cells = <<>> => f[p] = [stack |-> <<>>, answer |-> "Empty"]
  /\ \A p \in DOMAIN pages : pages[p].cells # <<>> =>
       /\ pages[p].kind # "interior" => f[p] = IF HasFrom(p, r) THEN Landed(p, r) ELSE [stack |-> <<>>, answer |-> "Less"]
       /\ pages[p].kind = "interior" => f[p] = [f[Child(pages[p], Place(pages[p].cells, r))] EXCEPT !.stack = <<Frame(p, Place(pages[p].cells, r))>> \o @]

\* The search for a rowid as an equation.
LEMMA SearchDescent ==
  ASSUME ArePages, NEW t, NEW R, IsTree(t, R), Leads(t), DOMAIN t \subseteq DOMAIN pages, NEW r \in Nat
  PROVE  \E f : Searches(r, f) /\ Search(r) = f[Root]
  <1> DEFINE D == DOMAIN pages
             V == [stack : StackType, answer : {"Empty", "Less", "Equal", "Greater"}]
             at(p) == Place(pages[p].cells, r)
             stop == {p \in D : pages[p].kind # "interior" \/ pages[p].cells = <<>>}
             base == [p \in D |-> IF pages[p].cells = <<>> THEN [stack |-> <<>>, answer |-> "Empty"] ELSE IF HasFrom(p, r) THEN Landed(p, r) ELSE [stack |-> <<>>, answer |-> "Less"]]
             go == [p \in D |-> at(p)]
             join == [pv \in D \X V |-> Pushed(pv[1], at(pv[1]), pv[2])]
  <1>1. \A p \in D : p \in Nat /\ at(p) \in Nat \ {0} /\ (pages[p].cells = <<>> <=> Len(pages[p].cells) = 0)
                   /\ Len(pages[p].cells) \in Nat
    <2> SUFFICES ASSUME NEW p \in D
                 PROVE  p \in Nat /\ at(p) \in Nat \ {0} /\ (pages[p].cells = <<>> <=> Len(pages[p].cells) = 0)
                        /\ Len(pages[p].cells) \in Nat
      OBVIOUS
    <2>1. p \in Nat /\ Len(pages[p].cells) \in Nat /\ (pages[p].cells = <<>> <=> Len(pages[p].cells) = 0)
      BY PageTypes
    <2>2. at(p) \in Nat \ {0}
      <3>1. at(p) \in 1 .. Len(pages[p].cells) + 1
        BY PageTypes
      <3> QED
        BY <2>1, <3>1
    <2> QED
      BY <2>1, <2>2
  <1> HIDE DEF at
  <1>2. \A p \in D : base[p] \in V
    <2> SUFFICES ASSUME NEW p \in D PROVE base[p] \in V
      OBVIOUS
    <2>1. <<>> \in StackType /\ <<Frame(p, at(p))>> \in StackType
      BY <1>1, FrameTypes
    <2> QED
      BY <2>1 DEF Landed, at
  <1>3. ASSUME NEW p \in D, NEW v \in V
        PROVE  join[<<p, v>>] \in V
    <2>1. <<Frame(p, at(p))>> \o v.stack \in StackType
      BY <1>1, FrameTypes
    <2> QED
      BY <2>1 DEF Pushed
  <1>4. IsDescent(V, stop, base, go, join)
    <2>1. V # {}
      <3>1. <<>> \in StackType
        BY DEF StackType
      <3>2. [stack |-> <<>>, answer |-> "Empty"] \in V
        BY <3>1
      <3> QED
        BY <3>2
    <2>2. \A p \in D \ stop : pages[p].kind = "interior"
      OBVIOUS
    <2>3. go \in [D -> Nat \ {0}]
      BY <1>1
    <2> HIDE DEF base, join, V, stop, go
    <2> QED
      BY <1>2, <1>3, <2>1, <2>2, <2>3 DEF IsDescent
  <1>5. PICK h : Descent(V, stop, base, go, join, h)
    <2> HIDE DEF base, join, V, stop, go
    <2> QED
      BY <1>4, Descends
  <1>6. ASSUME NEW p \in D
        PROVE  h[p] = IF p \in stop THEN base[p] ELSE join[<<p, h[Child(pages[p], at(p))]>>]
    BY <1>5 DEF Descent
  <1>7. ASSUME NEW p \in D, p \notin stop
        PROVE  h[Child(pages[p], at(p))] \in V
    <2>1. Child(pages[p], at(p)) \in D
      BY <1>1, <1>7 DEF Leads
    <2> HIDE DEF base, join, V, stop, go
    <2> QED
      BY <1>5, <2>1 DEF Descent
  <1>8. ASSUME NEW p \in D
        PROVE  h[p] = Searching(r, h)[p]
    <2>1. CASE p \in stop
      <3>1. h[p] = base[p]
        BY <1>6, <2>1
      <3>2. HasFrom(p, r) <=> ~(at(p) > Len(pages[p].cells))
        BY <1>1 DEF HasFrom, at
      <3>3. base[p] = IF pages[p].cells = <<>> THEN [stack |-> <<>>, answer |-> "Empty"]
                      ELSE IF HasFrom(p, r) THEN Landed(p, r) ELSE [stack |-> <<>>, answer |-> "Less"]
        OBVIOUS
      <3>4. Landed(p, r) = [stack |-> <<Frame(p, at(p))>>,
                            answer |-> IF pages[p].cells[at(p)].key = r THEN "Equal" ELSE "Greater"]
        BY DEF Landed, at
      <3>5. pages[p].cells # <<>> => pages[p].kind # "interior"
        BY <2>1
      <3> HIDE DEF base, stop
      <3>6. Searching(r, h)[p] =
              CASE pages[p].cells = <<>> -> [stack |-> <<>>, answer |-> "Empty"]
                [] pages[p].cells # <<>> /\ pages[p].kind = "interior" ->
                     [h[Child(pages[p], at(p))] EXCEPT !.stack = <<Frame(p, at(p))>> \o @]
                [] OTHER ->
                     IF at(p) > Len(pages[p].cells) THEN [stack |-> <<>>, answer |-> "Less"]
                     ELSE [stack |-> <<Frame(p, at(p))>>,
                           answer |-> IF pages[p].cells[at(p)].key = r THEN "Equal" ELSE "Greater"]
        BY DEF Searching, at
      <3> QED
        BY <3>1, <3>2, <3>3, <3>4, <3>5, <3>6
    <2>2. CASE p \notin stop
      <3>1. h[p] = join[<<p, h[Child(pages[p], at(p))]>>]
        BY <1>6, <2>2
      <3> DEFINE v == h[Child(pages[p], at(p))]
      <3>2. v \in V
        BY <1>7, <2>2
      <3>3. h[p] = Pushed(p, at(p), v)
        BY <3>1, <3>2
      <3>4. [v EXCEPT !.stack = <<Frame(p, at(p))>> \o @] = Pushed(p, at(p), v)
        <4> HIDE DEF v
        <4>1. v = [stack |-> v.stack, answer |-> v.answer]
          BY <3>2
        <4> DEFINE g == <<Frame(p, at(p))>> \o v.stack
        <4>2. [v EXCEPT !.stack = g] = [stack |-> g, answer |-> v.answer]
          <5> HIDE DEF g
          <5> QED
            BY <4>1
        <4> QED
          BY <4>2 DEF Pushed
      <3> QED
        BY <2>2, <3>3, <3>4 DEF Searching, at
    <2> QED
      BY <2>1, <2>2
  <1>9. h = Searching(r, h)
    BY <1>5, <1>8 DEF Descent, Searching
  <1>10. PICK f : f = Searching(r, f) /\ Search(r) = f[Root]
    BY <1>9 DEF Search, Searching
  <1>11. \A p \in D : f[p] = Searching(r, f)[p]
    BY <1>10
  <1>12. ASSUME NEW p \in D, pages[p].cells # <<>>
         PROVE  /\ pages[p].kind # "interior" =>
                     f[p] = IF HasFrom(p, r) THEN Landed(p, r) ELSE [stack |-> <<>>, answer |-> "Less"]
                /\ pages[p].kind = "interior" =>
                     f[p] = [f[Child(pages[p], at(p))] EXCEPT !.stack = <<Frame(p, at(p))>> \o @]
    <2>1. HasFrom(p, r) <=> ~(at(p) > Len(pages[p].cells))
      BY <1>1 DEF HasFrom, at
    <2>2. Landed(p, r) = [stack |-> <<Frame(p, at(p))>>,
                          answer |-> IF pages[p].cells[at(p)].key = r THEN "Equal" ELSE "Greater"]
      BY DEF Landed, at
    <2>3. Searching(r, f)[p] =
            CASE pages[p].cells = <<>> -> [stack |-> <<>>, answer |-> "Empty"]
              [] pages[p].cells # <<>> /\ pages[p].kind = "interior" ->
                   [f[Child(pages[p], at(p))] EXCEPT !.stack = <<Frame(p, at(p))>> \o @]
              [] OTHER ->
                   IF at(p) > Len(pages[p].cells) THEN [stack |-> <<>>, answer |-> "Less"]
                   ELSE [stack |-> <<Frame(p, at(p))>>,
                         answer |-> IF pages[p].cells[at(p)].key = r THEN "Equal" ELSE "Greater"]
      BY DEF Searching, at
    <2> QED
      BY <1>11, <1>12, <2>1, <2>2, <2>3
  <1>13. ASSUME NEW p \in D, pages[p].cells = <<>>
         PROVE  f[p] = [stack |-> <<>>, answer |-> "Empty"]
    BY <1>11, <1>13 DEF Searching
  <1>14. Searches(r, f)
    BY <1>12, <1>13 DEF Searches, at
  <1> QED
    BY <1>10, <1>14

-----------------------------------------------------------------------------
\* The path of an insertion

\* g is s with e before it.
IsConsed(S, g, e, s) ==
  /\ g \in Seq(S) /\ Len(g) = Len(s) + 1 /\ g[1] = e
  /\ \A k \in 2 .. Len(s) + 1 : g[k] = s[k - 1]

\* A sequence with one element before it.
LEMMA Consed ==
  ASSUME NEW S, NEW e \in S, NEW s \in Seq(S)
  PROVE  IsConsed(S, <<e>> \o s, e, s)
  BY DEF IsConsed

\* What holds from one element to the next holds with one more before them.
LEMMA ConsedSteps ==
  ASSUME NEW S, NEW s \in Seq(S), Len(s) > 0, NEW e, NEW g, IsConsed(S, g, e, s),
         NEW rel, <<e, s[1]>> \in rel, \A k \in 1 .. Len(s) - 1 : <<s[k], s[k + 1]>> \in rel
  PROVE  \A k \in 1 .. Len(g) - 1 : <<g[k], g[k + 1]>> \in rel
  <1> DEFINE n == Len(s)
  <1>1. n \in Nat /\ Len(g) = n + 1 /\ g[1] = e /\ \A k \in 2 .. n + 1 : g[k] = s[k - 1]
    BY DEF IsConsed
  <1> HIDE DEF n
  <1> SUFFICES ASSUME NEW k \in 1 .. n PROVE <<g[k], g[k + 1]>> \in rel
    BY <1>1
  <1>2. k + 1 \in 2 .. n + 1 /\ k + 1 - 1 = k
    BY <1>1
  <1>3. g[k + 1] = s[k]
    BY <1>1, <1>2
  <1>4. CASE k = 1
    BY <1>1, <1>3, <1>4
  <1>5. CASE k # 1
    <2> DEFINE h == k - 1
    <2>1. h \in 1 .. n - 1 /\ k \in 2 .. n + 1 /\ h + 1 = k
      BY <1>1, <1>5
    <2>2. g[k] = s[h]
      BY <1>1, <2>1
    <2> HIDE DEF h
    <2>3. <<s[h], s[k]>> \in rel
      BY <2>1 DEF n
    <2> QED
      BY <1>3, <2>2, <2>3
  <1> QED
    BY <1>4, <1>5

\* A path from node p down to the leaf that is responsible for r.
PathFrom(t, p, path, r) ==
  /\ path \in Seq(DOMAIN t) /\ Len(path) = t[p].lev + 1 /\ path[1] = p
  /\ \A k \in 1 .. Len(path) : t[path[k]].lev = t[p].lev + 1 - k
  /\ \A k \in 1 .. Len(path) - 1 : Below(t, path[k], path[k + 1])
  /\ r \in t[path[Len(path)]].rng

\* A path to a leaf, with the page above its first one before it.
LEMMA LongerPath ==
  ASSUME NEW t, NEW p \in DOMAIN t, NEW c \in DOMAIN t, Below(t, p, c), t[p].lev \in Nat, t[c].lev \in Nat,
         t[c].lev = t[p].lev - 1, NEW r, NEW s, PathFrom(t, c, s, r)
  PROVE  PathFrom(t, p, <<p>> \o s, r)
  <1> DEFINE D == DOMAIN t
             rel == {xy \in D \X D : Below(t, xy[1], xy[2])}
  <1>1. PICK n : n = Len(s)
    OBVIOUS
  <1>2. s \in Seq(D) /\ n = t[c].lev + 1 /\ n \in Nat /\ n > 0 /\ n = t[p].lev /\ s[1] = c
        /\ (\A k \in 1 .. n : t[s[k]].lev = t[c].lev + 1 - k)
        /\ (\A k \in 1 .. n - 1 : Below(t, s[k], s[k + 1])) /\ r \in t[s[n]].rng
    BY <1>1 DEF PathFrom
  <1>3. PICK g : g = <<p>> \o s
    OBVIOUS
  <1>4. IsConsed(D, g, p, s)
    <2>1. p \in D
      OBVIOUS
    <2> HIDE DEF D
    <2> QED
      BY <1>2, <1>3, <2>1, Consed
  <1>5. g \in Seq(D) /\ Len(g) = n + 1 /\ g[1] = p /\ \A k \in 2 .. n + 1 : g[k] = s[k - 1]
    BY <1>1, <1>4 DEF IsConsed
  <1>6. ASSUME NEW k \in 1 .. n + 1
        PROVE  t[g[k]].lev = t[p].lev + 1 - k
    <2>1. CASE k = 1
      BY <1>5, <2>1
    <2>2. CASE k # 1
      <3> DEFINE h == k - 1
      <3>1. h \in 1 .. n /\ k \in 2 .. n + 1 /\ g[k] = s[h] /\ k = h + 1 /\ h \in Nat
        BY <1>2, <1>5, <2>2
      <3> HIDE DEF h
      <3>2. t[s[h]].lev = t[c].lev + 1 - h
        BY <1>2, <3>1
      <3> QED
        BY <3>1, <3>2
    <2> QED
      BY <2>1, <2>2
  <1>7. \A k \in 1 .. Len(g) - 1 : <<g[k], g[k + 1]>> \in rel
    <2>1. <<p, s[1]>> \in rel
      BY <1>2
    <2>2. ASSUME NEW k \in 1 .. n - 1
          PROVE  <<s[k], s[k + 1]>> \in rel
      <3>1. k \in 1 .. n /\ k + 1 \in 1 .. n
        BY <1>2
      <3>2. s[k] \in D /\ s[k + 1] \in D
        <4>1. \A j \in 1 .. n : s[j] \in D
          <5>1. s \in Seq(D) /\ n = Len(s)
            BY <1>1, <1>2
          <5> HIDE DEF D
          <5> QED
            BY <5>1
        <4> HIDE DEF D
        <4> QED
          BY <3>1, <4>1
      <3> QED
        BY <1>2, <3>2
    <2> HIDE DEF D, rel
    <2> QED
      BY <1>1, <1>2, <1>4, <2>1, <2>2, ConsedSteps
  <1>8. g[n + 1] = s[n] /\ n + 1 = t[p].lev + 1
    <2> DEFINE m == n + 1
    <2>0. n \in Nat /\ n > 0
      BY <1>2
    <2>1. m \in 2 .. n + 1 /\ m - 1 = n
      BY <2>0
    <2> HIDE DEF m
    <2>2. g[m] = s[n]
      BY <1>5, <2>1
    <2> QED
      BY <1>2, <2>2 DEF m
  <1>9. \A k \in 1 .. Len(g) - 1 : Below(t, g[k], g[k + 1])
    BY <1>7
  <1>10. PathFrom(t, p, g, r)
    BY <1>2, <1>5, <1>6, <1>8, <1>9 DEF PathFrom
  <1> QED
    BY <1>3, <1>10

\* No interior node has the key r.
NoDivider(t, r) == \A p \in DOMAIN t : t[p].lev > 0 => \A j \in 1 .. Len(t[p].keys) : t[p].keys[j] # r

\* The node below p that is responsible for r is where find_leaf_for_insert
\* and search go, if r is no divider and no pointer is to be set.
IsNext(t, p, r, i) ==
  /\ i \in 1 .. Len(pages[p].cells) + 1 /\ i \in 1 .. Len(t[p].kids) /\ t[p].kids[i] \in DOMAIN t
  /\ Child(pages[p], i) = t[p].kids[i] /\ r \in t[t[p].kids[i]].rng
  /\ t[t[p].kids[i]].lev = t[p].lev - 1 /\ pages[p].kind = "interior" /\ p \in DOMAIN pages
  /\ t[p].lev \in Nat

\* The way to a rowid that is no divider goes to the child responsible for it.
LEMMA NextFor ==
  ASSUME ArePages, NEW t, NEW R, NEW head, IsTree(t, R), Hold(t, head), call.op # "split", Todo = <<>>,
         NEW p \in DOMAIN t, t[p].lev > 0, NEW r \in t[p].rng, NoDivider(t, r)
  PROVE  IsNext(t, p, r, Place(pages[p].cells, r))
  <1>1. Inner(t, p)
    BY InnerPage
  <1>2. PICK i : i = Place(pages[p].cells, r)
    OBVIOUS
  <1>3. i \in 1 .. Len(pages[p].cells) + 1
        /\ (~(i <= Len(pages[p].cells) /\ t[p].keys[i] = r) => r \in Slice(t[p].rng, t[p].keys, i))
    BY <1>1, <1>2, SliceFor DEF Inner
  <1>4. ~(i <= Len(pages[p].cells) /\ t[p].keys[i] = r)
    <2> SUFFICES ASSUME i <= Len(pages[p].cells), t[p].keys[i] = r PROVE FALSE
      OBVIOUS
    <2>1. i \in 1 .. Len(t[p].keys)
      BY <1>1, <1>3 DEF Inner, KeysAre
    <2> QED
      BY <2>1 DEF NoDivider
  <1>6. t[p].lev \in Nat
    BY <1>1 DEF Inner, IsNodeData
  <1>5. ~Waits(t[p], Todo, i)
    <2>1. Len(Todo) = 0
      OBVIOUS
    <2> QED
      BY <1>6, <2>1 DEF Waits
  <1>7. IsNext(t, p, r, i)
    BY <1>1, <1>3, <1>4, <1>5, <1>6 DEF Inner, IsNext
  <1> QED
    BY <1>2, <1>7

\* The path of an insertion leads from the root to the leaf responsible for the rowid.
LEMMA PathIs ==
  ASSUME ArePages, NEW t, NEW R, NEW head, IsTree(t, R), Hold(t, head), call.op # "split", Todo = <<>>,
         NEW r \in Nat, NoDivider(t, r)
  PROVE  /\ IsPath(t, PathTo(r)) /\ Last(PathTo(r)) \in DOMAIN t
         /\ r \in t[Last(PathTo(r))].rng /\ t[Last(PathTo(r))].lev = 0
  <1>1. Leads(t) /\ DOMAIN t \subseteq DOMAIN pages
    BY TreeLeads
  <1>2. PICK f : GoesTo(r, f) /\ PathTo(r) = f[Root]
    BY <1>1, PathDescent
  <1> DEFINE S == {p \in DOMAIN t : r \in t[p].rng => PathFrom(t, p, f[p], r)}
  <1>3. ASSUME NEW p \in DOMAIN t, t[p].lev > 0 => \A i \in 1 .. Len(t[p].kids) : t[p].kids[i] \in S
        PROVE  p \in S
    <2>1. SUFFICES ASSUME r \in t[p].rng PROVE PathFrom(t, p, f[p], r)
      OBVIOUS
    <2>2. OfTree(t, R, head, p)
      BY TreePage
    <2>3. p \in DOMAIN pages /\ t[p].lev \in Nat /\ pages[p].kind = IF t[p].lev = 0 THEN "leaf" ELSE "interior"
      BY <2>2 DEF OfTree, Shows
    <2>4. CASE t[p].lev = 0
      <3>1. f[p] = <<p>>
        <4>1. pages[p].kind # "interior"
          BY <2>3, <2>4
        <4> QED
          BY <1>2, <2>3, <4>1 DEF GoesTo
      <3> DEFINE g == <<p>>
      <3>2. g \in Seq(DOMAIN t) /\ Len(g) = 1 /\ g[1] = p
        OBVIOUS
      <3> HIDE DEF g
      <3>3. PathFrom(t, p, g, r)
        BY <2>1, <2>4, <3>2 DEF PathFrom
      <3> QED
        BY <3>1, <3>3 DEF g
    <2>5. CASE t[p].lev > 0
      <3>1. PICK i : i = Place(pages[p].cells, r)
        OBVIOUS
      <3>2. IsNext(t, p, r, i)
        BY <2>1, <2>5, <3>1, NextFor
      <3> DEFINE c == t[p].kids[i]
      <3>3. c \in S /\ Below(t, p, c)
        BY <1>3, <2>5, <3>2 DEF IsNext, Below
      <3>4. PathFrom(t, c, f[c], r) /\ c \in DOMAIN t /\ t[c].lev = t[p].lev - 1
        BY <3>2, <3>3 DEF IsNext
      <3>5. f[p] = <<p>> \o f[c]
        BY <1>2, <2>3, <2>5, <3>1, <3>2 DEF GoesTo, IsNext
      <3> HIDE DEF c
      <3>6. t[c].lev \in Nat
        BY <2>3, <2>5, <3>4
      <3> QED
        BY <2>3, <3>3, <3>4, <3>5, <3>6, LongerPath
    <2> QED
      BY <2>3, <2>4, <2>5
  <1>4. \A p \in DOMAIN t : p \in S
    <2> HIDE DEF S
    <2> QED
      BY <1>3, TreeInduction
  <1>5. Root \in DOMAIN t /\ r \in t[Root].rng /\ t[Root].lev \in Nat
    BY DEF IsTree, IsNode, IsNodeData
  <1>6. PathFrom(t, Root, f[Root], r)
    BY <1>4, <1>5
  <1>7. PICK path : path = f[Root] /\ path = PathTo(r)
    BY <1>2
  <1>8. PathFrom(t, Root, path, r)
    BY <1>6, <1>7
  <1>9. PICK n : n = Len(path)
    OBVIOUS
  <1>10. /\ path \in Seq(DOMAIN t) /\ n = t[Root].lev + 1 /\ path[1] = Root /\ n \in Nat /\ n > 0
         /\ (\A k \in 1 .. n : t[path[k]].lev = t[Root].lev + 1 - k)
         /\ (\A k \in 1 .. n - 1 : Below(t, path[k], path[k + 1])) /\ r \in t[path[n]].rng
    BY <1>5, <1>8, <1>9 DEF PathFrom
  <1>11. Last(path) = path[n] /\ n \in 1 .. n /\ path[n] \in DOMAIN t
    <2>1. Last(path) = path[n] /\ n \in 1 .. n
      BY <1>9, <1>10 DEF Last
    <2> DEFINE D == DOMAIN t
    <2>2. path \in Seq(D)
      BY <1>10
    <2> HIDE DEF D
    <2>3. path[n] \in D
      BY <1>9, <2>1, <2>2
    <2> QED
      BY <2>1, <2>3 DEF D
  <1>12. t[path[n]].lev = 0
    <2>1. t[path[n]].lev = t[Root].lev + 1 - n
      BY <1>10, <1>11
    <2> QED
      BY <1>5, <1>10, <2>1
  <1>13. \A k \in 1 .. n : t[path[k]].lev + k = t[Root].lev + 1
    <2> SUFFICES ASSUME NEW k \in 1 .. n PROVE t[path[k]].lev + k = t[Root].lev + 1
      OBVIOUS
    <2>1. t[path[k]].lev = t[Root].lev + 1 - k
      BY <1>10
    <2> QED
      BY <1>5, <1>10, <2>1
  <1>14. IsPath(t, path)
    BY <1>9, <1>10, <1>13 DEF IsPath
  <1> QED
    BY <1>7, <1>10, <1>11, <1>12, <1>14

-----------------------------------------------------------------------------
\* An insertion that the tree can take

\* What comes to page k of the path if what comes to page k + 1 is cell.
Comes(path, r, k, cell) ==
  IF k = Len(path) THEN NewCell(r)
  ELSE [key |-> DividerOf(path[k + 1], cell), page |-> path[k + 1]]

HasComings(path, r) == \E arr : arr = [k \in 1 .. Len(path) |-> Comes(path, r, k, arr[k + 1])]

\* The cells that come up the path of an insertion are defined from the leaf up.
LEMMA Comings ==
  ASSUME NEW path, NEW r, Len(path) \in Nat
  PROVE  HasComings(path, r)
  <1>1. PICK n \in Nat : n = Len(path)
    OBVIOUS
  <1> DEFINE Upto(m, f) ==
               f = [k \in 1 .. n |-> f[k]] /\ \A k \in 1 .. n : k + m > n => f[k] = Comes(path, r, k, f[k + 1])
             S == {m \in Nat : \E f : Upto(m, f)}
  <1>2. 0 \in S
    <2> DEFINE f == [k \in 1 .. n |-> 0]
    <2>1. f = [k \in 1 .. n |-> f[k]] /\ \A k \in 1 .. n : ~(k + 0 > n)
      OBVIOUS
    <2> HIDE DEF f
    <2>2. Upto(0, f)
      BY <2>1
    <2> QED
      BY <2>2
  <1>3. ASSUME NEW m \in Nat, m \in S
        PROVE  m + 1 \in S
    <2>1. PICK f : Upto(m, f)
      BY <1>3
    <2> DEFINE g == [k \in 1 .. n |-> IF k + m > n THEN f[k] ELSE Comes(path, r, k, f[k + 1])]
    <2>2. ASSUME NEW k \in 1 .. n, k + (m + 1) > n
          PROVE  g[k] = Comes(path, r, k, g[k + 1])
      <3> DEFINE h == k + 1
      <3>1. h + m > n /\ (k # n => h \in 1 .. n)
        BY <2>2
      <3>2. g[k] = Comes(path, r, k, f[h])
        BY <2>1
      <3> HIDE DEF h
      <3>3. k # n => g[h] = f[h]
        BY <3>1
      <3>4. k = n => Comes(path, r, k, f[h]) = Comes(path, r, k, g[h])
        BY <1>1 DEF Comes
      <3> QED
        BY <3>2, <3>3, <3>4 DEF h
    <2>3. Upto(m + 1, g)
      <3>1. g = [k \in 1 .. n |-> g[k]]
        OBVIOUS
      <3> HIDE DEF g
      <3> QED
        BY <2>2, <3>1
    <2> HIDE DEF g
    <2>4. \E f2 : Upto(m + 1, f2)
      BY <2>3
    <2> HIDE DEF Upto
    <2> QED
      BY <2>4
  <1>4. n \in S
    <2> HIDE DEF S
    <2> QED
      BY <1>2, <1>3, Induction
  <1>5. PICK f : Upto(n, f)
    BY <1>4
  <1>6. ASSUME NEW k \in 1 .. n
        PROVE  f[k] = Comes(path, r, k, f[k + 1])
    <2>1. k + n > n
      OBVIOUS
    <2> QED
      BY <1>5, <2>1
  <1>7. f = [k \in 1 .. Len(path) |-> Comes(path, r, k, f[k + 1])]
    <2>1. f = [k \in 1 .. n |-> f[k]]
      BY <1>5
    <2> QED
      BY <1>1, <1>6, <2>1
  <1> QED
    BY <1>7 DEF HasComings

\* Down the path the pages that are full split into halves, and none gives up
\* the divider that has come up to it.
LEMMA SoundArrives ==
  ASSUME NEW r, SoundInsert(r), Len(PathTo(r)) \in Nat, Len(PathTo(r)) > 0, NEW path, path = PathTo(r),
         NEW n, n = Len(path)
  PROVE  /\ r \notin Dividers /\ (~Fits(path[n], NewCell(r)) => HalvesFit(path[n], NewCell(r)))
         /\ \E arr : /\ DOMAIN arr = 1 .. n /\ arr[n] = NewCell(r)
                     /\ \A k \in 1 .. n - 1 :
                          arr[k] = [key |-> DividerOf(path[k + 1], arr[k + 1]), page |-> path[k + 1]]
                     /\ \A k \in 1 .. n - 1 : (\A j \in k .. n : ~Fits(path[j], arr[j])) =>
                          DividerOf(path[k], arr[k]) # arr[k].key
  <1> DEFINE P == PathTo(r)
             N == Len(P)
             Def(arr) == [k \in 1 .. N |->
                            IF k = N THEN NewCell(r)
                            ELSE LET pg == pages[P[k + 1]]
                                 IN  [key |-> Plan(pg, WithCell(pg.cells, arr[k + 1])).divider, page |-> P[k + 1]]]
             arriving == CHOOSE arr : arr = Def(arr)
             splits(k) == \A j \in k .. N : ~Fits(P[j], arriving[j])
             own(k) == Plan(pages[P[k]], WithCell(pages[P[k]].cells, arriving[k])).divider
  <1>1. /\ r \notin Dividers /\ (splits(N) => HalvesFit(P[N], NewCell(r)))
        /\ \A k \in 1 .. N - 1 : splits(k) => own(k) # arriving[k].key
    BY DEF SoundInsert
  <1>2. \E arr : arr = Def(arr)
    <2>1. \E arr : arr = [k \in 1 .. Len(P) |-> Comes(P, r, k, arr[k + 1])]
      <3>1. HasComings(P, r)
        BY Comings
      <3> QED
        BY <3>1 DEF HasComings
    <2>2. PICK arr : arr = [k \in 1 .. Len(P) |-> Comes(P, r, k, arr[k + 1])]
      BY <2>1
    <2>3. arr = Def(arr)
      BY <2>2 DEF Comes, DividerOf
    <2> QED
      BY <2>3
  <1>3. arriving = Def(arriving)
    <2> HIDE DEF Def
    <2> QED
      BY <1>2
  <1> HIDE DEF arriving
  <1>4. /\ DOMAIN arriving = 1 .. n /\ arriving[n] = NewCell(r)
        /\ \A k \in 1 .. n - 1 :
             arriving[k] = [key |-> DividerOf(path[k + 1], arriving[k + 1]), page |-> path[k + 1]]
    <2>1. DOMAIN arriving = 1 .. n /\ \A k \in 1 .. n : arriving[k] = Def(arriving)[k]
      BY <1>3
    <2>2. arriving[n] = NewCell(r)
      BY <2>1
    <2>3. ASSUME NEW k \in 1 .. n - 1
          PROVE  arriving[k] = [key |-> DividerOf(path[k + 1], arriving[k + 1]), page |-> path[k + 1]]
      <3>1. k \in 1 .. n /\ k # n
        OBVIOUS
      <3> QED
        BY <2>1, <3>1 DEF DividerOf
    <2> QED
      BY <2>1, <2>2, <2>3
  <1>5. \A k \in 1 .. n - 1 : (\A j \in k .. n : ~Fits(path[j], arriving[j])) =>
                          DividerOf(path[k], arriving[k]) # arriving[k].key
    BY <1>1 DEF DividerOf
  <1>6. ~Fits(path[n], NewCell(r)) => HalvesFit(path[n], NewCell(r))
    <2>1. \A j \in n .. n : j = n
      OBVIOUS
    <2> QED
      BY <1>1, <1>4, <2>1
  <1> QED
    BY <1>1, <1>4, <1>5, <1>6

-----------------------------------------------------------------------------
\* The pages of an insertion

\* Pages base and after them the overflow chain of row r.
ChainAdded(base, r, after) ==
  LET c == Payload[r].chain
  IN  /\ after \in Seq(PageRecords) /\ Len(after) = Len(base) + c
      /\ \A y \in 1 .. Len(base) : after[y] = base[y]
      /\ \A y \in Len(base) + 1 .. Len(base) + c :
           /\ after[y].kind = "overflow" /\ IsPage(y, after[y])
           /\ after[y].right = IF y = Len(base) + 1 THEN 0 ELSE y - 1

\* The overflow pages of a row, written after the pages there are.
LEMMA ChainIsAdded ==
  ASSUME PagesHaveRoom, NEW r \in Rowids, NEW base \in Seq(PageRecords), Len(base) = Len(pages)
  PROVE  ChainAdded(base, r, base \o Chain(r))
  <1>1. PICK c \in Nat : c = Payload[r].chain
    BY BTreeAssumption
  <1>2. PICK n \in Nat : n = Len(base)
    OBVIOUS
  <1> DEFINE ch == Chain(r)
             new(i) == [kind |-> "overflow", cells |-> <<>>, used |-> 0, right |-> IF i = 1 THEN 0 ELSE n + i - 1]
             after == base \o ch
  <1>3. ch = [i \in 1 .. c |-> new(i)]
    BY <1>1, <1>2 DEF Chain, Blank
  <1>4. \A i \in 1 .. c : new(i) \in PageRecords
    <2> SUFFICES ASSUME NEW i \in 1 .. c PROVE new(i) \in PageRecords
      OBVIOUS
    <2>1. (IF i = 1 THEN 0 ELSE n + i - 1) \in Nat
      OBVIOUS
    <2> QED
      BY <2>1 DEF PageRecords
  <1>5. ch \in Seq(PageRecords) /\ Len(ch) = c /\ \A i \in 1 .. c : ch[i] = new(i)
    <2> HIDE DEF new
    <2> QED
      BY <1>3, <1>4
  <1> HIDE DEF ch
  <1>6. /\ after \in Seq(PageRecords) /\ Len(after) = n + c
        /\ \A y \in 1 .. n : after[y] = base[y]
        /\ \A y \in n + 1 .. n + c : after[y] = ch[y - n]
    <2> HIDE DEF new
    <2> QED
      BY <1>2, <1>5
  <1> HIDE DEF after
  <1>7. ASSUME NEW y \in n + 1 .. n + c
        PROVE  /\ after[y].kind = "overflow" /\ IsPage(y, after[y])
               /\ after[y].right = IF y = n + 1 THEN 0 ELSE y - 1
    <2>1. PICK i \in 1 .. c : i = y - n
      OBVIOUS
    <2>2. after[y] = new(i)
      BY <1>5, <1>6, <2>1
    <2>3. /\ after[y].kind = "overflow" /\ after[y].cells = <<>> /\ after[y].used = 0
          /\ after[y].right = IF i = 1 THEN 0 ELSE n + i - 1
      BY <2>2
    <2>4. after[y].right = IF y = n + 1 THEN 0 ELSE y - 1
      BY <2>1, <2>3
    <2>5. after[y].right < y
      BY <2>4
    <2>6. Room(y, "overflow") \in Int /\ 0 <= Room(y, "overflow") /\ PtrSize \in Nat
      BY RoomTypes
    <2>7. Len(<<>>) = 0 /\ 0 + PtrSize * 0 = 0
      BY <2>6
    <2>8. after[y].used + PtrSize * Len(after[y].cells) <= Room(y, after[y].kind)
      BY <2>3, <2>6, <2>7
    <2> QED
      BY <2>3, <2>4, <2>5, <2>8 DEF IsPage
  <1> QED
    BY <1>1, <1>2, <1>6, <1>7 DEF ChainAdded, after, ch

-----------------------------------------------------------------------------
\* What is below a page

\* An interior page between calls: its pointers lead to the nodes below it.
IsInner(t, p) ==
  /\ p \in DOMAIN pages /\ p \in Nat /\ pages[p].kind = "interior" /\ IsNodeData(t[p])
  /\ pages[p].cells \in Seq(CellRecords) /\ KeysAre(t[p].keys, pages[p].cells)
  /\ Len(pages[p].cells) \in Nat /\ Len(pages[p].cells) > 0
  /\ Len(t[p].kids) = Len(pages[p].cells) + 1
  /\ \A i \in 1 .. Len(pages[p].cells) + 1 :
       /\ Child(pages[p], i) \in DOMAIN t /\ Child(pages[p], i) = t[p].kids[i]
       /\ t[Child(pages[p], i)].lev = t[p].lev - 1
       /\ t[Child(pages[p], i)].rng = Slice(t[p].rng, t[p].keys, i)

\* A leaf between calls.
IsLeaf(t, R, head, p) ==
  /\ p \in DOMAIN pages /\ p \in Nat /\ pages[p].kind = "leaf" /\ IsNodeData(t[p])
  /\ pages[p].cells \in Seq(CellRecords) /\ KeysAre(t[p].keys, pages[p].cells)
  /\ Len(pages[p].cells) \in Nat /\ HeadsAre(pages[p].cells, head) /\ HasRows(t[p], R)
  /\ p # Root => Len(pages[p].cells) > 0

Settled(t, R, head) ==
  \A p \in DOMAIN t : (t[p].lev > 0 => IsInner(t, p)) /\ (t[p].lev = 0 => IsLeaf(t, R, head, p))

\* Between calls no pointer waits to be set.
LEMMA IsSettled ==
  ASSUME ArePages, NEW t, NEW R, NEW head, IsTree(t, R), Hold(t, head), call.op # "split", Todo = <<>>
  PROVE  Settled(t, R, head)
  <1> SUFFICES ASSUME NEW p \in DOMAIN t
               PROVE  (t[p].lev > 0 => IsInner(t, p)) /\ (t[p].lev = 0 => IsLeaf(t, R, head, p))
    BY DEF Settled
  <1>1. OfTree(t, R, head, p) /\ Held(p) = pages[p].cells
    BY TreePage DEF Held
  <1>2. ASSUME t[p].lev > 0
        PROVE  IsInner(t, p)
    <2>1. Inner(t, p)
      BY <1>2, InnerPage
    <2>2. Len(Todo) = 0
      OBVIOUS
    <2>3. \A i : ~Waits(t[p], Todo, i)
      BY <1>2, <2>2, <1>1 DEF Waits, OfTree
    <2>4. ASSUME NEW i \in 1 .. Len(pages[p].cells) + 1
          PROVE  /\ Child(pages[p], i) \in DOMAIN t /\ Child(pages[p], i) = t[p].kids[i]
                 /\ t[Child(pages[p], i)].lev = t[p].lev - 1
                 /\ t[Child(pages[p], i)].rng = Slice(t[p].rng, t[p].keys, i)
      <3>1. Child(pages[p], i) = t[p].kids[i]
        BY <2>1, <2>3 DEF Inner
      <3> QED
        BY <2>1, <3>1 DEF Inner
    <2> QED
      BY <1>1, <2>1, <2>4 DEF IsInner, Inner, OfTree
  <1>3. ASSUME t[p].lev = 0
        PROVE  IsLeaf(t, R, head, p)
    <2>1. Shows(t[p], pages[p].kind, pages[p].cells, pages[p].right, Todo, head)
      BY <1>1 DEF OfTree
    <2>2. p # Root => Len(pages[p].cells) > 0
      BY <1>1, <1>3 DEF Hold, Holds, OfTree
    <2>3. Len(pages[p].cells) \in Nat
      BY <1>1 DEF OfTree
    <2> QED
      BY <1>1, <1>3, <2>1, <2>2, <2>3 DEF IsLeaf, OfTree, Shows, IsNode
  <1> QED
    BY <1>2, <1>3

\* What a recursion over all children answers: base at a page that is not
\* interior, and else join of the page and what it answers for the children.
Under(f, p) == [i \in 1 .. Len(pages[p].cells) + 1 |-> f[Child(pages[p], i)]]

Gathering(base, join, f) ==
  [p \in DOMAIN pages |->
     IF pages[p].kind # "interior" THEN base[p] ELSE join[<<p, Under(f, p)>>]]

IsGathering(t, V, base, join) ==
  /\ V # {} /\ \A p \in DOMAIN t : base[p] \in V
  /\ \A p \in DOMAIN t : \A s \in [1 .. Len(pages[p].cells) + 1 -> V] : join[<<p, s>>] \in V

Gathered(t, V, base, join) ==
  \E f : f = Gathering(base, join, f) /\ \A p \in DOMAIN t : f[p] \in V

\* A function that gathers what is below a page has its recursive equation.
LEMMA Gathers ==
  ASSUME NEW t, NEW R, IsTree(t, R), Leads(t), DOMAIN t \subseteq DOMAIN pages,
         NEW V, NEW base, NEW join, IsGathering(t, V, base, join)
  PROVE  Gathered(t, V, base, join)
  <1> DEFINE D == DOMAIN pages
             W == V \cup {base[p] : p \in D}
             N(p) == 1 .. Len(pages[p].cells) + 1
             rank == Depth(t)
             Some(p, s, v) == IF s \in [N(p) -> V] THEN join[<<p, s>>] ELSE v
  <1>1. PICK v \in V : TRUE
    BY DEF IsGathering
  <1> DEFINE body == [pf \in D \X [D -> W] |->
                        IF pages[pf[1]].kind # "interior" THEN base[pf[1]]
                        ELSE Some(pf[1], Under(pf[2], pf[1]), v)]
  <1>2. ASSUME NEW p \in D, pages[p].kind = "interior", NEW i \in N(p)
        PROVE  /\ p \in DOMAIN t /\ Child(pages[p], i) \in DOMAIN t /\ Child(pages[p], i) \in D
               /\ t[p].lev \in Nat /\ t[Child(pages[p], i)].lev = t[p].lev - 1
               /\ rank[Child(pages[p], i)] < rank[p]
    <2>1. i \in Nat \ {0}
      OBVIOUS
    <2>2. p \in DOMAIN t /\ Child(pages[p], i) \in DOMAIN t /\ t[Child(pages[p], i)].lev = t[p].lev - 1
      BY <1>2, <2>1 DEF Leads
    <2>3. t[p].lev \in Nat
      BY <2>2 DEF IsTree, IsNode, IsNodeData
    <2> QED
      BY <2>2, <2>3 DEF Depth
  <1>3. body \in [D \X [D -> W] -> W]
    <2> SUFFICES ASSUME NEW p \in D, NEW f \in [D -> W]
                 PROVE  (IF pages[p].kind # "interior" THEN base[p] ELSE Some(p, Under(f, p), v)) \in W
      OBVIOUS
    <2>1. CASE pages[p].kind # "interior"
      BY <2>1
    <2>2. CASE pages[p].kind = "interior"
      <3>1. p \in DOMAIN t
        BY <2>2 DEF Leads
      <3> QED
        BY <2>2, <3>1 DEF IsGathering
    <2> QED
      BY <2>1, <2>2
  <1>4. ASSUME NEW p \in D, NEW f \in [D -> W], NEW g \in [D -> W],
               \A q \in D : rank[q] < rank[p] => f[q] = g[q]
        PROVE  body[<<p, f>>] = body[<<p, g>>]
    <2>1. pages[p].kind = "interior" => Under(f, p) = Under(g, p)
      <3> SUFFICES ASSUME pages[p].kind = "interior" PROVE Under(f, p) = Under(g, p)
        OBVIOUS
      <3>1. \A i \in N(p) : f[Child(pages[p], i)] = g[Child(pages[p], i)]
        BY <1>2, <1>4
      <3> QED
        BY <3>1 DEF Under
    <2> HIDE DEF W, Some
    <2> QED
      BY <2>1
  <1>5. LooksBelow(D, W, rank, body)
    <2> HIDE DEF body, rank, D, W
    <2> QED
      BY <1>3, <1>4 DEF LooksBelow
  <1>6. Ranked(D, rank, t[Root].lev + 1)
    BY DepthIsRank
  <1>7. W # {}
    BY <1>1
  <1>8. Defined(D, W, body)
    <2> HIDE DEF body, rank, D, W
    <2> QED
      BY <1>5, <1>6, <1>7, RecursiveFunction
  <1>9. PICK f \in [D -> W] : \A p \in D : f[p] = body[<<p, f>>]
    BY <1>8 DEF Defined
  <1>10. ASSUME NEW p \in D
         PROVE  f[p] = IF pages[p].kind # "interior" THEN base[p] ELSE Some(p, Under(f, p), v)
    <2> HIDE DEF W, Some
    <2> QED
      BY <1>9
  <1> HIDE DEF body
  <1> DEFINE done == {n \in Nat : \A p \in DOMAIN t : t[p].lev < n => f[p] \in V}
  <1>11. \A p \in DOMAIN t : t[p].lev \in Nat
    BY DEF IsTree, IsNode, IsNodeData
  <1>12. 0 \in done
    BY <1>11
  <1>13. ASSUME NEW n \in Nat, n \in done
         PROVE  n + 1 \in done
    <2> SUFFICES ASSUME NEW p \in DOMAIN t, t[p].lev < n + 1
                 PROVE  f[p] \in V
      OBVIOUS
    <2>1. CASE pages[p].kind # "interior"
      BY <1>10, <2>1 DEF IsGathering
    <2>2. CASE pages[p].kind = "interior"
      <3> DEFINE s == Under(f, p)
      <3>1. f[p] = Some(p, s, v)
        BY <1>10, <2>2
      <3> QED
        BY <1>1, <3>1 DEF IsGathering
    <2> QED
      BY <2>1, <2>2
  <1>14. \A n \in Nat : n \in done
    <2> HIDE DEF done
    <2> QED
      BY <1>12, <1>13, Induction
  <1>15. ASSUME NEW p \in DOMAIN t
         PROVE  f[p] \in V
    <2>1. t[p].lev + 1 \in done /\ t[p].lev < t[p].lev + 1
      BY <1>11, <1>14
    <2> QED
      BY <2>1
  <1>16. ASSUME NEW p \in D, pages[p].kind = "interior"
         PROVE  Some(p, Under(f, p), v) = join[<<p, Under(f, p)>>]
    <2>1. \A i \in N(p) : f[Child(pages[p], i)] \in V
      BY <1>2, <1>15, <1>16
    <2>2. Under(f, p) \in [N(p) -> V]
      BY <2>1 DEF Under
    <2> QED
      BY <2>2
  <1>17. \A p \in D : f[p] = IF pages[p].kind # "interior" THEN base[p] ELSE join[<<p, Under(f, p)>>]
    <2> HIDE DEF Some, W
    <2> QED
      BY <1>10, <1>16
  <1>18. f = Gathering(base, join, f)
    <2>1. f = [p \in D |-> f[p]]
      OBVIOUS
    <2>2. [p \in D |-> f[p]] = Gathering(base, join, f)
      BY <1>17 DEF Gathering
    <2> QED
      BY <2>1, <2>2
  <1> QED
    BY <1>15, <1>18 DEF Gathered

-----------------------------------------------------------------------------
\* The recursions of the properties

\* What the children of an interior page are given.
LEMMA UnderTypes ==
  ASSUME NEW t, Leads(t), NEW V, NEW f, \A q \in DOMAIN t : f[q] \in V,
         NEW p \in DOMAIN pages, pages[p].kind = "interior", Len(pages[p].cells) \in Nat
  PROVE  Under(f, p) \in Seq(V) /\ Len(Under(f, p)) = Len(pages[p].cells) + 1
  <1> DEFINE n == Len(pages[p].cells) + 1
  <1>1. \A i \in 1 .. n : f[Child(pages[p], i)] \in V
    <2> SUFFICES ASSUME NEW i \in 1 .. n PROVE f[Child(pages[p], i)] \in V
      OBVIOUS
    <2>1. i \in Nat \ {0}
      OBVIOUS
    <2> QED
      BY <2>1 DEF Leads
  <1>2. n \in Nat
    OBVIOUS
  <1>3. Under(f, p) = [i \in 1 .. n |-> f[Child(pages[p], i)]]
    BY DEF Under
  <1> HIDE DEF n
  <1> QED
    BY <1>1, <1>2, <1>3 DEF n

KeysGather ==
  \A p \in DOMAIN pages :
    /\ pages[p].kind # "interior" => KeysBelow[p] = [i \in DOMAIN pages[p].cells |-> pages[p].cells[i].key]
    /\ pages[p].kind = "interior" => KeysBelow[p] = FlattenSeq(Under(KeysBelow, p))

KeysGathering(down) ==
  [p \in DOMAIN pages |->
     LET pg == pages[p]
     IN  IF pg.kind # "interior" THEN [i \in DOMAIN pg.cells |-> pg.cells[i].key]
         ELSE FlattenSeq([i \in 1 .. Len(pg.cells) + 1 |-> down[Child(pg, i)]])]

\* The keys below a page are those below its children.
LEMMA KeysAreBelow ==
  ASSUME ArePages, NEW t, NEW R, IsTree(t, R), Leads(t), DOMAIN t \subseteq DOMAIN pages
  PROVE  KeysGather
  <1> DEFINE V == Seq(Nat)
             base == [p \in DOMAIN pages |-> [i \in DOMAIN pages[p].cells |-> pages[p].cells[i].key]]
             K == Seq(V)
             D == DOMAIN pages
             join == [ps \in D \X K |-> FlattenSeq(ps[2])]
  <1>1. V # {}
    BY EmptySeq
  <1>2. ASSUME NEW p \in DOMAIN pages
        PROVE  /\ base[p] \in V /\ Len(pages[p].cells) \in Nat
               /\ \A s \in [1 .. Len(pages[p].cells) + 1 -> V] : s \in Seq(V)
    <2>1. pages[p].cells \in Seq(CellRecords) /\ Len(pages[p].cells) \in Nat
      BY PageTypes
    <2>2. \A i \in DOMAIN pages[p].cells : pages[p].cells[i].key \in Nat
      BY <2>1, CellTypes
    <2>3. base[p] \in V
      BY <2>1, <2>2
    <2>4. \A s \in [1 .. Len(pages[p].cells) + 1 -> V] : s \in Seq(V)
      <3> HIDE DEF V
      <3> QED
        BY <2>1
    <2> QED
      BY <2>1, <2>3, <2>4
  <1>3. \A s \in Seq(V) : FlattenSeq(s) \in V
    BY Flattened DEF IsFlat
  <1>4. IsGathering(t, V, base, join)
    <2>1. ASSUME NEW p \in DOMAIN t, NEW s \in [1 .. Len(pages[p].cells) + 1 -> V]
          PROVE  join[<<p, s>>] \in V
      <3>1. p \in D /\ s \in K
        BY <1>2
      <3>2. join[<<p, s>>] = FlattenSeq(s)
        <4> HIDE DEF V, K, D
        <4> QED
          BY <3>1
      <3> HIDE DEF V, join
      <3> QED
        BY <1>3, <3>1, <3>2
    <2>2. \A p \in DOMAIN t : base[p] \in V
      <3> HIDE DEF V, base
      <3> QED
        BY <1>2
    <2> HIDE DEF V, base, join
    <2> QED
      BY <1>1, <2>1, <2>2 DEF IsGathering
  <1>5. PICK f : f = Gathering(base, join, f) /\ \A p \in DOMAIN t : f[p] \in V
    <2> HIDE DEF V, base, join
    <2> QED
      BY <1>4, Gathers DEF Gathered
  <1>6. f = KeysGathering(f)
    <2>1. ASSUME NEW p \in DOMAIN pages, pages[p].kind = "interior"
          PROVE  join[<<p, Under(f, p)>>] = FlattenSeq(Under(f, p))
      <3> DEFINE u == Under(f, p)
      <3>1. u \in K
        <4> HIDE DEF V
        <4> QED
          BY <1>2, <1>5, <2>1, UnderTypes
      <3>2. p \in D
        OBVIOUS
      <3> HIDE DEF V, K, D, u
      <3>3. join[<<p, u>>] = FlattenSeq(u)
        BY <3>1, <3>2
      <3> HIDE DEF join
      <3> QED
        BY <3>3 DEF u
    <2> HIDE DEF join, V
    <2> QED
      BY <1>5, <2>1 DEF Gathering, KeysGathering, Under
  <1>7. KeysBelow = KeysGathering(KeysBelow)
    <2>1. KeysBelow = CHOOSE g : g = KeysGathering(g)
      BY DEF KeysBelow, KeysGathering
    <2>2. \E g : g = KeysGathering(g)
      BY <1>6
    <2> HIDE DEF V, join, base
    <2> QED
      BY <2>1, <2>2
  <1> QED
    BY <1>7 DEF KeysGathering, KeysGather, Under

DepthsGather ==
  \A p \in DOMAIN pages :
    /\ pages[p].kind # "interior" => Depths[p] = {1}
    /\ pages[p].kind = "interior" =>
         Depths[p] = {d + 1 : d \in UNION {Depths[Child(pages[p], i)] : i \in 1 .. Len(pages[p].cells) + 1}}

DepthsGathering(down) ==
  [p \in DOMAIN pages |->
     LET pg == pages[p]
     IN  IF pg.kind # "interior" THEN {1}
         ELSE {d + 1 : d \in UNION {down[Child(pg, i)] : i \in 1 .. Len(pg.cells) + 1}}]

\* The depths below a page are one more than those below its children.
LEMMA DepthsAreBelow ==
  ASSUME ArePages, NEW t, NEW R, IsTree(t, R), Leads(t), DOMAIN t \subseteq DOMAIN pages
  PROVE  DepthsGather
  <1> DEFINE V == SUBSET Nat
             base == [p \in DOMAIN pages |-> {1}]
             More(s) == {d + 1 : d \in UNION {s[i] : i \in DOMAIN s}}
             K == Seq(V)
             D == DOMAIN pages
             join == [ps \in D \X K |-> More(ps[2])]
  <1>1. V # {}
    OBVIOUS
  <1>2. ASSUME NEW p \in DOMAIN pages
        PROVE  /\ base[p] \in V /\ Len(pages[p].cells) \in Nat
               /\ \A s \in [1 .. Len(pages[p].cells) + 1 -> V] : s \in Seq(V)
    <2>1. Len(pages[p].cells) \in Nat
      BY PageTypes
    <2>3. base[p] \in V
      OBVIOUS
    <2>4. \A s \in [1 .. Len(pages[p].cells) + 1 -> V] : s \in Seq(V)
      <3> HIDE DEF V
      <3> QED
        BY <2>1
    <2> QED
      BY <2>1, <2>3, <2>4
  <1>3. \A s \in Seq(V) : More(s) \in V
    <2> SUFFICES ASSUME NEW s \in Seq(V), NEW i \in DOMAIN s, NEW d \in s[i] PROVE d + 1 \in Nat
      OBVIOUS
    <2>1. s[i] \in V
      <3> HIDE DEF V
      <3> QED
        OBVIOUS
    <2> QED
      BY <2>1
  <1>4. IsGathering(t, V, base, join)
    <2>1. ASSUME NEW p \in DOMAIN t, NEW s \in [1 .. Len(pages[p].cells) + 1 -> V]
          PROVE  join[<<p, s>>] \in V
      <3>1. p \in D /\ s \in K
        BY <1>2
      <3>2. join[<<p, s>>] = More(s)
        <4> HIDE DEF V, K, D, More
        <4> QED
          BY <3>1
      <3> HIDE DEF V, join, More
      <3> QED
        BY <1>3, <3>1, <3>2
    <2>2. \A p \in DOMAIN t : base[p] \in V
      <3> HIDE DEF V, base
      <3> QED
        BY <1>2
    <2> HIDE DEF V, base, join
    <2> QED
      BY <1>1, <2>1, <2>2 DEF IsGathering
  <1>5. PICK f : f = Gathering(base, join, f) /\ \A p \in DOMAIN t : f[p] \in V
    <2> HIDE DEF V, base, join
    <2> QED
      BY <1>4, Gathers DEF Gathered
  <1>6. f = DepthsGathering(f)
    <2>1. ASSUME NEW p \in DOMAIN pages, pages[p].kind = "interior"
          PROVE  join[<<p, Under(f, p)>>] = {d + 1 : d \in UNION {f[Child(pages[p], i)] : i \in 1 .. Len(pages[p].cells) + 1}}
      <3> DEFINE u == Under(f, p)
      <3>1. u \in K
        <4> HIDE DEF V
        <4> QED
          BY <1>2, <1>5, <2>1, UnderTypes
      <3>2. join[<<p, u>>] = More(u)
        <4>1. p \in D
          OBVIOUS
        <4> HIDE DEF V, K, D, u, More
        <4> QED
          BY <3>1, <4>1
      <3>3. UNION {u[i] : i \in DOMAIN u} = UNION {f[Child(pages[p], i)] : i \in 1 .. Len(pages[p].cells) + 1}
        BY DEF Under
      <3> HIDE DEF join
      <3> QED
        BY <3>2, <3>3
    <2> HIDE DEF join, V
    <2> QED
      BY <1>5, <2>1 DEF Gathering, DepthsGathering
  <1>7. Depths = DepthsGathering(Depths)
    <2>1. Depths = CHOOSE g : g = DepthsGathering(g)
      BY DEF Depths, DepthsGathering
    <2>2. \E g : g = DepthsGathering(g)
      BY <1>6
    <2> HIDE DEF V, join, base
    <2> QED
      BY <2>1, <2>2
  <1> QED
    BY <1>7 DEF DepthsGathering, DepthsGather

-----------------------------------------------------------------------------
\* Overflow chains

ChainGathers ==
  \A p \in 0 .. Len(pages) : ChainFrom[p] = IF p = 0 THEN <<>> ELSE <<p>> \o ChainFrom[pages[p].right]

ChainGathering(from) ==
  [p \in 0 .. Len(pages) |-> IF p = 0 THEN <<>> ELSE <<p>> \o from[pages[p].right]]

\* Where the pointer of a page leads, levels come down and overflow pages too.
ChainRank(t) ==
  [p \in 0 .. Len(pages) |->
     IF p = 0 THEN 0
     ELSE IF pages[p].kind = "overflow" THEN t[Root].lev + 2 + p ELSE Depth(t)[p] + 1]

\* The pages are ranked so that recursion over children and chains ends.
LEMMA ChainRanks ==
  ASSUME ArePages, NEW t, NEW R, IsTree(t, R), Leads(t), DOMAIN t = InTree
  PROVE  /\ Ranked(0 .. Len(pages), ChainRank(t), t[Root].lev + 3 + Len(pages))
         /\ \A p \in 1 .. Len(pages) :
              pages[p].right \in 0 .. Len(pages) /\ ChainRank(t)[pages[p].right] < ChainRank(t)[p]
  <1>1. PICK n \in Nat : n = Len(pages)
    BY DEF ArePages
  <1>2. DOMAIN pages = 1 .. n
    BY <1>1 DEF ArePages
  <1>3. PICK top \in Nat : top = t[Root].lev
    BY DEF IsTree, IsNode, IsNodeData
  <1>4. PICK d : d = Depth(t)
    OBVIOUS
  <1>5. \A p \in 1 .. n : d[p] \in Nat /\ d[p] <= top
    <2>1. Ranked(DOMAIN pages, d, top + 1)
      BY <1>3, <1>4, DepthIsRank
    <2> QED
      BY <1>2, <2>1 DEF Ranked
  <1> DEFINE rank == ChainRank(t)
  <1>6. /\ rank[0] = 0 /\ DOMAIN rank = 0 .. n
        /\ \A p \in 1 .. n : rank[p] = IF pages[p].kind = "overflow" THEN top + 2 + p ELSE d[p] + 1
    BY <1>1, <1>3, <1>4 DEF ChainRank
  <1>7. rank = [p \in 0 .. n |-> rank[p]]
    BY <1>1 DEF ChainRank
  <1> HIDE DEF rank
  <1>8. \A p \in 0 .. n : rank[p] \in Nat /\ rank[p] < top + 3 + n
    BY <1>5, <1>6
  <1>9. rank \in [0 .. n -> Nat] /\ top + 3 + n \in Nat
    BY <1>7, <1>8
  <1>10. Ranked(0 .. n, rank, top + 3 + n)
    BY <1>8, <1>9 DEF Ranked
  <1>11. ASSUME NEW p \in 1 .. n
         PROVE  pages[p].right \in 0 .. n /\ rank[pages[p].right] < rank[p]
    <2>1. /\ pages[p] \in PageRecords /\ IsPage(p, pages[p]) /\ pages[p].right \in Nat
          /\ pages[p].kind \in {"leaf", "interior", "overflow"} /\ Len(pages[p].cells) \in Nat
      BY <1>2, PageTypes DEF PageRecords
    <2>2. CASE pages[p].kind = "leaf"
      <3>1. pages[p].right = 0
        BY <2>1, <2>2 DEF IsPage
      <3>2. rank[p] = d[p] + 1
        BY <1>6, <2>2
      <3> QED
        BY <1>5, <1>6, <3>1, <3>2
    <2>3. CASE pages[p].kind = "overflow"
      <3>1. pages[p].right < p
        BY <2>1, <2>3 DEF IsPage
      <3>2. rank[p] = top + 2 + p
        BY <1>6, <2>3
      <3>3. PICK q \in 0 .. n : q = pages[p].right /\ q < p
        BY <2>1, <3>1
      <3>4. rank[q] < top + 2 + p
        <4>1. CASE q = 0
          BY <1>6, <4>1
        <4>2. CASE q \in 1 .. n
          <5>1. d[q] \in Nat /\ d[q] <= top
            BY <1>5, <4>2
          <5>2. rank[q] = top + 2 + q \/ rank[q] = d[q] + 1
            BY <1>6, <4>2
          <5> QED
            BY <3>3, <5>1, <5>2
        <4> QED
          BY <3>3, <4>1, <4>2
      <3> QED
        BY <3>2, <3>3, <3>4
    <2>4. CASE pages[p].kind = "interior"
      <3>1. PICK m \in Nat : m = Len(pages[p].cells) + 1
        BY <2>1
      <3>2. Child(pages[p], m) = pages[p].right /\ m \in Nat \ {0}
        BY <2>1, <3>1 DEF Child
      <3>3. PICK q : q = pages[p].right
        OBVIOUS
      <3>4. p \in DOMAIN t /\ q \in DOMAIN t /\ t[q].lev = t[p].lev - 1
        BY <1>2, <2>4, <3>2, <3>3 DEF Leads
      <3>5. q \in 1 .. n /\ pages[q].kind # "overflow"
        BY <1>2, <3>4 DEF InTree
      <3>6. d[q] = t[q].lev /\ d[p] = t[p].lev
        BY <1>2, <1>4, <3>4, <3>5 DEF Depth
      <3>7. rank[q] = d[q] + 1 /\ rank[p] = d[p] + 1
        BY <1>6, <2>4, <3>5
      <3> QED
        BY <1>5, <3>3, <3>4, <3>5, <3>6, <3>7
    <2> QED
      BY <2>1, <2>2, <2>3, <2>4
  <1> QED
    BY <1>1, <1>3, <1>10, <1>11 DEF rank

\* A number before numbers.
LEMMA LongerInNat ==
  ASSUME NEW p \in Nat, NEW s \in Seq(Nat)
  PROVE  <<p>> \o s \in Seq(Nat) /\ IsConsed(Nat, <<p>> \o s, p, s)
  <1>1. PICK N : N = Nat
    OBVIOUS
  <1>2. p \in N /\ s \in Seq(N)
    BY <1>1
  <1>3. IsConsed(N, <<p>> \o s, p, s)
    BY <1>2, Consed
  <1> QED
    BY <1>1, <1>3 DEF IsConsed

\* Following the pointers of overflow pages comes to an end.
LEMMA ChainIsFollowed ==
  ASSUME ArePages, NEW t, NEW R, IsTree(t, R), Leads(t), DOMAIN t = InTree
  PROVE  ChainGathers
  <1>1. PICK n \in Nat : n = Len(pages) /\ pages \in Seq(PageRecords)
    BY DEF ArePages
  <1> DEFINE D == 0 .. n
             V == Seq(Nat)
             rank == ChainRank(t)
             next == [p \in D |-> pages[p].right]
             body == [pf \in D \X [D -> V] |->
                        IF pf[1] = 0 THEN <<>> ELSE <<pf[1]>> \o pf[2][next[pf[1]]]]
  <1>2. V # {} /\ <<>> \in V /\ \A p \in D : \A s \in V : <<p>> \o s \in V
    <2>1. <<>> \in V
      OBVIOUS
    <2>2. ASSUME NEW p \in D, NEW s \in V
          PROVE  <<p>> \o s \in V
      BY LongerInNat
    <2> QED
      BY <2>1, <2>2
  <1>3. PICK b : Ranked(D, rank, b)
    BY <1>1, ChainRanks
  <1>4. \A p \in D : p # 0 => next[p] \in D /\ rank[next[p]] < rank[p]
    <2>1. \A p \in D : p # 0 => p \in 1 .. Len(pages)
      BY <1>1
    <2> HIDE DEF rank
    <2> QED
      BY <1>1, <2>1, ChainRanks DEF rank
  <1>5. body \in [D \X [D -> V] -> V]
    <2> HIDE DEF D, V, next
    <2> QED
      BY <1>2, <1>4
  <1>6. ASSUME NEW p \in D, NEW f \in [D -> V], NEW g \in [D -> V],
               \A q \in D : rank[q] < rank[p] => f[q] = g[q]
        PROVE  body[<<p, f>>] = body[<<p, g>>]
    <2> HIDE DEF D, V, next, rank
    <2> QED
      BY <1>4, <1>6
  <1>7. LooksBelow(D, V, rank, body)
    <2> HIDE DEF body, rank, D, V
    <2> QED
      BY <1>5, <1>6 DEF LooksBelow
  <1>8. Defined(D, V, body)
    <2> HIDE DEF body, rank, D, V
    <2> QED
      BY <1>2, <1>3, <1>7, RecursiveFunction
  <1>9. PICK f \in [D -> V] : \A p \in D : f[p] = body[<<p, f>>]
    BY <1>8 DEF Defined
  <1>10. f = ChainGathering(f)
    <2>1. \A p \in D : f[p] = IF p = 0 THEN <<>> ELSE <<p>> \o f[pages[p].right]
      <3> HIDE DEF V
      <3> QED
        BY <1>9
    <2>2. f = [p \in D |-> f[p]]
      OBVIOUS
    <2> QED
      BY <1>1, <2>1, <2>2 DEF ChainGathering
  <1>11. ChainFrom = ChainGathering(ChainFrom)
    <2>1. ChainFrom = CHOOSE g : g = ChainGathering(g)
      BY DEF ChainFrom, ChainGathering
    <2>2. \E g : g = ChainGathering(g)
      BY <1>10
    <2> QED
      BY <2>1, <2>2
  <1> QED
    BY <1>11 DEF ChainGathering, ChainGathers

\* A chain from its last page down.
IsDown(s, h, n) ==
  s \in Seq(Nat) /\ Len(s) = n /\ \A i \in 1 .. n : s[i] = h - i + 1

ChainPages(r, h) == (h - Payload[r].chain + 1) .. h

\* The pages of a row's chain, from the last one written to the first.
LEMMA ChainIs ==
  ASSUME ArePages, ChainGathers, NEW r \in Rowids, NEW h \in Nat, IsChain(r, h)
  PROVE  IsDown(ChainFrom[h], h, Payload[r].chain)
  <1>1. PICK c \in Nat : c = Payload[r].chain
    BY BTreeAssumption
  <1>2. CASE c = 0
    <2>1. h = 0
      BY <1>1, <1>2 DEF IsChain
    <2>2. 0 \in 0 .. Len(pages)
      BY DEF ArePages
    <2>3. ChainFrom[h] = <<>>
      BY <2>1, <2>2 DEF ChainGathers
    <2> QED
      BY <1>1, <1>2, <2>3 DEF IsDown
  <1>3. CASE c > 0
    <2>1. PICK k \in Nat : k = h - c
      BY <1>1, <1>3 DEF IsChain
    <2>2. PICK m \in Nat : m = Len(pages) /\ h <= m
      <3>1. pages \in Seq(PageRecords) /\ h \in DOMAIN pages
        BY <1>1, <1>3 DEF IsChain, ArePages
      <3> QED
        BY <3>1
    <2>3. \A x \in k + 1 .. h : pages[x].right = IF x = k + 1 THEN 0 ELSE x - 1
      BY <1>1, <1>3, <2>1 DEF IsChain
    <2>4. \A x \in 0 .. m : ChainFrom[x] = IF x = 0 THEN <<>> ELSE <<x>> \o ChainFrom[pages[x].right]
      BY <2>2 DEF ChainGathers
    <2> DEFINE A == {i \in Nat : i + 1 <= c => IsDown(ChainFrom[k + i + 1], k + i + 1, i + 1)}
    <2>5. ASSUME NEW i \in Nat, i + 1 <= c, NEW x, x = k + i + 1, NEW s, IsDown(s, x - 1, i),
                 s = ChainFrom[pages[x].right]
          PROVE  IsDown(ChainFrom[x], x, i + 1)
      <3>1. x \in 0 .. m /\ x # 0
        BY <2>1, <2>2, <2>5
      <3>2. ChainFrom[x] = <<x>> \o s
        BY <2>4, <2>5, <3>1
      <3>3. IsConsed(Nat, <<x>> \o s, x, s)
        <4>1. x \in Nat /\ s \in Seq(Nat)
          BY <2>2, <2>5, <3>1 DEF IsDown
        <4> QED
          BY <4>1, LongerInNat
      <3> DEFINE g == <<x>> \o s
      <3> HIDE DEF g
      <3>4. g \in Seq(Nat) /\ Len(g) = i + 1 /\ g[1] = x /\ \A j \in 2 .. i + 1 : g[j] = s[j - 1]
        BY <2>5, <3>3 DEF IsConsed, IsDown, g
      <3>5. \A j \in 2 .. i + 1 : j - 1 \in 1 .. i
        OBVIOUS
      <3>6. \A j \in 2 .. i + 1 : s[j - 1] = x - 1 - (j - 1) + 1
        BY <2>5, <3>5 DEF IsDown
      <3>7. \A j \in 1 .. i + 1 : g[j] = x - j + 1
        BY <3>1, <3>4, <3>6
      <3> QED
        BY <3>2, <3>4, <3>7 DEF IsDown, g
    <2>6. 0 \in A
      <3>1. PICK x : x = k + 0 + 1
        OBVIOUS
      <3>2. x \in k + 1 .. h /\ x = k + 1 /\ 0 \in 0 .. m
        BY <1>3, <2>1, <2>2, <3>1
      <3>3. pages[x].right = 0
        BY <2>3, <3>2
      <3>4. ChainFrom[pages[x].right] = <<>>
        BY <2>4, <3>2, <3>3
      <3>5. IsDown(<<>>, x - 1, 0)
        BY DEF IsDown
      <3>6. IsDown(ChainFrom[x], x, 0 + 1)
        BY <1>3, <2>5, <3>1, <3>4, <3>5
      <3> QED
        BY <3>1, <3>6
    <2>7. ASSUME NEW i \in Nat, i \in A
          PROVE  i + 1 \in A
      <3> SUFFICES ASSUME i + 1 + 1 <= c
                   PROVE  IsDown(ChainFrom[k + (i + 1) + 1], k + (i + 1) + 1, i + 1 + 1)
        OBVIOUS
      <3>1. PICK j \in Nat : j = i + 1
        OBVIOUS
      <3>2. PICK x : x = k + j + 1
        OBVIOUS
      <3>3. x \in k + 1 .. h /\ x # k + 1 /\ x - 1 = k + i + 1
        BY <1>1, <2>1, <3>1, <3>2
      <3>4. pages[x].right = x - 1
        BY <2>3, <3>3
      <3>5. IsDown(ChainFrom[k + i + 1], k + i + 1, i + 1)
        BY <2>7
      <3>6. IsDown(ChainFrom[x - 1], x - 1, j)
        BY <3>1, <3>3, <3>5
      <3>7. IsDown(ChainFrom[x], x, j + 1)
        BY <2>5, <3>1, <3>2, <3>4, <3>6
      <3> QED
        BY <3>1, <3>2, <3>7
    <2>8. \A i \in Nat : i \in A
      <3> HIDE DEF A
      <3> QED
        BY <2>6, <2>7, Induction
    <2>9. PICK i \in Nat : c = i + 1
      BY <1>3
    <2>10. k + i + 1 = h
      BY <1>1, <2>1, <2>9
    <2> QED
      BY <1>1, <2>8, <2>9, <2>10
  <1> QED
    BY <1>2, <1>3
==============================================================================
