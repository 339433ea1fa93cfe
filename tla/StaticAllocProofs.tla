-------------------------- MODULE StaticAllocProofs --------------------------
(***************************************************************************)
(* StaticAlloc for any finite set of threads, any buffer and any sizes:    *)
(* the regions handed out do not overlap as long as no request is given    *)
(* one between the two atomic steps of another, and top adds up.           *)
(*                                                                         *)
(* Between the two steps of a request that does not fit, top is not the    *)
(* end of what is handed out: that is End, where top comes back to.  A     *)
(* request that fits puts its region at top, which is End only if no other *)
(* request is to be taken off: UncrossedInv.                               *)
(***************************************************************************)
EXTENDS StaticAlloc, FiniteSetsExt, FiniteSetTheorems, SequenceTheorems, TLAPS

-----------------------------------------------------------------------------
\* Induction

\* A set of naturals that is not empty has a least element.
LEMMA LeastNatural ==
  ASSUME NEW S \in SUBSET Nat, S # {}
  PROVE  \E m \in S : \A n \in S : m <= n
  <1> DEFINE below == {0 .. n : n \in S}
  <1>1. below \subseteq FiniteSubsetsOf(Nat)
    <2> SUFFICES ASSUME NEW n \in S
                 PROVE  0 .. n \in SUBSET Nat /\ IsFiniteSet(0 .. n)
      BY DEF FiniteSubsetsOf
    <2> QED
      BY FS_Interval
  <1>2. below # {}
    OBVIOUS
  <1>3. IsWellFoundedOn(StrictSubsetOrdering(Nat), FiniteSubsetsOf(Nat))
    BY FS_StrictSubsetOrderingWellFounded
  <1> HIDE DEF below
  <1>4. PICK x \in below : \A y \in below : ~ (<<y, x>> \in StrictSubsetOrdering(Nat))
    BY <1>1, <1>2, <1>3, WFMin
  <1>5. PICK m \in S : x = 0 .. m
    BY <1>4 DEF below
  <1>6. ASSUME NEW n \in S, ~(m <= n)
        PROVE  FALSE
    <2>1. 0 .. n \in below
      BY DEF below
    <2>2. 0 .. n \subseteq 0 .. m /\ 0 .. n \subseteq Nat /\ 0 .. m \subseteq Nat
      BY <1>6
    <2>3. m \in 0 .. m /\ m \notin 0 .. n
      BY <1>6
    <2> QED
      BY <1>4, <1>5, <2>1, <2>2, <2>3 DEF StrictSubsetOrdering
  <1> QED
    BY <1>6

\* Induction on naturals.
LEMMA Induction ==
  ASSUME NEW S, 0 \in S, \A n \in Nat : n \in S => n + 1 \in S
  PROVE  \A n \in Nat : n \in S
  <1> DEFINE out == Nat \ S
  <1>1. SUFFICES ASSUME out # {} PROVE FALSE
    OBVIOUS
  <1>2. PICK m \in out : \A n \in out : m <= n
    BY <1>1, LeastNatural
  <1>3. m # 0 /\ m - 1 \in Nat /\ m - 1 \notin out
    BY <1>2
  <1> QED
    BY <1>2, <1>3

-----------------------------------------------------------------------------
\* Recursive functions

\* The elements of D have ranks below a bound.
Ranked(D, rank, bound) ==
  rank \in [D -> Nat] /\ bound \in Nat /\ \A p \in D : rank[p] < bound

\* body[<<p, f>>] is what a definition gives at p if f is what is being defined;
\* it looks at f only where the rank is lower.
LooksBelow(D, V, rank, body) ==
  /\ body \in [D \X [D -> V] -> V]
  /\ \A p \in D : \A f, g \in [D -> V] :
       (\A q \in D : rank[q] < rank[p] => f[q] = g[q]) => body[<<p, f>>] = body[<<p, g>>]

Defined(D, V, body) ==
  \E f \in [D -> V] : \A p \in D : f[p] = body[<<p, f>>]

\* Then there is a function with that definition.
LEMMA RecursiveFunction ==
  ASSUME NEW D, NEW V, V # {}, NEW rank, NEW bound, Ranked(D, rank, bound),
         NEW body, LooksBelow(D, V, rank, body)
  PROVE  Defined(D, V, body)
  <1> USE DEF Ranked, LooksBelow, Defined
  <1> DEFINE Upto(n) == \E f \in [D -> V] : \A p \in D : rank[p] < n => f[p] = body[<<p, f>>]
             S == {n \in Nat : Upto(n)}
  <1>1. 0 \in S
    <2>1. PICK v \in V : TRUE
      OBVIOUS
    <2>2. [p \in D |-> v] \in [D -> V] /\ \A p \in D : ~(rank[p] < 0)
      OBVIOUS
    <2>3. Upto(0)
      BY <2>2
    <2> QED
      BY <2>3
  <1>2. ASSUME NEW n \in Nat, n \in S
        PROVE  n + 1 \in S
    <2>1. PICK f \in [D -> V] : \A p \in D : rank[p] < n => f[p] = body[<<p, f>>]
      BY <1>2
    <2> DEFINE g == [p \in D |-> body[<<p, f>>]]
    <2>2. g \in [D -> V]
      OBVIOUS
    <2>3. ASSUME NEW p \in D, rank[p] < n + 1
          PROVE  g[p] = body[<<p, g>>]
      <3>1. \A q \in D : rank[q] < rank[p] => f[q] = g[q]
        BY <2>1, <2>3
      <3>2. body[<<p, f>>] = body[<<p, g>>]
        BY <2>2, <3>1
      <3> QED
        BY <3>2
    <2>4. Upto(n + 1)
      <3> HIDE DEF g
      <3> QED
        BY <2>2, <2>3
    <2> QED
      BY <2>4
  <1>3. \A n \in Nat : n \in S
    <2> HIDE DEF S
    <2> QED
      BY <1>1, <1>2, Induction
  <1>4. Upto(bound)
    BY <1>3
  <1> QED
    BY <1>4

\* The same for a function of the subsets of a finite set, which takes an
\* element out and adds what it weighs: what the folds of the libraries do.
Weighs(D, w, out) ==
  /\ w \in [SUBSET D -> Nat] /\ out \in [SUBSET D -> SUBSET D]
  /\ \A s \in SUBSET D : s # {} => out[s] # s /\ out[s] \subseteq s

Weighed(D, w, out) ==
  \E f \in [SUBSET D -> Nat] :
    f = [s \in SUBSET D |-> IF s = {} THEN 0 ELSE w[s] + f[out[s]]]

\* A function of sets that is defined by taking an element out exists.
LEMMA SetRecursion ==
  ASSUME NEW D, IsFiniteSet(D), NEW w, NEW out, Weighs(D, w, out)
  PROVE  Weighed(D, w, out)
  <1> USE DEF Weighs, Weighed
  <1> DEFINE P == SUBSET D
             rank == [s \in P |-> Cardinality(s)]
             body == [sf \in P \X [P -> Nat] |->
                        IF sf[1] = {} THEN 0 ELSE w[sf[1]] + sf[2][out[sf[1]]]]
  <1>1. \A s \in P : IsFiniteSet(s) /\ Cardinality(s) \in Nat /\ Cardinality(s) <= Cardinality(D)
    BY FS_Subset, FS_CardinalityType
  <1>2. rank \in [P -> Nat] /\ Cardinality(D) + 1 \in Nat /\ \A s \in P : rank[s] < Cardinality(D) + 1
    BY <1>1, FS_CardinalityType
  <1>3. ASSUME NEW s \in P, s # {}
        PROVE  out[s] \in P /\ rank[out[s]] < rank[s]
    <2>1. out[s] \in SUBSET s /\ out[s] # s
      BY <1>3
    <2>2. Cardinality(out[s]) <= Cardinality(s) /\ Cardinality(out[s]) # Cardinality(s)
      BY <1>1, <2>1, FS_Subset
    <2> QED
      BY <1>1, <2>2
  <1>4. body \in [P \X [P -> Nat] -> Nat]
    <2> SUFFICES ASSUME NEW s \in P, NEW f \in [P -> Nat], s # {}
                 PROVE  w[s] + f[out[s]] \in Nat
      OBVIOUS
    <2> QED
      BY <1>3
  <1>5. ASSUME NEW s \in P, NEW f \in [P -> Nat], NEW g \in [P -> Nat],
               \A q \in P : rank[q] < rank[s] => f[q] = g[q]
        PROVE  body[<<s, f>>] = body[<<s, g>>]
    <2>1. CASE s = {}
      BY <2>1
    <2>2. CASE s # {}
      <3>1. f[out[s]] = g[out[s]]
        BY <1>3, <1>5, <2>2
      <3> QED
        BY <3>1
    <2> QED
      BY <2>1, <2>2
  <1>6. \E f \in [P -> Nat] : \A s \in P : f[s] = body[<<s, f>>]
    <2>1. \A s \in P : \A f, g \in [P -> Nat] :
            (\A q \in P : rank[q] < rank[s] => f[q] = g[q]) => body[<<s, f>>] = body[<<s, g>>]
      <3> HIDE DEF rank, body
      <3> QED
        BY <1>5
    <2>2. Nat # {}
      OBVIOUS
    <2>3. Ranked(P, rank, Cardinality(D) + 1)
      BY <1>2 DEF Ranked
    <2>4. LooksBelow(P, Nat, rank, body)
      <3> HIDE DEF P, rank, body
      <3> QED
        BY <1>4, <2>1 DEF LooksBelow
    <2>5. Defined(P, Nat, body)
      <3> HIDE DEF P, rank, body
      <3> QED
        BY <2>2, <2>3, <2>4, RecursiveFunction
    <2> QED
      BY <2>5 DEF Defined
  <1>7. PICK f \in [P -> Nat] : \A s \in P : f[s] = body[<<s, f>>]
    BY <1>6
  <1>8. \A s \in P : f[s] = IF s = {} THEN 0 ELSE w[s] + f[out[s]]
    BY <1>7
  <1> QED
    BY <1>8

-----------------------------------------------------------------------------
\* What is still to be taken off

\* The sum of the weights w of the threads of each set.
SumOver(w) == CHOOSE f \in [SUBSET Threads -> Nat] :
  \A s \in SUBSET Threads :
    f[s] = IF s = {} THEN 0 ELSE w[CHOOSE t \in s : TRUE] + f[s \ {CHOOSE t \in s : TRUE}]

LEMMA SumOverIsDefined ==
  ASSUME IsFiniteSet(Threads), NEW w \in [Threads -> Nat]
  PROVE  /\ SumOver(w) \in [SUBSET Threads -> Nat]
         /\ \A s \in SUBSET Threads :
              SumOver(w)[s] = IF s = {} THEN 0 ELSE w[CHOOSE t \in s : TRUE]
                                                    + SumOver(w)[s \ {CHOOSE t \in s : TRUE}]
  <1> DEFINE D == Threads
             weight == [s \in SUBSET D |-> IF s = {} THEN 0 ELSE w[CHOOSE t \in s : TRUE]]
             out == [s \in SUBSET D |-> s \ {CHOOSE t \in s : TRUE}]
  <1>1. Weighs(D, weight, out)
    BY DEF Weighs
  <1>2. Weighed(D, weight, out)
    <2> HIDE DEF weight, out
    <2> QED
      BY <1>1, SetRecursion
  <1>3. PICK f \in [SUBSET D -> Nat] :
          f = [s \in SUBSET D |-> IF s = {} THEN 0 ELSE weight[s] + f[out[s]]]
    BY <1>2 DEF Weighed
  <1>4. \A s \in SUBSET D :
          f[s] = IF s = {} THEN 0 ELSE w[CHOOSE t \in s : TRUE] + f[s \ {CHOOSE t \in s : TRUE}]
    BY <1>3
  <1> QED
    BY <1>4 DEF SumOver

\* When one weight changes, so does the sum.
LEMMA SumOverChanges ==
  ASSUME IsFiniteSet(Threads), NEW w \in [Threads -> Nat], NEW t \in Threads, NEW n \in Nat
  PROVE  SumOver([w EXCEPT ![t] = n])[Threads] = SumOver(w)[Threads] - w[t] + n
  <1> DEFINE v == [w EXCEPT ![t] = n]
             f == SumOver(w)
             g == SumOver(v)
             S == {k \in Nat : \A s \in SUBSET Threads : Cardinality(s) <= k =>
                                 g[s] = f[s] + (IF t \in s THEN n - w[t] ELSE 0)}
  <1>1. \A s \in SUBSET Threads : IsFiniteSet(s) /\ Cardinality(s) \in Nat
    BY FS_Subset, FS_CardinalityType
  <1>2. /\ f \in [SUBSET Threads -> Nat] /\ g \in [SUBSET Threads -> Nat]
        /\ \A s \in SUBSET Threads : s = {} => f[s] = 0 /\ g[s] = 0
        /\ \A s \in SUBSET Threads : s # {} =>
             /\ f[s] = w[CHOOSE u \in s : TRUE] + f[s \ {CHOOSE u \in s : TRUE}]
             /\ g[s] = v[CHOOSE u \in s : TRUE] + g[s \ {CHOOSE u \in s : TRUE}]
    <2>1. v \in [Threads -> Nat]
      OBVIOUS
    <2> HIDE DEF v
    <2> QED
      BY <2>1, SumOverIsDefined
  <1> HIDE DEF f, g
  <1>3. 0 \in S
    <2>1. \A s \in SUBSET Threads : Cardinality(s) <= 0 => s = {}
      BY <1>1, FS_EmptySet
    <2> QED
      BY <1>2, <2>1
  <1>4. ASSUME NEW k \in Nat, k \in S
        PROVE  k + 1 \in S
    <2> SUFFICES ASSUME NEW s \in SUBSET Threads, Cardinality(s) <= k + 1
                 PROVE  g[s] = f[s] + (IF t \in s THEN n - w[t] ELSE 0)
      OBVIOUS
    <2> SUFFICES ASSUME s # {} PROVE g[s] = f[s] + (IF t \in s THEN n - w[t] ELSE 0)
      BY <1>2
    <2> DEFINE x == CHOOSE u \in s : TRUE
               rest == s \ {x}
    <2>1. x \in s
      OBVIOUS
    <2>2. Cardinality(rest) = Cardinality(s) - 1 /\ rest \in SUBSET Threads
      BY <1>1, <2>1, FS_RemoveElement
    <2>3. g[rest] = f[rest] + (IF t \in rest THEN n - w[t] ELSE 0)
      BY <1>1, <1>4, <2>2
    <2>4. f[s] = w[x] + f[rest] /\ g[s] = v[x] + g[rest]
      BY <1>2
    <2>5. f[rest] \in Nat /\ g[rest] \in Nat /\ w[t] \in Nat /\ w[x] \in Nat /\ x \in Threads
      BY <1>2, <2>1, <2>2
    <2>6. v[x] = IF x = t THEN n ELSE w[x]
      BY <2>5
    <2> HIDE DEF x, S, v
    <2>7. CASE x = t
      BY <2>1, <2>3, <2>4, <2>5, <2>6, <2>7
    <2>8. CASE x # t
      BY <2>1, <2>3, <2>4, <2>5, <2>6, <2>8
    <2> QED
      BY <2>7, <2>8
  <1>5. \A k \in Nat : k \in S
    <2> HIDE DEF S
    <2> QED
      BY <1>3, <1>4, Induction
  <1>6. g[Threads] = f[Threads] + (n - w[t])
    BY <1>1, <1>5
  <1>7. f[Threads] \in Nat /\ w[t] \in Nat
    BY <1>2
  <1> QED
    BY <1>6, <1>7 DEF f, g

\* No weight, no sum.
LEMMA SumOverNothing ==
  ASSUME IsFiniteSet(Threads), NEW w \in [Threads -> Nat], \A t \in Threads : w[t] = 0
  PROVE  SumOver(w)[Threads] = 0
  <1> DEFINE f == SumOver(w)
             S == {k \in Nat : \A s \in SUBSET Threads : Cardinality(s) <= k => f[s] = 0}
  <1>1. \A s \in SUBSET Threads : IsFiniteSet(s) /\ Cardinality(s) \in Nat
    BY FS_Subset, FS_CardinalityType
  <1>2. /\ \A s \in SUBSET Threads : s = {} => f[s] = 0
        /\ \A s \in SUBSET Threads : s # {} =>
             f[s] = w[CHOOSE t \in s : TRUE] + f[s \ {CHOOSE t \in s : TRUE}]
    BY SumOverIsDefined
  <1> HIDE DEF f
  <1>3. 0 \in S
    <2>1. \A s \in SUBSET Threads : Cardinality(s) <= 0 => s = {}
      BY <1>1, FS_EmptySet
    <2> QED
      BY <1>2, <2>1
  <1>4. ASSUME NEW k \in Nat, k \in S
        PROVE  k + 1 \in S
    <2> SUFFICES ASSUME NEW s \in SUBSET Threads, Cardinality(s) <= k + 1, s # {}
                 PROVE  f[s] = 0
      BY <1>2
    <2> DEFINE x == CHOOSE t \in s : TRUE
    <2>1. x \in s
      OBVIOUS
    <2>2. Cardinality(s \ {x}) = Cardinality(s) - 1 /\ s \ {x} \in SUBSET Threads
      BY <1>1, <2>1, FS_RemoveElement
    <2>3. f[s \ {x}] = 0
      BY <1>1, <1>4, <2>2
    <2>4. f[s] = w[x] + f[s \ {x}] /\ w[x] = 0
      BY <1>2, <2>1
    <2> QED
      BY <2>3, <2>4
  <1>5. \A k \in Nat : k \in S
    <2> HIDE DEF S
    <2> QED
      BY <1>3, <1>4, Induction
  <1> QED
    BY <1>1, <1>5 DEF f

-----------------------------------------------------------------------------
\* The inductive invariant

\* Where top will be when every request that failed is taken off again.
End == top - SumOver(undoing)[Threads]

UncrossedInv ==
  /\ TypeOK
  /\ End \in Nat
  /\ ~crossed =>
       /\ \A t \in Threads : \A i \in DOMAIN regions[t] : regions[t][i].from + regions[t][i].n <= End
       /\ RegionsApart

-----------------------------------------------------------------------------
\* It is inductive

LEMMA UndoingIsWeight ==
  ASSUME StaticAllocConstants, TypeOK
  PROVE  undoing \in [Threads -> Nat]
  <1>1. {0} \cup Sizes \subseteq Nat
    BY DEF StaticAllocConstants
  <1> QED
    BY <1>1 DEF TypeOK

\* Nothing is handed out at the start.
LEMMA UncrossedInit ==
  ASSUME StaticAllocConstants, IsFiniteSet(Threads), Init
  PROVE  UncrossedInv
  <1>1. TypeOK
    <2>1. regions \in [Threads -> Seq(Regions)]
      BY DEF Init
    <2> QED
      BY <2>1 DEF Init, TypeOK
  <1>2. SumOver(undoing)[Threads] = 0
    BY <1>1, UndoingIsWeight, SumOverNothing DEF Init
  <1> QED
    BY <1>1, <1>2 DEF Init, UncrossedInv, End, RegionsApart

\* The request that fits: unless it crosses another one, nobody is undoing, so
\* that top is the end of what is handed out, and the new region is behind it.
LEMMA FitsPreserves ==
  ASSUME StaticAllocConstants, IsFiniteSet(Threads), UncrossedInv,
         NEW t \in Threads, NEW n \in Sizes, Malloc(t, n), Fits(n)
  PROVE  UncrossedInv'
  <1> DEFINE r == [from |-> top, n |-> n]
  <1>1. n \in Nat /\ n > 0 /\ Room \in Nat
    BY DEF StaticAllocConstants
  <1>2. /\ top \in Nat /\ top + n <= Room /\ top' = top + n /\ undoing' = undoing
        /\ regions' = [regions EXCEPT ![t] = Append(@, r)]
        /\ crossed' = (crossed \/ \E u \in Threads : undoing[u] # 0)
    BY DEF Malloc, Fits, Bumped, UncrossedInv, TypeOK
  <1>3. r \in Regions
    BY <1>1, <1>2 DEF Regions
  <1>4. TypeOK'
    <2>1. crossed' \in BOOLEAN
      BY <1>2 DEF UncrossedInv, TypeOK
    <2>2. regions' \in [Threads -> Seq(Regions)]
      BY <1>2, <1>3 DEF UncrossedInv, TypeOK
    <2> QED
      BY <1>1, <1>2, <2>1, <2>2 DEF UncrossedInv, TypeOK
  <1>5. End \in Nat /\ End' = End + n
    <2>1. SumOver(undoing)[Threads] \in Nat
      BY UndoingIsWeight, SumOverIsDefined DEF UncrossedInv
    <2> QED
      BY <1>1, <1>2, <2>1 DEF UncrossedInv, End
  <1>6. ASSUME ~crossed'
        PROVE  /\ \A u \in Threads : \A i \in DOMAIN regions'[u] :
                    regions'[u][i].from + regions'[u][i].n <= End'
               /\ RegionsApart'
    <2>1. ~crossed /\ \A u \in Threads : undoing[u] = 0
      BY <1>2, <1>6 DEF UncrossedInv, TypeOK
    <2>2. End = top
      BY <1>2, <2>1, UndoingIsWeight, SumOverNothing DEF UncrossedInv, End
    <2>3. \A u \in Threads : \A i \in DOMAIN regions'[u] :
            \/ i \in DOMAIN regions[u] /\ regions'[u][i] = regions[u][i]
            \/ u = t /\ i = Len(regions[t]) + 1 /\ regions'[u][i] = r
      BY <1>2 DEF UncrossedInv, TypeOK
    <2>4. \A u \in Threads : \A i \in DOMAIN regions[u] :
            /\ regions[u][i].from \in Nat /\ regions[u][i].n \in Nat
            /\ regions[u][i].from + regions[u][i].n <= top
      <3> SUFFICES ASSUME NEW u \in Threads, NEW i \in DOMAIN regions[u]
                   PROVE  regions[u][i].from \in Nat /\ regions[u][i].n \in Nat
        BY <2>1, <2>2 DEF UncrossedInv
      <3>1. regions[u] \in Seq(Regions)
        BY DEF UncrossedInv, TypeOK
      <3>2. regions[u][i].from \in 0 .. Room /\ regions[u][i].n \in Sizes
        BY <3>1 DEF Regions
      <3>3. Sizes \subseteq Nat
        BY DEF StaticAllocConstants
      <3>4. \A k \in 0 .. Room : k \in Nat
        BY <1>1
      <3> QED
        BY <3>2, <3>3, <3>4, Zenon
    <2>5. RegionsApart'
      <3> SUFFICES ASSUME NEW u \in Threads, NEW v \in Threads,
                          NEW i \in DOMAIN regions'[u], NEW j \in DOMAIN regions'[v],
                          <<u, i>> # <<v, j>>
                   PROVE  Apart(regions'[u][i], regions'[v][j])
        BY DEF RegionsApart, Apart
      <3>1. CASE i \in DOMAIN regions[u] /\ regions'[u][i] = regions[u][i]
                 /\ j \in DOMAIN regions[v] /\ regions'[v][j] = regions[v][j]
        BY <2>1, <3>1 DEF UncrossedInv, RegionsApart
      <3>2. CASE i \in DOMAIN regions[u] /\ regions'[u][i] = regions[u][i] /\ regions'[v][j] = r
        BY <2>4, <3>2 DEF Apart
      <3>3. CASE regions'[u][i] = r /\ j \in DOMAIN regions[v] /\ regions'[v][j] = regions[v][j]
        BY <2>4, <3>3 DEF Apart
      <3> QED
        BY <2>3, <3>1, <3>2, <3>3
    <2>6. \A u \in Threads : \A i \in DOMAIN regions'[u] :
            regions'[u][i].from + regions'[u][i].n <= top + n
      <3> SUFFICES ASSUME NEW u \in Threads, NEW i \in DOMAIN regions'[u]
                   PROVE  regions'[u][i].from + regions'[u][i].n <= top + n
        OBVIOUS
      <3>1. CASE i \in DOMAIN regions[u] /\ regions'[u][i] = regions[u][i]
        BY <1>1, <1>2, <2>4, <3>1
      <3>2. CASE regions'[u][i] = r
        BY <1>1, <1>2, <3>2
      <3> QED
        BY <2>3, <3>1, <3>2
    <2> QED
      BY <1>5, <2>2, <2>5, <2>6
  <1>7. End' \in Nat
    BY <1>1, <1>5
  <1> QED
    BY <1>4, <1>6, <1>7 DEF UncrossedInv

\* The request that does not fit: what it adds to top is to be taken off.
LEMMA FailsPreserves ==
  ASSUME StaticAllocConstants, IsFiniteSet(Threads), UncrossedInv,
         NEW t \in Threads, NEW n \in Sizes, Malloc(t, n), ~Fits(n)
  PROVE  UncrossedInv'
  <1>1. n \in Nat /\ top \in Nat /\ undoing \in [Threads -> Nat]
    BY UndoingIsWeight DEF StaticAllocConstants, UncrossedInv, TypeOK
  <1>2. /\ undoing[t] = 0 /\ top' = top + n /\ undoing' = [undoing EXCEPT ![t] = n]
        /\ regions' = regions /\ crossed' = crossed
    BY DEF Malloc, Bumped
  <1>3. SumOver(undoing')[Threads] = SumOver(undoing)[Threads] - undoing[t] + n
    BY <1>1, <1>2, SumOverChanges
  <1>4. SumOver(undoing)[Threads] \in Nat
    BY <1>1, SumOverIsDefined
  <1>5. End' = End
    BY <1>1, <1>2, <1>3, <1>4 DEF End
  <1>6. TypeOK'
    BY <1>1, <1>2 DEF UncrossedInv, TypeOK
  <1> QED
    BY <1>2, <1>5, <1>6 DEF UncrossedInv, RegionsApart

\* Taking it off leaves the end where it was.
LEMMA UndoPreserves ==
  ASSUME StaticAllocConstants, IsFiniteSet(Threads), UncrossedInv,
         NEW t \in Threads, Undo(t)
  PROVE  UncrossedInv'
  <1>1. top \in Nat /\ undoing \in [Threads -> Nat] /\ undoing[t] \in Nat
    BY UndoingIsWeight DEF UncrossedInv, TypeOK
  <1>2. /\ top' = top - undoing[t] /\ undoing' = [undoing EXCEPT ![t] = 0]
        /\ regions' = regions /\ crossed' = crossed
    BY DEF Undo, Lowered
  <1>3. SumOver(undoing')[Threads] = SumOver(undoing)[Threads] - undoing[t] + 0
    BY <1>1, <1>2, SumOverChanges
  <1>4. SumOver(undoing)[Threads] \in Nat /\ SumOver(undoing')[Threads] \in Nat
    BY <1>1, <1>2, SumOverIsDefined
  <1>5. End' = End
    BY <1>1, <1>2, <1>3, <1>4 DEF End
  <1>6. top' \in Nat
    BY <1>1, <1>2, <1>3, <1>4 DEF UncrossedInv, End
  <1>7. TypeOK'
    BY <1>2, <1>6 DEF UncrossedInv, TypeOK
  <1> QED
    BY <1>2, <1>5, <1>7 DEF UncrossedInv, RegionsApart

\* For any threads, any sizes and any buffer: as long as no request was given a
\* region while another thread's was still to be taken off top, no two regions
\* that malloc returns share a byte.
THEOREM UncrossedStayApart ==
  ASSUME StaticAllocConstants, IsFiniteSet(Threads)
  PROVE  Spec => []UncrossedApart
  <1>1. Init => UncrossedInv
    BY UncrossedInit
  <1>2. UncrossedInv /\ [Next]_vars => UncrossedInv'
    <2> SUFFICES ASSUME UncrossedInv, [Next]_vars
                 PROVE  UncrossedInv'
      OBVIOUS
    <2>1. CASE UNCHANGED vars
      BY <2>1 DEF vars, UncrossedInv, TypeOK, End, RegionsApart
    <2>2. ASSUME NEW t \in Threads, Undo(t)
          PROVE  UncrossedInv'
      BY <2>2, UndoPreserves
    <2>3. ASSUME NEW t \in Threads, NEW n \in Sizes, Malloc(t, n)
          PROVE  UncrossedInv'
      BY <2>3, FitsPreserves, FailsPreserves
    <2> QED
      BY <2>1, <2>2, <2>3 DEF Next
  <1>3. UncrossedInv => UncrossedApart
    BY DEF UncrossedInv, UncrossedApart
  <1> QED
    BY <1>1, <1>2, <1>3, PTL DEF Spec

-----------------------------------------------------------------------------
\* Sums

\* What FoldLeft defines to add up a list of regions: from the last one down.
Summed(seq, iter) ==
  [s \in SUBSET DOMAIN seq |-> IF s = {} THEN 0 ELSE iter[s \ {Max(s)}] + seq[Max(s)].n]

SumsOf(seq) == CHOOSE iter : iter = Summed(seq, iter)

LEMMA GivenIsSum ==
  ASSUME NEW t
  PROVE  Given(t) = SumsOf(regions[t])[DOMAIN regions[t]]
  BY DEF Given, FoldLeft, MapThenFoldSet, SumsOf, Summed

\* What MapThenSumSet defines to add up what the threads have.
Picked(s) == CHOOSE t \in s : TRUE

Totalled(iter) ==
  [s \in SUBSET Threads |->
     IF s = {} THEN 0 ELSE Given(Picked(s)) + undoing[Picked(s)] + iter[s \ {Picked(s)}]]

Totals == CHOOSE iter : iter = Totalled(iter)

LEMMA TopIsTotal == TopIsAccounted <=> top = Totals[Threads]
  BY DEF TopIsAccounted, MapThenSumSet, MapThenFoldSet, Totals, Totalled, Picked

\* The greatest of the numbers up to k, and of a set of them.
LEMMA MaxOfUpto ==
  ASSUME NEW n \in Nat
  PROVE  /\ \A s \in SUBSET (1 .. n) : s # {} => Max(s) \in s
         /\ \A k \in 1 .. n : Max(1 .. k) = k /\ (1 .. k) \ {k} = 1 .. (k - 1)
  <1>1. ASSUME NEW s \in SUBSET (1 .. n), s # {}
        PROVE  Max(s) \in s
    <2> DEFINE up == {n - x : x \in s}
    <2>1. PICK m \in up : \A y \in up : m <= y
      <3>1. up \in SUBSET Nat /\ up # {}
        BY <1>1
      <3> HIDE DEF up
      <3> QED
        BY <3>1, LeastNatural
    <2>2. n - m \in s /\ \A y \in s : n - m >= y
      <3>1. PICK x \in s : m = n - x
        BY <2>1
      <3>2. \A y \in s : n - y \in up
        OBVIOUS
      <3> QED
        BY <2>1, <3>1, <3>2
    <2> QED
      BY <2>2 DEF Max
  <1>2. ASSUME NEW k \in 1 .. n
        PROVE  Max(1 .. k) = k /\ (1 .. k) \ {k} = 1 .. (k - 1)
    <2>1. k \in 1 .. k /\ \A x \in 1 .. k : k >= x
      OBVIOUS
    <2>2. \A x \in 1 .. k : (\A y \in 1 .. k : x >= y) => x = k
      OBVIOUS
    <2> QED
      BY <2>1, <2>2 DEF Max
  <1> QED
    BY <1>1, <1>2

\* The sum of a list is a number and obeys its definition.
LEMMA SumIsDefined ==
  ASSUME StaticAllocConstants, NEW seq \in Seq(Regions)
  PROVE  SumsOf(seq) \in [SUBSET DOMAIN seq -> Nat] /\ SumsOf(seq) = Summed(seq, SumsOf(seq))
  <1> DEFINE n == Len(seq)
             D == 1 .. n
             w == [s \in SUBSET D |-> IF s = {} THEN 0 ELSE seq[Max(s)].n]
             out == [s \in SUBSET D |-> s \ {Max(s)}]
  <1>1. n \in Nat /\ DOMAIN seq = D /\ \A i \in D : seq[i].n \in Nat
    <2>1. n \in Nat /\ DOMAIN seq = D /\ \A i \in D : seq[i] \in Regions
      OBVIOUS
    <2> QED
      BY <2>1 DEF Regions, StaticAllocConstants
  <1>2. IsFiniteSet(D)
    <2> HIDE DEF n
    <2> QED
      BY <1>1, FS_Interval
  <1>3. \A s \in SUBSET D : s # {} => Max(s) \in s
    BY <1>1, MaxOfUpto
  <1>4. w \in [SUBSET D -> Nat] /\ out \in [SUBSET D -> SUBSET D]
        /\ \A s \in SUBSET D : s # {} => out[s] # s /\ out[s] \subseteq s
    BY <1>1, <1>3
  <1>5. PICK f \in [SUBSET D -> Nat] :
          f = [s \in SUBSET D |-> IF s = {} THEN 0 ELSE w[s] + f[out[s]]]
    <2>1. Weighs(D, w, out)
      BY <1>4 DEF Weighs
    <2>2. Weighed(D, w, out)
      <3> HIDE DEF D, w, out
      <3> QED
        BY <1>2, <2>1, SetRecursion
    <2> QED
      BY <2>2 DEF Weighed
  <1>6. f = Summed(seq, f)
    <2> SUFFICES ASSUME NEW s \in SUBSET D, s # {}
                 PROVE  f[s] = f[s \ {Max(s)}] + seq[Max(s)].n
      BY <1>1, <1>5 DEF Summed
    <2>1. f[s] = w[s] + f[out[s]]
      BY <1>5
    <2>2. w[s] = seq[Max(s)].n /\ out[s] = s \ {Max(s)}
      OBVIOUS
    <2>3. w[s] \in Nat /\ f[out[s]] \in Nat
      BY <1>4
    <2> QED
      BY <2>1, <2>2, <2>3
  <1>7. SumsOf(seq) = Summed(seq, SumsOf(seq))
    BY <1>6 DEF SumsOf
  <1>8. \A g : g = Summed(seq, g) => g \in [SUBSET D -> Nat]
    <2> SUFFICES ASSUME NEW g, g = Summed(seq, g)
                 PROVE  g \in [SUBSET D -> Nat]
      OBVIOUS
    <2> DEFINE S == {k \in Nat : \A s \in SUBSET D : Cardinality(s) <= k => g[s] \in Nat}
    <2>1. \A s \in SUBSET D : IsFiniteSet(s) /\ Cardinality(s) \in Nat
      BY <1>2, FS_Subset, FS_CardinalityType
    <2>2. DOMAIN g = SUBSET D /\ (\A s \in SUBSET D : s = {} => g[s] = 0)
          /\ \A s \in SUBSET D : s # {} => g[s] = g[s \ {Max(s)}] + seq[Max(s)].n
      BY <1>1 DEF Summed
    <2>3. 0 \in S
      <3>1. \A s \in SUBSET D : Cardinality(s) <= 0 => s = {}
        BY <2>1, FS_EmptySet
      <3> QED
        BY <2>2, <3>1
    <2>4. ASSUME NEW k \in Nat, k \in S
          PROVE  k + 1 \in S
      <3> SUFFICES ASSUME NEW s \in SUBSET D, Cardinality(s) <= k + 1
                   PROVE  g[s] \in Nat
        <4> HIDE DEF D
        <4> QED
          OBVIOUS
      <3> SUFFICES ASSUME s # {} PROVE g[s] \in Nat
        BY <2>2
      <3>1. Max(s) \in s
        BY <1>3
      <3>2. Cardinality(s \ {Max(s)}) = Cardinality(s) - 1
        BY <2>1, <3>1, FS_RemoveElement
      <3>3. g[s \ {Max(s)}] \in Nat
        BY <2>1, <2>4, <3>2
      <3>4. Max(s) \in D /\ seq[Max(s)].n \in Nat
        BY <1>1, <3>1
      <3>5. g[s] = g[s \ {Max(s)}] + seq[Max(s)].n
        BY <2>2
      <3> QED
        BY <3>3, <3>4, <3>5
    <2>5. \A k \in Nat : k \in S
      <3> HIDE DEF S
      <3> QED
        BY <2>3, <2>4, Induction
    <2>6. \A s \in SUBSET D : g[s] \in Nat
      BY <2>1, <2>5
    <2>7. g = [s \in SUBSET D |-> g[s]]
      BY <2>2, <1>1 DEF Summed
    <2> QED
      BY <2>6, <2>7
  <1> QED
    BY <1>1, <1>7, <1>8

\* One more region adds its size.
LEMMA GivenOnAppend ==
  ASSUME StaticAllocConstants, NEW seq \in Seq(Regions), NEW r \in Regions
  PROVE  LET more == Append(seq, r)
         IN  SumsOf(more)[DOMAIN more] = SumsOf(seq)[DOMAIN seq] + r.n
  <1> DEFINE n == Len(seq)
             more == Append(seq, r)
             f == SumsOf(seq)
             g == SumsOf(more)
             S == {k \in Nat : k <= n => f[1 .. k] = g[1 .. k]}
  <1>1. /\ n \in Nat /\ DOMAIN seq = 1 .. n /\ DOMAIN more = 1 .. (n + 1)
        /\ more \in Seq(Regions) /\ more[n + 1] = r /\ \A i \in 1 .. n : more[i] = seq[i]
    OBVIOUS
  <1>2. f = Summed(seq, f) /\ g = Summed(more, g)
    BY <1>1, SumIsDefined
  <1> HIDE DEF more, f, g
  <1>3. /\ \A k \in 1 .. n : f[1 .. k] = f[1 .. (k - 1)] + seq[k].n
        /\ \A k \in 1 .. (n + 1) : g[1 .. k] = g[1 .. (k - 1)] + more[k].n
        /\ f[1 .. 0] = 0 /\ g[1 .. 0] = 0
    <2>1. ASSUME NEW q, NEW h, NEW m \in Nat, DOMAIN q = 1 .. m, h = Summed(q, h), NEW k \in 1 .. m
          PROVE  h[1 .. k] = h[1 .. (k - 1)] + q[k].n
      <3>1. Max(1 .. k) = k /\ (1 .. k) \ {k} = 1 .. (k - 1)
        BY MaxOfUpto
      <3>2. k \in 1 .. k /\ \A x \in 1 .. k : x \in 1 .. m
        OBVIOUS
      <3>4. 1 .. k \in SUBSET DOMAIN q /\ 1 .. k # {}
        BY <2>1, <3>2
      <3>3. h[1 .. k] = h[(1 .. k) \ {Max(1 .. k)}] + q[Max(1 .. k)].n
        BY <2>1, <3>4 DEF Summed
      <3> QED
        BY <3>1, <3>3
    <2>2. ASSUME NEW q, NEW h, h = Summed(q, h)
          PROVE  h[1 .. 0] = 0
      <3>1. 1 .. 0 = {}
        OBVIOUS
      <3> QED
        BY <2>2, <3>1 DEF Summed
    <2>3. f[1 .. 0] = 0 /\ g[1 .. 0] = 0
      BY <1>2, <2>2
    <2>4. \A k \in 1 .. n : f[1 .. k] = f[1 .. (k - 1)] + seq[k].n
      BY <1>1, <1>2, <2>1
    <2>5. \A k \in 1 .. (n + 1) : g[1 .. k] = g[1 .. (k - 1)] + more[k].n
      <3>1. n + 1 \in Nat
        BY <1>1
      <3> QED
        BY <1>1, <1>2, <2>1, <3>1
    <2> QED
      BY <2>3, <2>4, <2>5
  <1>4. \A k \in Nat : k \in S
    <2>1. 0 \in S
      BY <1>3
    <2>2. ASSUME NEW k \in Nat, k \in S
          PROVE  k + 1 \in S
      <3> SUFFICES ASSUME k + 1 <= n
                   PROVE  f[1 .. (k + 1)] = g[1 .. (k + 1)]
        OBVIOUS
      <3>1. f[1 .. k] = g[1 .. k]
        BY <1>1, <2>2
      <3>2. k + 1 \in 1 .. n /\ (k + 1) - 1 = k
        BY <1>1
      <3> QED
        BY <1>1, <1>3, <3>1, <3>2
    <2> HIDE DEF S
    <2> QED
      BY <2>1, <2>2, Induction
  <1>5. f[1 .. n] = g[1 .. n]
    BY <1>1, <1>4
  <1>6. g[1 .. (n + 1)] = g[1 .. n] + r.n
    <2>1. n + 1 \in 1 .. (n + 1) /\ (n + 1) - 1 = n
      BY <1>1
    <2> QED
      BY <1>1, <1>3, <2>1
  <1> QED
    BY <1>1, <1>5, <1>6 DEF f, g, more

Kept ==
  /\ StaticAllocConstants
  /\ undoing \in [Threads -> {0} \cup Sizes] /\ regions \in [Threads -> Seq(Regions)]

TotalFacts ==
  /\ Totals \in [SUBSET Threads -> Nat] /\ Totals = Totalled(Totals)
  /\ \A t \in Threads : Given(t) \in Nat /\ undoing[t] \in Nat

\* What the threads have is a number.
LEMMA TotalIsDefined == Kept /\ IsFiniteSet(Threads) => TotalFacts
  <1> SUFFICES ASSUME Kept, IsFiniteSet(Threads)
               PROVE  TotalFacts
    OBVIOUS
  <1> DEFINE D == Threads
             w == [s \in SUBSET D |-> IF s = {} THEN 0 ELSE Given(Picked(s)) + undoing[Picked(s)]]
             out == [s \in SUBSET D |-> s \ {Picked(s)}]
  <1>1. \A t \in Threads : Given(t) \in Nat /\ undoing[t] \in Nat
    <2> TAKE t \in Threads
    <2>1. regions[t] \in Seq(Regions) /\ undoing[t] \in {0} \cup Sizes
      BY DEF Kept
    <2>2. undoing[t] \in Nat
      <3>1. {0} \cup Sizes \subseteq Nat
        BY DEF Kept, StaticAllocConstants
      <3> QED
        BY <2>1, <3>1
    <2>3. SumsOf(regions[t])[DOMAIN regions[t]] \in Nat
      BY <2>1, SumIsDefined DEF Kept
    <2> QED
      BY <2>2, <2>3, GivenIsSum
  <1>2. \A s \in SUBSET D : s # {} => Picked(s) \in s
    BY DEF Picked
  <1>3. Weighs(D, w, out)
    BY <1>1, <1>2 DEF Weighs
  <1>4. Weighed(D, w, out)
    <2>1. IsFiniteSet(D)
      OBVIOUS
    <2> HIDE DEF D, w, out
    <2> QED
      BY <1>3, <2>1, SetRecursion
  <1>5. ASSUME NEW f, f = [s \in SUBSET D |-> IF s = {} THEN 0 ELSE w[s] + f[out[s]]]
        PROVE  f = Totalled(f)
    <2> SUFFICES ASSUME NEW s \in SUBSET D, s # {}
                 PROVE  f[s] = Given(Picked(s)) + undoing[Picked(s)] + f[s \ {Picked(s)}]
      BY <1>5 DEF Totalled
    <2>1. f[s] = w[s] + f[out[s]]
      BY <1>5
    <2> QED
      BY <2>1
  <1>6. Totals = Totalled(Totals)
    BY <1>4, <1>5 DEF Weighed, Totals
  <1>7. Totals \in [SUBSET Threads -> Nat]
    <2> DEFINE S == {k \in Nat : \A s \in SUBSET D : Cardinality(s) <= k => Totals[s] \in Nat}
    <2>1. \A s \in SUBSET D : IsFiniteSet(s) /\ Cardinality(s) \in Nat
      BY FS_Subset, FS_CardinalityType
    <2>0. DOMAIN Totals = SUBSET D
      BY <1>6 DEF Totalled
    <2>2. /\ \A s \in SUBSET D : s = {} => Totals[s] = 0
          /\ \A s \in SUBSET D : s # {} =>
               Totals[s] = Given(Picked(s)) + undoing[Picked(s)] + Totals[s \ {Picked(s)}]
      <3> DEFINE f == Totals
      <3>1. f = Totalled(f)
        BY <1>6
      <3> HIDE DEF f
      <3>2. /\ \A s \in SUBSET D : s = {} => f[s] = 0
            /\ \A s \in SUBSET D : s # {} =>
                 f[s] = Given(Picked(s)) + undoing[Picked(s)] + f[s \ {Picked(s)}]
        BY <3>1 DEF Totalled
      <3> QED
        BY <3>2 DEF f
    <2>3. 0 \in S
      <3>1. \A s \in SUBSET D : Cardinality(s) <= 0 => s = {}
        BY <2>1, FS_EmptySet
      <3> QED
        BY <2>2, <3>1
    <2>4. ASSUME NEW k \in Nat, k \in S
          PROVE  k + 1 \in S
      <3> SUFFICES ASSUME NEW s \in SUBSET D, Cardinality(s) <= k + 1
                   PROVE  Totals[s] \in Nat
        OBVIOUS
      <3> SUFFICES ASSUME s # {} PROVE Totals[s] \in Nat
        BY <2>2
      <3>1. Picked(s) \in s
        BY <1>2
      <3>2. Cardinality(s \ {Picked(s)}) = Cardinality(s) - 1
        BY <2>1, <3>1, FS_RemoveElement
      <3>3. Totals[s \ {Picked(s)}] \in Nat
        BY <2>1, <2>4, <3>2
      <3>4. Given(Picked(s)) \in Nat /\ undoing[Picked(s)] \in Nat
        BY <1>1, <3>1
      <3>5. Totals[s] = Given(Picked(s)) + undoing[Picked(s)] + Totals[s \ {Picked(s)}]
        BY <2>2
      <3> QED
        BY <3>3, <3>4, <3>5
    <2>5. \A k \in Nat : k \in S
      <3> HIDE DEF S
      <3> QED
        BY <2>3, <2>4, Induction
    <2>6. \A s \in SUBSET D : Totals[s] \in Nat
      BY <2>1, <2>5
    <2>7. Totals = [s \in SUBSET D |-> Totals[s]]
      BY <1>6, <2>0 DEF Totalled
    <2> QED
      BY <2>6, <2>7
  <1> QED
    BY <1>1, <1>6, <1>7 DEF TotalFacts

\* When one thread's part changes, so does the total.
LEMMA TotalFollows ==
  ASSUME Kept, Kept', IsFiniteSet(Threads), NEW t \in Threads, NEW d \in Int,
         Given(t)' + undoing'[t] = Given(t) + undoing[t] + d,
         \A u \in Threads : u # t => Given(u)' = Given(u) /\ undoing'[u] = undoing[u]
  PROVE  Totals[Threads]' = Totals[Threads] + d
  <1> DEFINE new == Totals'
             S == {k \in Nat : \A s \in SUBSET Threads : Cardinality(s) <= k =>
                                 new[s] = Totals[s] + (IF t \in s THEN d ELSE 0)}
  <1>1. \A s \in SUBSET Threads : IsFiniteSet(s) /\ Cardinality(s) \in Nat
    BY FS_Subset, FS_CardinalityType
  <1>2. /\ Totals \in [SUBSET Threads -> Nat]
        /\ \A s \in SUBSET Threads : s = {} => Totals[s] = 0
        /\ \A s \in SUBSET Threads : s # {} =>
             Totals[s] = Given(Picked(s)) + undoing[Picked(s)] + Totals[s \ {Picked(s)}]
        /\ \A u \in Threads : Given(u) \in Nat /\ undoing[u] \in Nat
    BY TotalIsDefined DEF Totalled, TotalFacts
  <1>3. /\ new \in [SUBSET Threads -> Nat]
        /\ \A s \in SUBSET Threads : s = {} => new[s] = 0
        /\ \A s \in SUBSET Threads : s # {} =>
             new[s] = Given(Picked(s))' + undoing'[Picked(s)] + new[s \ {Picked(s)}]
        /\ \A u \in Threads : Given(u)' \in Nat /\ undoing'[u] \in Nat
    <2>1. TotalFacts'
      BY TotalIsDefined, PTL
    <2> QED
      BY <2>1 DEF Totalled, TotalFacts
  <1>4. \A k \in Nat : k \in S
    <2>1. 0 \in S
      <3>1. \A s \in SUBSET Threads : Cardinality(s) <= 0 => s = {}
        BY <1>1, FS_EmptySet
      <3> QED
        BY <1>2, <1>3, <3>1
    <2>2. ASSUME NEW k \in Nat, k \in S
          PROVE  k + 1 \in S
      <3> SUFFICES ASSUME NEW s \in SUBSET Threads, Cardinality(s) <= k + 1
                   PROVE  new[s] = Totals[s] + (IF t \in s THEN d ELSE 0)
        OBVIOUS
      <3> SUFFICES ASSUME s # {} PROVE new[s] = Totals[s] + (IF t \in s THEN d ELSE 0)
        BY <1>2, <1>3
      <3> DEFINE x == Picked(s)
                 rest == s \ {x}
      <3>1. x \in s
        BY DEF Picked
      <3>2. Cardinality(rest) = Cardinality(s) - 1 /\ rest \in SUBSET Threads
        BY <1>1, <3>1, FS_RemoveElement
      <3>3. new[rest] = Totals[rest] + (IF t \in rest THEN d ELSE 0)
        BY <1>1, <2>2, <3>2
      <3>4. /\ Totals[s] = Given(x) + undoing[x] + Totals[rest]
            /\ new[s] = Given(x)' + undoing'[x] + new[rest]
        BY <1>2, <1>3
      <3>5. /\ Totals[rest] \in Nat /\ Given(x) \in Nat /\ undoing[x] \in Nat
            /\ Given(x)' \in Nat /\ undoing'[x] \in Nat
        BY <1>2, <1>3, <3>1, <3>2
      <3> HIDE DEF new, S, x
      <3>6. CASE x = t
        BY <3>1, <3>3, <3>4, <3>5, <3>6
      <3>7. CASE x # t
        BY <3>1, <3>3, <3>4, <3>5, <3>7
      <3> QED
        BY <3>6, <3>7
    <2> HIDE DEF S
    <2> QED
      BY <2>1, <2>2, Induction
  <1>5. new[Threads] = Totals[Threads] + d
    BY <1>1, <1>4
  <1> QED
    BY <1>5

\* top is the sum of what the threads have, and requests that fail cost
\* nothing in the end, whatever the threads, the sizes and the buffer.
THEOREM TopIsAlwaysAccounted ==
  ASSUME StaticAllocConstants, IsFiniteSet(Threads)
  PROVE  Spec => []TopIsAccounted
  <1> DEFINE I == Kept /\ top \in Nat /\ TopIsAccounted
  <1>1. Init => I
    <2> SUFFICES ASSUME Init PROVE I
      OBVIOUS
    <2>1. Kept /\ top \in Nat
      <3>1. regions \in [Threads -> Seq(Regions)]
        BY DEF Init
      <3> QED
        BY <3>1 DEF Init, Kept
    <2>2. \A t \in Threads : Given(t) = 0 /\ undoing[t] = 0
      <3> TAKE t \in Threads
      <3>1. regions[t] = <<>> /\ undoing[t] = 0
        BY DEF Init
      <3>2. SumsOf(<<>>) = Summed(<<>>, SumsOf(<<>>)) /\ DOMAIN (<<>>) = {}
        <4> DEFINE e == <<>>
        <4>1. e \in Seq(Regions) /\ DOMAIN e = {}
          OBVIOUS
        <4> HIDE DEF e
        <4>2. SumsOf(e) = Summed(e, SumsOf(e))
          BY <4>1, SumIsDefined
        <4> QED
          BY <4>1, <4>2 DEF e
      <3>3. SumsOf(<<>>)[{}] = 0
        <4> DEFINE f == SumsOf(<<>>)
        <4>1. f = Summed(<<>>, f)
          BY <3>2
        <4> HIDE DEF f
        <4>2. f[{}] = 0
          BY <3>2, <4>1 DEF Summed
        <4> QED
          BY <4>2 DEF f
      <3> QED
        BY <3>1, <3>2, <3>3, GivenIsSum
    <2>3. Totals[Threads] = 0
      <3> DEFINE f == Totals
                 S == {k \in Nat : \A s \in SUBSET Threads : Cardinality(s) <= k => f[s] = 0}
      <3>1. f = Totalled(f)
        BY <2>1, TotalIsDefined DEF TotalFacts
      <3>2. \A s \in SUBSET Threads : IsFiniteSet(s) /\ Cardinality(s) \in Nat
        BY FS_Subset, FS_CardinalityType
      <3> HIDE DEF f
      <3>3. 0 \in S
        <4>1. \A s \in SUBSET Threads : Cardinality(s) <= 0 => s = {}
          BY <3>2, FS_EmptySet
        <4> QED
          BY <3>1, <4>1 DEF Totalled
      <3>4. ASSUME NEW k \in Nat, k \in S
            PROVE  k + 1 \in S
        <4> SUFFICES ASSUME NEW s \in SUBSET Threads, Cardinality(s) <= k + 1
                     PROVE  f[s] = 0
          OBVIOUS
        <4> SUFFICES ASSUME s # {} PROVE f[s] = 0
          BY <3>1 DEF Totalled
        <4>1. Picked(s) \in s
          BY DEF Picked
        <4>2. Cardinality(s \ {Picked(s)}) = Cardinality(s) - 1 /\ s \ {Picked(s)} \in SUBSET Threads
          BY <3>2, <4>1, FS_RemoveElement
        <4>3. f[s \ {Picked(s)}] = 0
          BY <3>2, <3>4, <4>2
        <4>4. f[s] = Given(Picked(s)) + undoing[Picked(s)] + f[s \ {Picked(s)}]
          BY <3>1 DEF Totalled
        <4> QED
          BY <2>2, <4>1, <4>3, <4>4
      <3>5. \A k \in Nat : k \in S
        <4> HIDE DEF S
        <4> QED
          BY <3>3, <3>4, Induction
      <3>6. f[Threads] = 0
        BY <3>2, <3>5
      <3> QED
        BY <3>6 DEF f
    <2> QED
      BY <2>1, <2>3, TopIsTotal DEF Init
  <1>2. I /\ [Next]_vars => I'
    <2> SUFFICES ASSUME I, [Next]_vars PROVE I'
      OBVIOUS
    <2>1. /\ TopIsAccounted' <=> (top = Totals[Threads])'
          /\ Kept' /\ IsFiniteSet(Threads) => TotalFacts'
      BY TopIsTotal, TotalIsDefined, PTL
    <2>2. top = Totals[Threads] /\ TotalFacts /\ Kept
      BY TopIsTotal, TotalIsDefined 
    <2>3. ASSUME NEW u \in Threads, regions'[u] = regions[u]
          PROVE  Given(u)' = Given(u)
      <3>1. Given(u)' = SumsOf(regions'[u])[DOMAIN regions'[u]]
        BY DEF Given, FoldLeft, MapThenFoldSet, SumsOf, Summed
      <3> QED
        BY <2>3, <3>1, GivenIsSum
    <2>4. ASSUME Kept', NEW t \in Threads, NEW d \in Int, top' = top + d,
                 Given(t)' + undoing'[t] = Given(t) + undoing[t] + d,
                 \A u \in Threads : u # t => Given(u)' = Given(u) /\ undoing'[u] = undoing[u]
          PROVE  I'
      <3>1. Totals[Threads]' = Totals[Threads] + d
        BY <2>2, <2>4, TotalFollows
      <3>2. TopIsAccounted'
        BY <2>1, <2>2, <2>4, <3>1
      <3>3. top' \in Nat
        <4>1. TotalFacts' /\ top' = Totals'[Threads]
          BY <2>1, <2>2, <2>4, <3>1
        <4> QED
          BY <4>1 DEF TotalFacts
      <3> QED
        BY <2>4, <3>2, <3>3 
    <2>5. ASSUME NEW t \in Threads, Undo(t)
          PROVE  I'
      <3> DEFINE n == undoing[t]
      <3>1. /\ n \in Sizes /\ top' = top - n /\ regions' = regions
            /\ undoing' = [undoing EXCEPT ![t] = 0]
        BY <2>5 DEF Undo, Lowered, Kept
      <3>2. n \in Int /\ 0 - n \in Int /\ top \in Int
        <4>1. n \in Nat
          BY <3>1 DEF StaticAllocConstants
        <4>2. top \in Nat
          BY DEF Kept
        <4> HIDE DEF n
        <4> QED
          BY <4>1, <4>2
      <3>3. Kept' /\ \A u \in Threads : Given(u)' = Given(u)
        BY <2>2, <2>3, <3>1 DEF Kept
      <3>4. undoing'[t] = 0 /\ \A u \in Threads : u # t => undoing'[u] = undoing[u]
        BY <3>1 DEF Kept
      <3>5. Given(t) \in Int
        BY <2>2 DEF TotalFacts
      <3>6. top' = top + (0 - n) /\ Given(t)' + undoing'[t] = Given(t) + n + (0 - n)
        BY <3>1, <3>2, <3>3, <3>4, <3>5
      <3> QED
        BY <2>4, <3>2, <3>3, <3>4, <3>6
    <2>6. ASSUME NEW t \in Threads, NEW n \in Sizes, Malloc(t, n), Fits(n)
          PROVE  I'
      <3> DEFINE r == [from |-> top, n |-> n]
      <3>1. /\ top' = top + n /\ undoing' = undoing
            /\ regions' = [regions EXCEPT ![t] = Append(@, r)]
        BY <2>6 DEF Malloc, Bumped
      <3>2. n \in Int /\ top \in Nat /\ r \in Regions
        BY <2>6 DEF StaticAllocConstants, Regions, Fits
      <3>3. /\ regions[t] \in Seq(Regions) /\ regions'[t] = Append(regions[t], r)
            /\ \A u \in Threads : u # t => regions'[u] = regions[u]
        BY <3>1 DEF Kept
      <3>4. Kept'
        BY <2>2, <3>1, <3>2, <3>3 DEF Kept
      <3>5. Given(t)' = Given(t) + n
        <4>1. Given(t)' = SumsOf(regions'[t])[DOMAIN regions'[t]]
          BY DEF Given, FoldLeft, MapThenFoldSet, SumsOf, Summed
        <4>2. SumsOf(regions'[t])[DOMAIN regions'[t]] = SumsOf(regions[t])[DOMAIN regions[t]] + r.n
          BY <3>2, <3>3, GivenOnAppend
        <4> QED
          BY <4>1, <4>2, GivenIsSum
      <3>6. \A u \in Threads : u # t => Given(u)' = Given(u)
        BY <2>3, <3>3
      <3>7. Given(t) \in Int /\ undoing[t] \in Int
        BY <2>2 DEF TotalFacts
      <3>8. Given(t)' + undoing'[t] = Given(t) + undoing[t] + n
        BY <3>1, <3>2, <3>5, <3>7
      <3> QED
        BY <2>4, <3>1, <3>2, <3>4, <3>6, <3>8
    <2>7. ASSUME NEW t \in Threads, NEW n \in Sizes, Malloc(t, n), ~Fits(n)
          PROVE  I'
      <3>1. /\ top' = top + n /\ regions' = regions /\ undoing[t] = 0
            /\ undoing' = [undoing EXCEPT ![t] = n]
        BY <2>7 DEF Malloc, Bumped
      <3>2. n \in Int
        BY DEF StaticAllocConstants
      <3>3. Kept' /\ \A u \in Threads : Given(u)' = Given(u)
        BY <2>2, <2>3, <3>1 DEF Kept
      <3>4. undoing'[t] = n /\ \A u \in Threads : u # t => undoing'[u] = undoing[u]
        BY <3>1 DEF Kept
      <3>5. Given(t) \in Int
        BY <2>2 DEF TotalFacts
      <3>6. Given(t)' + undoing'[t] = Given(t) + undoing[t] + n
        BY <3>1, <3>2, <3>3, <3>4, <3>5
      <3> QED
        BY <2>4, <3>1, <3>2, <3>3, <3>4, <3>6
    <2>8. CASE UNCHANGED vars
      <3>1. Kept' /\ top' = top
        BY <2>2, <2>8 DEF vars, Kept
      <3>2. \A u \in Threads : Given(u)' = Given(u) /\ undoing'[u] = undoing[u]
        BY <2>8, <2>3 DEF vars
      <3>3. ASSUME NEW t \in Threads
            PROVE  I'
        <4>1. Given(t)' + undoing'[t] = Given(t) + undoing[t] + 0 /\ top' = top + 0
          BY <2>2, <3>1, <3>2 DEF TotalFacts
        <4> QED
          BY <2>4, <3>1, <3>2, <4>1
      <3>4. CASE Threads = {}
        <4>1. Totals[{}] = 0 /\ Totals[{}]' = 0
          BY <2>1, <2>2, <3>1 DEF TotalFacts, Totalled
        <4> QED
          BY <2>1, <2>2, <3>1, <3>4, <4>1
      <3> QED
        BY <3>3, <3>4
    <2> QED
      BY <2>5, <2>6, <2>7, <2>8 DEF Next
  <1> QED
    BY <1>1, <1>2, PTL DEF Spec
=============================================================================
