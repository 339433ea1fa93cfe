----------------------------- MODULE BTreeProofs -----------------------------
(***************************************************************************)
(* Proofs about the table B-tree, second part: what is below each page,    *)
(* insertions and deletions, the cursor, and the theorems.                 *)
(*                                                                         *)
(* Between the steps of a split TreeInv is all there is.  Between calls    *)
(* the recursive definitions of the model (the path to a rowid, the        *)
(* search, the rows and pages below a page) have values that TreeInv       *)
(* determines, and with them each call is shown to do what the ordered     *)
(* map's does.  CursorInv, that the stack of a valid cursor leads from the *)
(* root to the cell of its key, is kept with TreeInv.                      *)
(***************************************************************************)
EXTENDS BTreeShapeProofs

-----------------------------------------------------------------------------
\* The pages of the tree

ChainsOf(p) == [i \in DOMAIN pages[p].cells |-> ChainFrom[pages[p].cells[i].page]]

WalkGathers ==
  \A p \in DOMAIN pages :
    /\ pages[p].kind # "interior" => Walk[p] = <<p>> \o FlattenSeq(ChainsOf(p))
    /\ pages[p].kind = "interior" => Walk[p] = <<p>> \o FlattenSeq(Under(Walk, p))

WalkGathering(walk) ==
  [p \in DOMAIN pages |->
     LET pg == pages[p]
     IN  <<p>> \o (IF pg.kind # "interior"
                   THEN FlattenSeq([i \in DOMAIN pg.cells |-> ChainFrom[pg.cells[i].page]])
                   ELSE FlattenSeq([i \in 1 .. Len(pg.cells) + 1 |-> walk[Child(pg, i)]]))]

\* The chains of the cells of a leaf are those of its rows.
LeafChains(head, p) ==
  /\ ChainsOf(p) \in Seq(Seq(Nat)) /\ Len(ChainsOf(p)) = Len(pages[p].cells)
  /\ \A i \in 1 .. Len(pages[p].cells) :
       LET r == pages[p].cells[i].key
       IN  r \in rows /\ IsDown(ChainsOf(p)[i], head[r], Payload[r].chain)

\* The chains of a leaf's cells are those of its rows.
LEMMA LeafHasChains ==
  ASSUME ArePages, ChainGathers, rows \subseteq Rowids, NEW t, NEW head, AreChains(head),
         NEW p, IsLeaf(t, rows, head, p)
  PROVE  LeafChains(head, p)
  <1> DEFINE cells == pages[p].cells
  <1>1. PICK n \in Nat : n = Len(cells) /\ cells \in Seq(CellRecords) /\ DOMAIN cells = 1 .. n
    BY DEF IsLeaf
  <1>2. ASSUME NEW i \in 1 .. n
        PROVE  /\ cells[i].key \in rows
               /\ IsDown(ChainFrom[cells[i].page], head[cells[i].key], Payload[cells[i].key].chain)
    <2>1. cells[i].key \in rows
      <3>1. t[p].keys[i] \in rows /\ t[p].keys[i] = cells[i].key
        <4>1. i \in DOMAIN t[p].keys
          BY <1>1 DEF IsLeaf, KeysAre, IsNodeData
        <4> QED
          BY <1>1, <4>1 DEF IsLeaf, HasRows, KeysAre
      <3> QED
        BY <3>1
    <2>2. PICK r \in rows : r = cells[i].key
      BY <2>1
    <2>3. cells[i].page = head[r]
      BY <1>1, <2>2 DEF IsLeaf, HeadsAre
    <2>4. head[r] \in Nat /\ IsChain(r, head[r]) /\ r \in Rowids
      BY DEF AreChains
    <2>5. IsDown(ChainFrom[head[r]], head[r], Payload[r].chain)
      BY <2>4, ChainIs
    <2> QED
      BY <2>2, <2>3, <2>5
  <1>3. ChainsOf(p) = [i \in 1 .. n |-> ChainFrom[cells[i].page]]
    BY <1>1 DEF ChainsOf
  <1> HIDE DEF cells
  <1>4. \A i \in 1 .. n : ChainFrom[cells[i].page] \in Seq(Nat)
    BY <1>2 DEF IsDown
  <1>5. ChainsOf(p) \in Seq(Seq(Nat)) /\ Len(ChainsOf(p)) = n
    <2> DEFINE V == Seq(Nat)
    <2>1. \A i \in 1 .. n : ChainFrom[cells[i].page] \in V
      BY <1>4
    <2> HIDE DEF V
    <2>2. ChainsOf(p) \in Seq(V) /\ Len(ChainsOf(p)) = n
      BY <1>3, <2>1
    <2> QED
      BY <2>2 DEF V
  <1>6. \A i \in 1 .. n : ChainsOf(p)[i] = ChainFrom[cells[i].page]
    BY <1>3
  <1> QED
    BY <1>1, <1>2, <1>5, <1>6 DEF LeafChains, cells

\* The pages below a page are it and those below its children.
LEMMA PagesAreBelow ==
  ASSUME ArePages, ChainGathers, rows \subseteq Rowids, NEW t, NEW head, IsTree(t, rows), Leads(t),
         DOMAIN t \subseteq DOMAIN pages, AreChains(head), Settled(t, rows, head)
  PROVE  WalkGathers
  <1> DEFINE V == Seq(Nat)
             base == [p \in DOMAIN pages |-> IF p \in DOMAIN t /\ t[p].lev > 0 THEN <<>>
                                             ELSE <<p>> \o FlattenSeq(ChainsOf(p))]
             K == Seq(V)
             D == DOMAIN pages
             join == [ps \in D \X K |-> <<ps[1]>> \o FlattenSeq(ps[2])]
  <1>1. V # {}
    BY EmptySeq
  <1>2. ASSUME NEW p \in DOMAIN pages
        PROVE  /\ Len(pages[p].cells) \in Nat /\ p \in Nat
               /\ \A s \in [1 .. Len(pages[p].cells) + 1 -> V] : s \in Seq(V)
    <2>1. Len(pages[p].cells) \in Nat /\ p \in Nat
      BY PageTypes
    <2>2. \A s \in [1 .. Len(pages[p].cells) + 1 -> V] : s \in Seq(V)
      <3> HIDE DEF V
      <3> QED
        BY <2>1
    <2> QED
      BY <2>1, <2>2
  <1>3. \A s \in Seq(V) : FlattenSeq(s) \in V
    BY Flattened DEF IsFlat
  <1>4. \A p \in DOMAIN pages : \A s \in V : <<p>> \o s \in V
    BY <1>2, LongerInNat
  <1>5. ASSUME NEW p \in DOMAIN t
        PROVE  base[p] \in V
    <2>1. CASE t[p].lev > 0
      BY <2>1
    <2>2. CASE ~(t[p].lev > 0)
      <3>1. t[p].lev = 0
        BY <2>2 DEF IsTree, IsNode, IsNodeData
      <3>2. ChainsOf(p) \in K /\ p \in D
        BY <3>1, LeafHasChains DEF Settled, LeafChains
      <3>3. base[p] = <<p>> \o FlattenSeq(ChainsOf(p))
        BY <2>2, <3>2
      <3> HIDE DEF V, base
      <3> QED
        BY <1>3, <1>4, <3>2, <3>3
    <2> QED
      BY <2>1, <2>2
  <1>6. IsGathering(t, V, base, join)
    <2>1. ASSUME NEW p \in DOMAIN t, NEW s \in [1 .. Len(pages[p].cells) + 1 -> V]
          PROVE  join[<<p, s>>] \in V
      <3>1. p \in D /\ s \in K
        BY <1>2
      <3>2. join[<<p, s>>] = <<p>> \o FlattenSeq(s)
        <4> HIDE DEF V, K, D
        <4> QED
          BY <3>1
      <3> HIDE DEF V, join
      <3> QED
        BY <1>3, <1>4, <3>1, <3>2
    <2> HIDE DEF V, base, join
    <2> QED
      BY <1>1, <1>5, <2>1 DEF IsGathering
  <1>7. PICK f : f = Gathering(base, join, f) /\ \A p \in DOMAIN t : f[p] \in V
    <2> HIDE DEF V, base, join
    <2> QED
      BY <1>6, Gathers DEF Gathered
  <1>8. f = WalkGathering(f)
    <2>1. ASSUME NEW p \in DOMAIN pages, pages[p].kind = "interior"
          PROVE  join[<<p, Under(f, p)>>] = <<p>> \o FlattenSeq(Under(f, p))
      <3> DEFINE u == Under(f, p)
      <3>1. u \in K
        <4> HIDE DEF V
        <4> QED
          BY <1>2, <1>7, <2>1, UnderTypes
      <3>2. p \in D
        OBVIOUS
      <3> HIDE DEF V, K, D, u
      <3>3. join[<<p, u>>] = <<p>> \o FlattenSeq(u)
        BY <3>1, <3>2
      <3> HIDE DEF join
      <3> QED
        BY <3>3 DEF u
    <2>2. ASSUME NEW p \in DOMAIN pages, pages[p].kind # "interior"
          PROVE  base[p] = <<p>> \o FlattenSeq(ChainsOf(p))
      BY <2>2 DEF Settled, IsInner
    <2> HIDE DEF join, V, base
    <2> QED
      BY <1>7, <2>1, <2>2 DEF Gathering, WalkGathering, Under, ChainsOf
  <1>9. Walk = WalkGathering(Walk)
    <2>1. Walk = CHOOSE g : g = WalkGathering(g)
      BY DEF Walk, WalkGathering
    <2>2. \E g : g = WalkGathering(g)
      BY <1>8
    <2> HIDE DEF V, join, base
    <2> QED
      BY <2>1, <2>2
  <1> QED
    BY <1>9 DEF WalkGathering, WalkGathers, Under, ChainsOf

-----------------------------------------------------------------------------
\* What the recursions give between calls

AtRest(t, head) ==
  /\ ArePages /\ rows \subseteq Rowids /\ IsTree(t, rows) /\ Hold(t, head) /\ AreChains(head)
  /\ Settled(t, rows, head) /\ Leads(t) /\ DOMAIN t = InTree /\ call = Idle /\ Todo = <<>>
  /\ KeysGather /\ DepthsGather /\ ChainGathers /\ WalkGathers

\* Between calls all of this holds of some tree.
LEMMA TreeAtRest ==
  ASSUME TreeInv, call = Idle
  PROVE  \E t, head : AtRest(t, head)
  <1>1. PICK t, head : Represents(t, head)
    BY DEF TreeInv
  <1>2. ArePages /\ rows \subseteq Rowids /\ IsTree(t, rows) /\ Hold(t, head) /\ AreChains(head)
    BY <1>1 DEF TreeInv, Represents
  <1>3. call.op # "split" /\ Todo = <<>>
    BY DEF Idle, Todo
  <1>4. Leads(t) /\ DOMAIN t \subseteq DOMAIN pages /\ DOMAIN t = InTree
    <2>1. Leads(t) /\ DOMAIN t \subseteq DOMAIN pages
      BY <1>2, <1>3, TreeLeads
    <2> QED
      BY <1>2, <2>1 DEF Hold
  <1>5. Settled(t, rows, head)
    BY <1>2, <1>3, IsSettled
  <1>6. KeysGather
    BY <1>2, <1>4, KeysAreBelow
  <1>7. DepthsGather
    BY <1>2, <1>4, DepthsAreBelow
  <1>8. ChainGathers
    BY <1>2, <1>4, ChainIsFollowed
  <1>9. WalkGathers
    BY <1>2, <1>4, <1>5, <1>8, PagesAreBelow
  <1>10. AtRest(t, head)
    BY <1>2, <1>3, <1>4, <1>5, <1>6, <1>7, <1>8, <1>9 DEF AtRest
  <1> QED
    BY <1>10

\* The slices of a node are in order.
LEMMA SlicesInOrder ==
  ASSUME NEW n, IsNodeData(n), NEW i \in 1 .. Len(n.keys) + 1, NEW j \in 1 .. Len(n.keys) + 1, i < j,
         NEW a \in Slice(n.rng, n.keys, i), NEW b \in Slice(n.rng, n.keys, j)
  PROVE  a < b /\ a \in Nat /\ b \in Nat
  <1> DEFINE k == n.keys
             h == j - 1
  <1>1. k \in Seq(Nat) /\ Sorted(k) /\ Len(k) \in Nat /\ a \in Nat /\ b \in Nat
    BY DEF IsNodeData, Slice
  <1>2. i \in 1 .. Len(k) /\ h \in 1 .. Len(k) /\ i <= h /\ j > 1
    BY <1>1
  <1>3. a < k[i] /\ k[h] <= b
    BY <1>2 DEF Slice
  <1> HIDE DEF k, h
  <1>4. k[i] \in Nat /\ k[h] \in Nat /\ k[i] <= k[h]
    <2>1. k[i] \in Nat /\ k[h] \in Nat /\ (i < h <=> k[i] < k[h])
      BY <1>1, <1>2, KeyOrder
    <2>2. i = h => k[i] = k[h]
      OBVIOUS
    <2> QED
      BY <1>1, <1>2, <2>1, <2>2
  <1> QED
    BY <1>1, <1>3, <1>4

\* The slices of an inner page are all it is responsible for.
LEMMA SlicesAreAll ==
  ASSUME NEW t, NEW p, IsInner(t, p), NEW r \in t[p].rng
  PROVE  \E i \in 1 .. Len(pages[p].cells) + 1 : r \in Slice(t[p].rng, t[p].keys, i)
  <1> DEFINE cells == pages[p].cells
             i == Place(cells, r)
  <1>1. IsNodeData(t[p]) /\ cells \in Seq(CellRecords) /\ KeysAre(t[p].keys, cells)
    BY DEF IsInner
  <1>2. /\ i \in 1 .. Len(cells) + 1
        /\ i <= Len(cells) /\ t[p].keys[i] = r => r \in Slice(t[p].rng, t[p].keys, i + 1)
        /\ ~(i <= Len(cells) /\ t[p].keys[i] = r) => r \in Slice(t[p].rng, t[p].keys, i)
    <2> HIDE DEF cells
    <2> QED
      BY <1>1, SliceFor
  <1>3. Len(cells) \in Nat
    BY DEF IsInner
  <1> HIDE DEF i
  <1>4. CASE i <= Len(cells) /\ t[p].keys[i] = r
    <2>1. i + 1 \in 1 .. Len(cells) + 1
      BY <1>2, <1>3, <1>4
    <2> QED
      BY <1>2, <1>4, <2>1
  <1> QED
    BY <1>2, <1>4

Less == {ab \in Nat \X Nat : ab[1] < ab[2]}

KeysRight(t, p) ==
  /\ KeysBelow[p] \in Seq(Nat) /\ Ordered(KeysBelow[p], Less)
  /\ \A e : Has(KeysBelow[p], e) <=> e \in rows /\ e \in t[p].rng

\* The keys below a page are the rows it is responsible for.
LEMMA KeysBelowAre ==
  ASSUME NEW t, NEW head, AtRest(t, head)
  PROVE  \A p \in DOMAIN t : KeysRight(t, p)
  <1> DEFINE S == {p \in DOMAIN t : KeysRight(t, p)}
  <1>1. ASSUME NEW p \in DOMAIN t, t[p].lev > 0 => \A i \in 1 .. Len(t[p].kids) : t[p].kids[i] \in S
        PROVE  p \in S
    <2>1. CASE t[p].lev = 0
      <3>1. IsLeaf(t, rows, head, p)
        BY <2>1 DEF AtRest, Settled
      <3>2. PICK n \in Nat : n = Len(pages[p].cells) /\ DOMAIN pages[p].cells = 1 .. n
        BY <3>1 DEF IsLeaf
      <3> DEFINE k == t[p].keys
                 g == KeysBelow[p]
      <3>3. /\ k \in Seq(Nat) /\ Sorted(k) /\ Len(k) = n /\ t[p].rng \subseteq Nat
            /\ \A i \in 1 .. n : k[i] = pages[p].cells[i].key /\ k[i] \in Nat /\ k[i] \in t[p].rng
        BY <3>1, <3>2 DEF IsLeaf, IsNodeData, KeysAre
      <3>4. g = [i \in 1 .. n |-> pages[p].cells[i].key]
        BY <3>1, <3>2 DEF AtRest, KeysGather, IsLeaf
      <3>5. g \in Seq(Nat) /\ Len(g) = n /\ \A i \in 1 .. n : g[i] = k[i]
        <4> HIDE DEF g, k
        <4>1. \A i \in 1 .. n : pages[p].cells[i].key \in Nat
          BY <3>3
        <4>2. g \in Seq(Nat) /\ Len(g) = n
          BY <3>4, <4>1
        <4> QED
          BY <3>3, <3>4, <4>2
      <3>6. DOMAIN k = 1 .. n /\ HasRows(t[p], rows)
        BY <3>1, <3>3 DEF IsLeaf
      <3> HIDE DEF g
      <3>7. Ordered(g, Less)
        <4>1. \A x, y \in 1 .. n : x < y => k[x] < k[y]
          BY <3>3, <3>6 DEF Sorted
        <4> HIDE DEF k
        <4> QED
          BY <3>3, <3>5, <4>1 DEF Ordered, Less
      <3>8. ASSUME NEW e
            PROVE  Has(g, e) <=> e \in rows /\ e \in t[p].rng
        <4>1. \A i \in 1 .. n : k[i] \in rows
          BY <3>6 DEF HasRows
        <4>2. e \in rows /\ e \in t[p].rng => \E i \in 1 .. n : k[i] = e
          BY <3>6 DEF HasRows
        <4> HIDE DEF k
        <4> QED
          BY <3>3, <3>5, <4>1, <4>2 DEF Has
      <3> QED
        BY <3>5, <3>7, <3>8 DEF KeysRight, g
    <2>2. CASE t[p].lev > 0
      <3>1. IsInner(t, p)
        BY <2>2 DEF AtRest, Settled
      <3>2. PICK n \in Nat : n = Len(pages[p].cells) /\ n + 1 \in Nat
        BY <3>1 DEF IsInner
      <3> DEFINE k == t[p].keys
                 u == Under(KeysBelow, p)
                 g == KeysBelow[p]
                 c(i) == Child(pages[p], i)
      <3>3. /\ IsNodeData(t[p]) /\ Len(k) = n /\ Len(t[p].kids) = n + 1
            /\ \A i \in 1 .. n + 1 : c(i) = t[p].kids[i] /\ c(i) \in DOMAIN t
                 /\ t[c(i)].rng = Slice(t[p].rng, k, i)
        BY <3>1, <3>2 DEF IsInner, KeysAre
      <3>4. \A i \in 1 .. n + 1 : KeysRight(t, c(i))
        <4> HIDE DEF c
        <4> QED
          BY <1>1, <2>2, <3>3
      <3>5. \A i \in 1 .. n + 1 : u[i] = KeysBelow[c(i)]
        BY <3>2 DEF Under
      <3>6. u \in Seq(Seq(Nat)) /\ Len(u) = n + 1
        <4> DEFINE V == Seq(Nat)
        <4>1. u = [i \in 1 .. n + 1 |-> KeysBelow[c(i)]]
          BY <3>2 DEF Under
        <4>2. \A i \in 1 .. n + 1 : KeysBelow[c(i)] \in V
          BY <3>4 DEF KeysRight
        <4> HIDE DEF V, c, u
        <4>3. u \in Seq(V) /\ Len(u) = n + 1
          BY <3>2, <4>1, <4>2
        <4> QED
          BY <4>3 DEF V
      <3>7. g = FlattenSeq(u)
        BY <3>1 DEF AtRest, KeysGather, IsInner
      <3>8. IsFlat(Nat, u, n + 1, g)
        <4> HIDE DEF u, g, c
        <4>1. IsFlat(Nat, u, Len(u), FlattenSeq(u))
          BY <3>6, Flattened
        <4> QED
          BY <3>6, <3>7, <4>1
      <3> HIDE DEF c, u, g
      <3>9. g \in Seq(Nat)
        BY <3>8 DEF IsFlat
      <3>10. ASSUME NEW i \in 1 .. n + 1
             PROVE  /\ u[i] \in Seq(Nat) /\ Ordered(u[i], Less)
                    /\ \A e : Has(u[i], e) <=> e \in rows /\ e \in Slice(t[p].rng, k, i)
        BY <3>3, <3>4, <3>5 DEF KeysRight
      <3>11. ASSUME NEW i \in 1 .. n + 1, NEW j \in 1 .. n + 1, i < j
             PROVE  Crosses(u[i], u[j], Less)
        <4> SUFFICES ASSUME NEW x \in 1 .. Len(u[i]), NEW y \in 1 .. Len(u[j])
                     PROVE  <<u[i][x], u[j][y]>> \in Less
          BY DEF Crosses
        <4>1. PICK a : a = u[i][x]
          OBVIOUS
        <4>2. PICK b : b = u[j][y]
          OBVIOUS
        <4>3. Has(u[i], a) /\ Has(u[j], b)
          BY <4>1, <4>2 DEF Has
        <4>4. a \in Slice(t[p].rng, k, i) /\ b \in Slice(t[p].rng, k, j)
          BY <3>10, <4>3
        <4>5. a < b /\ a \in Nat /\ b \in Nat
          BY <3>3, <3>11, <4>4, SlicesInOrder
        <4> QED
          BY <4>1, <4>2, <4>5 DEF Less
      <3>12. Ordered(g, Less)
        BY <3>8, <3>10, <3>11 DEF IsFlat
      <3>13. ASSUME NEW e
             PROVE  Has(g, e) <=> e \in rows /\ e \in t[p].rng
        <4>1. Has(g, e) <=> \E i \in 1 .. n + 1 : Has(u[i], e)
          BY <3>8 DEF IsFlat
        <4>2. e \in t[p].rng => \E i \in 1 .. n + 1 : e \in Slice(t[p].rng, k, i)
          BY <3>1, <3>2, SlicesAreAll
        <4>3. \A i : e \in Slice(t[p].rng, k, i) => e \in t[p].rng
          BY DEF Slice
        <4> QED
          BY <3>10, <4>1, <4>2, <4>3
      <3> QED
        BY <3>9, <3>12, <3>13 DEF KeysRight, g
    <2> QED
      BY <2>1, <2>2 DEF AtRest, IsTree, IsNode, IsNodeData
  <1>2. \A p \in DOMAIN t : p \in S
    <2> HIDE DEF S
    <2> QED
      BY <1>1, TreeInduction DEF AtRest
  <1> QED
    BY <1>2

Differ == {ab \in Nat \X Nat : ab[1] # ab[2]}

\* A page and then others.
IsLed(w, p, g) ==
  /\ w \in Seq(Nat) /\ \A e : Has(w, e) <=> e = p \/ Has(g, e)
  /\ Ordered(g, Differ) /\ ~Has(g, p) => Ordered(w, Differ)

\* A page before the pages below it.
LEMMA PageFirst ==
  ASSUME NEW p \in Nat, NEW g \in Seq(Nat)
  PROVE  IsLed(<<p>> \o g, p, g)
  <1> DEFINE a == <<p>>
             w == <<p>> \o g
  <1>1. a \in Seq(Nat) /\ Len(a) = 1 /\ a[1] = p
    OBVIOUS
  <1>2. IsJoined(Nat, w, a, g)
    <2> DEFINE N == Nat
    <2>1. a \in Seq(N) /\ g \in Seq(N)
      OBVIOUS
    <2> HIDE DEF N, a
    <2>2. IsJoined(N, a \o g, a, g)
      BY <2>1, Joined
    <2> QED
      BY <2>2 DEF N, a
  <1> HIDE DEF a, w
  <1>3. \A e : Has(a, e) <=> e = p
    BY <1>1 DEF Has
  <1>4. Ordered(a, Differ)
    BY <1>1 DEF Ordered
  <1>5. ASSUME ~Has(g, p)
        PROVE  Crosses(a, g, Differ)
    <2> SUFFICES ASSUME NEW x \in 1 .. Len(a), NEW y \in 1 .. Len(g)
                 PROVE  <<a[x], g[y]>> \in Differ
      BY DEF Crosses
    <2>1. a[x] = p /\ g[y] \in Nat /\ g[y] # p
      BY <1>1, <1>5 DEF Has
    <2> QED
      BY <2>1 DEF Differ
  <1>6. IsLed(w, p, g)
    BY <1>2, <1>3, <1>4, <1>5 DEF IsLed, IsJoined
  <1> QED
    BY <1>6 DEF w

\* What a chain has.
LEMMA DownHas ==
  ASSUME NEW s, NEW h \in Nat, NEW c \in Nat, IsDown(s, h, c)
  PROVE  Ordered(s, Differ) /\ \A e : Has(s, e) <=> e \in (h - c + 1) .. h
  <1>1. s \in Seq(Nat) /\ Len(s) = c /\ \A i \in 1 .. c : s[i] = h - i + 1 /\ s[i] \in Nat
    BY DEF IsDown
  <1>2. Ordered(s, Differ)
    <2> SUFFICES ASSUME NEW x \in 1 .. c, NEW y \in 1 .. c, x < y
                 PROVE  <<s[x], s[y]>> \in Differ
      BY <1>1 DEF Ordered
    <2> QED
      BY <1>1 DEF Differ
  <1>3. ASSUME NEW e
        PROVE  Has(s, e) <=> e \in (h - c + 1) .. h
    <2>1. ASSUME e \in (h - c + 1) .. h
          PROVE  Has(s, e)
      <3> DEFINE i == h - e + 1
      <3>1. i \in 1 .. c /\ h - i + 1 = e
        BY <2>1
      <3> HIDE DEF i
      <3>2. s[i] = e
        BY <1>1, <3>1
      <3> QED
        BY <1>1, <3>1, <3>2 DEF Has
    <2> QED
      BY <1>1, <2>1 DEF Has
  <1> QED
    BY <1>2, <1>3

\* The pages of chains are overflow pages, and no two rows share one.
LEMMA ChainsApart ==
  ASSUME ArePages, rows \subseteq Rowids, NEW head, AreChains(head), NEW r \in rows,
         NEW x \in ChainPages(r, head[r])
  PROVE  /\ x \in DOMAIN pages /\ x \in Nat /\ pages[x].kind = "overflow"
         /\ \A s \in rows : x \in ChainPages(s, head[s]) => s = r
  <1>1. PICK c \in Nat : c = Payload[r].chain
    BY BTreeAssumption
  <1>2. PICK h \in Nat : h = head[r]
    BY DEF AreChains
  <1>3. x \in (h - c + 1) .. h
    BY <1>1, <1>2 DEF ChainPages
  <1>4. c > 0
    BY <1>3
  <1>5. h \in DOMAIN pages /\ c <= h /\ \A y \in (h - c + 1) .. h : pages[y].kind = "overflow"
    BY <1>1, <1>2, <1>4 DEF AreChains, IsChain
  <1>6. x \in DOMAIN pages /\ x \in Nat
    <2>1. PICK n \in Nat : DOMAIN pages = 1 .. n
      BY DEF ArePages
    <2> QED
      BY <1>3, <1>5, <2>1
  <1>7. ASSUME NEW s \in rows, x \in ChainPages(s, head[s]), s # r
        PROVE  FALSE
    <2>1. PICK d \in Nat : d = Payload[s].chain
      BY BTreeAssumption
    <2>2. PICK g \in Nat : g = head[s]
      BY DEF AreChains
    <2>3. x \in (g - d + 1) .. g
      BY <1>7, <2>1, <2>2 DEF ChainPages
    <2>4. d > 0
      BY <2>3
    <2>5. h + d <= g \/ g + c <= h
      BY <1>1, <1>2, <1>4, <1>7, <2>1, <2>2, <2>4 DEF AreChains
    <2> QED
      BY <1>3, <2>3, <2>5
  <1> QED
    BY <1>3, <1>5, <1>6, <1>7

IsUnder(t, p, e) == e \in DOMAIN t /\ t[e].lev <= t[p].lev /\ t[e].rng \subseteq t[p].rng

IsOfRow(t, head, p, e) == \E r \in rows : r \in t[p].rng /\ e \in ChainPages(r, head[r])

Overlap(t, p, q) == \E r : r \in t[p].rng /\ r \in t[q].rng

PagesRight(t, head, p) ==
  /\ Walk[p] \in Seq(Nat) /\ Ordered(Walk[p], Differ)
  /\ \A e : Has(Walk[p], e) => IsUnder(t, p, e) \/ IsOfRow(t, head, p, e)
  /\ \A q \in DOMAIN t : t[q].lev <= t[p].lev /\ Overlap(t, p, q) => Has(Walk[p], q)

\* The pages below a leaf are those of its rows.
LEMMA PagesOfLeaf ==
  ASSUME NEW t, NEW head, AtRest(t, head), NEW p \in DOMAIN t, t[p].lev = 0
  PROVE  PagesRight(t, head, p)
  <1>1. IsLeaf(t, rows, head, p) /\ ArePages /\ rows \subseteq Rowids /\ AreChains(head) /\ ChainGathers
        /\ IsTree(t, rows)
    BY DEF AtRest, Settled
  <1>2. LeafChains(head, p)
    BY <1>1, LeafHasChains
  <1> DEFINE cells == pages[p].cells
             u == ChainsOf(p)
             g == FlattenSeq(u)
             k == t[p].keys
  <1>3. PICK n \in Nat : n = Len(cells) /\ Len(k) = n /\ k \in Seq(Nat)
    BY <1>1 DEF IsLeaf, KeysAre, IsNodeData
  <1>4. u \in Seq(Seq(Nat)) /\ Len(u) = n
    BY <1>2, <1>3 DEF LeafChains
  <1>5. \A i \in 1 .. n : k[i] = cells[i].key /\ k[i] \in t[p].rng
    BY <1>1, <1>3 DEF IsLeaf, KeysAre, IsNodeData
  <1>6. ASSUME NEW i \in 1 .. n
        PROVE  /\ k[i] \in rows /\ k[i] \in t[p].rng /\ Ordered(u[i], Differ) /\ u[i] \in Seq(Nat)
               /\ \A e : Has(u[i], e) <=> e \in ChainPages(k[i], head[k[i]])
    <2>1. PICK r : r = k[i]
      OBVIOUS
    <2>2. r \in rows /\ IsDown(u[i], head[r], Payload[r].chain)
      BY <1>2, <1>3, <1>5, <2>1 DEF LeafChains
    <2>3. head[r] \in Nat /\ Payload[r].chain \in Nat
      BY <1>1, <2>2, BTreeAssumption DEF AreChains
    <2>4. u[i] \in Seq(Nat)
      BY <2>2 DEF IsDown
    <2> HIDE DEF u
    <2> QED
      BY <1>5, <2>1, <2>2, <2>3, <2>4, DownHas DEF ChainPages
  <1>7. IsFlat(Nat, u, n, g)
    <2> HIDE DEF u
    <2>1. IsFlat(Nat, u, Len(u), FlattenSeq(u))
      BY <1>4, Flattened
    <2> QED
      BY <1>4, <2>1
  <1>8. Walk[p] = <<p>> \o g /\ p \in Nat
    BY <1>1 DEF AtRest, WalkGathers, IsLeaf
  <1>9. \A i, j \in 1 .. n : i < j => k[i] # k[j]
    BY <1>1, <1>3 DEF IsLeaf, IsNodeData, Sorted
  <1> HIDE DEF u, g, k, cells
  <1>10. ASSUME NEW i \in 1 .. n, NEW j \in 1 .. n, i < j
         PROVE  Crosses(u[i], u[j], Differ)
    <2> SUFFICES ASSUME NEW x \in 1 .. Len(u[i]), NEW y \in 1 .. Len(u[j])
                 PROVE  <<u[i][x], u[j][y]>> \in Differ
      BY DEF Crosses
    <2>1. PICK a \in Nat : a = u[i][x]
      BY <1>6
    <2>2. PICK b \in Nat : b = u[j][y]
      BY <1>6
    <2>3. Has(u[i], a) /\ Has(u[j], b)
      BY <2>1, <2>2 DEF Has
    <2>4. a \in ChainPages(k[i], head[k[i]]) /\ b \in ChainPages(k[j], head[k[j]])
      BY <1>6, <2>3
    <2>5. a # b
      <3>1. k[i] \in rows /\ k[j] \in rows /\ k[i] # k[j]
        BY <1>6, <1>9, <1>10
      <3> QED
        BY <1>1, <2>4, <3>1, ChainsApart
    <2> QED
      BY <2>1, <2>2, <2>5 DEF Differ
  <1>11. g \in Seq(Nat) /\ Ordered(g, Differ)
    BY <1>6, <1>7, <1>10 DEF IsFlat
  <1>12. ASSUME NEW e, Has(g, e)
         PROVE  IsOfRow(t, head, p, e) /\ e # p
    <2>1. PICK i \in 1 .. n : Has(u[i], e)
      BY <1>7, <1>12 DEF IsFlat
    <2>2. e \in ChainPages(k[i], head[k[i]]) /\ k[i] \in rows /\ k[i] \in t[p].rng
      BY <1>6, <2>1
    <2>3. pages[e].kind = "overflow"
      BY <1>1, <2>2, ChainsApart
    <2>4. pages[p].kind = "leaf"
      BY <1>1 DEF IsLeaf
    <2> QED
      BY <2>2, <2>3, <2>4 DEF IsOfRow
  <1>13. IsLed(Walk[p], p, g)
    BY <1>8, <1>11, PageFirst
  <1>14. \A e : Has(Walk[p], e) <=> e = p \/ Has(g, e)
    BY <1>13 DEF IsLed
  <1>15. Walk[p] \in Seq(Nat) /\ Ordered(Walk[p], Differ)
    BY <1>11, <1>12, <1>13 DEF IsLed
  <1>16. IsUnder(t, p, p)
    BY DEF IsUnder
  <1>17. ASSUME NEW q \in DOMAIN t, t[q].lev <= t[p].lev, Overlap(t, p, q)
         PROVE  Has(Walk[p], q)
    <2>1. t[q].lev = t[p].lev
      BY <1>1, <1>17 DEF IsTree, IsNode, IsNodeData
    <2>2. q = p
      BY <1>1, <1>17, <2>1, OneOfLevel DEF Overlap
    <2> QED
      BY <1>14, <2>2
  <1> QED
    BY <1>12, <1>14, <1>15, <1>16, <1>17 DEF PagesRight

\* The pages below an inner page are those below its children.
LEMMA PagesOfInner ==
  ASSUME NEW t, NEW head, AtRest(t, head), NEW p \in DOMAIN t, t[p].lev > 0,
         \A i \in 1 .. Len(t[p].kids) : t[p].kids[i] \in DOMAIN t /\ PagesRight(t, head, t[p].kids[i])
  PROVE  PagesRight(t, head, p)
  <1>1. IsInner(t, p) /\ ArePages /\ rows \subseteq Rowids /\ AreChains(head) /\ IsTree(t, rows)
        /\ DOMAIN t = InTree
    BY DEF AtRest, Settled
  <1>2. PICK n \in Nat : n = Len(pages[p].cells) /\ n + 1 \in Nat
    BY <1>1 DEF IsInner
  <1> DEFINE k == t[p].keys
             u == Under(Walk, p)
             g == FlattenSeq(u)
             c(i) == Child(pages[p], i)
             s(i) == Slice(t[p].rng, k, i)
  <1>3. /\ IsNodeData(t[p]) /\ Len(k) = n /\ Len(t[p].kids) = n + 1 /\ t[p].lev \in Nat
        /\ \A i \in 1 .. n + 1 : /\ c(i) = t[p].kids[i] /\ c(i) \in DOMAIN t
                                 /\ t[c(i)].rng = s(i) /\ t[c(i)].lev = t[p].lev - 1
    BY <1>1, <1>2 DEF IsInner, KeysAre, IsNodeData
  <1>4. \A i \in 1 .. n + 1 : PagesRight(t, head, c(i))
    <2> HIDE DEF c
    <2> QED
      BY <1>3
  <1>5. \A i \in 1 .. n + 1 : u[i] = Walk[c(i)]
    BY <1>2 DEF Under
  <1>6. u \in Seq(Seq(Nat)) /\ Len(u) = n + 1
    <2> DEFINE V == Seq(Nat)
    <2>1. u = [i \in 1 .. n + 1 |-> Walk[c(i)]]
      BY <1>2 DEF Under
    <2>2. \A i \in 1 .. n + 1 : Walk[c(i)] \in V
      BY <1>4 DEF PagesRight
    <2> HIDE DEF V, c, u
    <2>3. u \in Seq(V) /\ Len(u) = n + 1
      BY <1>2, <2>1, <2>2
    <2> QED
      BY <2>3 DEF V
  <1>7. Walk[p] = <<p>> \o g /\ p \in Nat
    BY <1>1 DEF AtRest, WalkGathers, IsInner
  <1>8. IsFlat(Nat, u, n + 1, g)
    <2> HIDE DEF u, c
    <2>1. IsFlat(Nat, u, Len(u), FlattenSeq(u))
      BY <1>6, Flattened
    <2> QED
      BY <1>6, <2>1
  <1> HIDE DEF c, u, g
  <1>9. ASSUME NEW i \in 1 .. n + 1
        PROVE  /\ u[i] \in Seq(Nat) /\ Ordered(u[i], Differ)
               /\ \A e : Has(u[i], e) =>
                    \/ e \in DOMAIN t /\ t[e].lev < t[p].lev /\ t[e].rng \subseteq s(i)
                    \/ \E r \in rows : r \in s(i) /\ e \in ChainPages(r, head[r])
    <2>1. PagesRight(t, head, c(i)) /\ u[i] = Walk[c(i)] /\ t[c(i)].rng = s(i) /\ t[c(i)].lev = t[p].lev - 1
      BY <1>3, <1>4, <1>5
    <2> HIDE DEF s
    <2>2. \A e \in DOMAIN t : t[e].lev \in Nat
      BY <1>1 DEF IsTree, IsNode, IsNodeData
    <2>3. \A e : IsUnder(t, c(i), e) => e \in DOMAIN t /\ t[e].lev < t[p].lev /\ t[e].rng \subseteq s(i)
      BY <1>3, <2>1, <2>2 DEF IsUnder
    <2>4. \A e : IsOfRow(t, head, c(i), e) => \E r \in rows : r \in s(i) /\ e \in ChainPages(r, head[r])
      BY <2>1 DEF IsOfRow
    <2> QED
      BY <2>1, <2>3, <2>4 DEF PagesRight
  <1>10. \A e \in DOMAIN t : /\ pages[e].kind # "overflow" /\ t[e].rng # {} /\ e \in Nat
                             /\ t[e].rng \subseteq Nat
    <2> SUFFICES ASSUME NEW e \in DOMAIN t
                 PROVE  pages[e].kind # "overflow" /\ t[e].rng # {} /\ e \in Nat /\ t[e].rng \subseteq Nat
      OBVIOUS
    <2>1. e \in DOMAIN pages /\ pages[e].kind # "overflow"
      BY <1>1 DEF InTree
    <2>2. e \in Nat
      BY <1>1, <2>1, PageTypes
    <2> QED
      BY <1>1, <2>1, <2>2 DEF IsTree, IsNode, IsNodeData
  <1>11. ASSUME NEW i \in 1 .. n + 1, NEW j \in 1 .. n + 1, i < j, NEW a \in s(i), NEW b \in s(j)
         PROVE  a # b
    <2>1. a < b /\ a \in Nat /\ b \in Nat
      BY <1>3, <1>11, SlicesInOrder
    <2> QED
      BY <2>1
  <1> HIDE DEF s
  <1>12. ASSUME NEW i \in 1 .. n + 1, NEW j \in 1 .. n + 1, i < j, NEW e, Has(u[i], e), Has(u[j], e)
         PROVE  FALSE
    <2>1. CASE e \in DOMAIN t
      <3>1. \A r \in rows : e \notin ChainPages(r, head[r])
        BY <1>1, <1>10, <2>1, ChainsApart
      <3>2. t[e].rng \subseteq s(i) /\ t[e].rng \subseteq s(j)
        BY <1>9, <1>12, <3>1
      <3>3. PICK r : r \in t[e].rng
        BY <1>10, <2>1
      <3> QED
        BY <1>11, <1>12, <3>2, <3>3
    <2>2. CASE e \notin DOMAIN t
      <3>1. PICK r \in rows : r \in s(i) /\ e \in ChainPages(r, head[r])
        BY <1>9, <1>12, <2>2
      <3>2. PICK q \in rows : q \in s(j) /\ e \in ChainPages(q, head[q])
        BY <1>9, <1>12, <2>2
      <3>3. q = r
        BY <1>1, <3>1, <3>2, ChainsApart
      <3> QED
        BY <1>11, <1>12, <3>1, <3>2, <3>3
    <2> QED
      BY <2>1, <2>2
  <1>13. ASSUME NEW i \in 1 .. n + 1, NEW j \in 1 .. n + 1, i < j
         PROVE  Crosses(u[i], u[j], Differ)
    <2> SUFFICES ASSUME NEW x \in 1 .. Len(u[i]), NEW y \in 1 .. Len(u[j])
                 PROVE  <<u[i][x], u[j][y]>> \in Differ
      BY DEF Crosses
    <2>1. PICK a \in Nat : a = u[i][x]
      BY <1>9
    <2>2. PICK b \in Nat : b = u[j][y]
      BY <1>9
    <2>3. Has(u[i], a) /\ Has(u[j], b)
      BY <2>1, <2>2 DEF Has
    <2>4. a # b
      BY <1>12, <1>13, <2>3
    <2> QED
      BY <2>1, <2>2, <2>4 DEF Differ
  <1>14. g \in Seq(Nat) /\ Ordered(g, Differ)
    BY <1>8, <1>9, <1>13 DEF IsFlat
  <1>15. ASSUME NEW e, Has(g, e)
         PROVE  (IsUnder(t, p, e) \/ IsOfRow(t, head, p, e)) /\ e # p
    <2>1. PICK i \in 1 .. n + 1 : Has(u[i], e)
      BY <1>8, <1>15 DEF IsFlat
    <2>2. s(i) \subseteq t[p].rng
      BY DEF s, Slice
    <2>3. CASE e \in DOMAIN t /\ t[e].lev < t[p].lev /\ t[e].rng \subseteq s(i)
      <3>1. t[e].lev \in Nat
        BY <1>1, <2>3 DEF IsTree, IsNode, IsNodeData
      <3> QED
        BY <1>3, <2>2, <2>3, <3>1 DEF IsUnder
    <2>4. CASE \E r \in rows : r \in s(i) /\ e \in ChainPages(r, head[r])
      <3>1. PICK r \in rows : r \in s(i) /\ e \in ChainPages(r, head[r])
        BY <2>4
      <3>2. pages[e].kind = "overflow"
        BY <1>1, <3>1, ChainsApart
      <3> QED
        BY <1>10, <2>2, <3>1, <3>2 DEF IsOfRow
    <2> QED
      BY <1>9, <2>1, <2>3, <2>4
  <1>16. IsLed(Walk[p], p, g)
    BY <1>7, <1>14, PageFirst
  <1>17. \A e : Has(Walk[p], e) <=> e = p \/ Has(g, e)
    BY <1>16 DEF IsLed
  <1>18. Walk[p] \in Seq(Nat) /\ Ordered(Walk[p], Differ)
    BY <1>14, <1>15, <1>16 DEF IsLed
  <1>19. IsUnder(t, p, p)
    BY <1>3 DEF IsUnder
  <1>20. ASSUME NEW q \in DOMAIN t, t[q].lev <= t[p].lev, Overlap(t, p, q)
         PROVE  Has(Walk[p], q)
    <2>1. PICK r : r \in t[p].rng /\ r \in t[q].rng
      BY <1>20 DEF Overlap
    <2>2. CASE t[q].lev = t[p].lev
      <3>1. q = p
        BY <1>1, <2>1, <2>2, OneOfLevel
      <3> QED
        BY <1>17, <3>1
    <2>3. CASE t[q].lev # t[p].lev
      <3>1. PICK i \in 1 .. n + 1 : r \in s(i)
        BY <1>1, <1>2, <2>1, SlicesAreAll DEF s
      <3>2. t[q].lev \in Nat
        BY <1>1 DEF IsTree, IsNode, IsNodeData
      <3>3. t[q].lev <= t[c(i)].lev
        BY <1>3, <1>20, <2>3, <3>2
      <3>4. Overlap(t, c(i), q)
        BY <1>3, <2>1, <3>1 DEF Overlap
      <3>5. Has(u[i], q)
        BY <1>4, <1>5, <3>3, <3>4 DEF PagesRight
      <3>6. Has(g, q)
        BY <1>8, <3>5 DEF IsFlat
      <3> QED
        BY <1>17, <3>6
    <2> QED
      BY <2>2, <2>3
  <1> QED
    BY <1>15, <1>17, <1>18, <1>19, <1>20 DEF PagesRight

\* The pages below a page are of the nodes and the rows below it, each once.
LEMMA PagesBelowAre ==
  ASSUME NEW t, NEW head, AtRest(t, head)
  PROVE  \A p \in DOMAIN t : PagesRight(t, head, p)
  <1> DEFINE S == {p \in DOMAIN t : PagesRight(t, head, p)}
  <1>1. ASSUME NEW p \in DOMAIN t, t[p].lev > 0 => \A i \in 1 .. Len(t[p].kids) : t[p].kids[i] \in S
        PROVE  p \in S
    <2>1. t[p].lev \in Nat
      BY DEF AtRest, IsTree, IsNode, IsNodeData
    <2>2. CASE t[p].lev = 0
      BY <2>2, PagesOfLeaf
    <2>3. CASE t[p].lev > 0
      BY <1>1, <2>3, PagesOfInner
    <2> QED
      BY <2>1, <2>2, <2>3
  <1>2. \A p \in DOMAIN t : p \in S
    <2> HIDE DEF S
    <2> QED
      BY <1>1, TreeInduction DEF AtRest
  <1> QED
    BY <1>2

\* All leaves below a page are as far from it as it is high.
LEMMA DepthsAre ==
  ASSUME NEW t, NEW head, AtRest(t, head)
  PROVE  \A p \in DOMAIN t : Depths[p] = {t[p].lev + 1}
  <1> DEFINE S == {p \in DOMAIN t : Depths[p] = {t[p].lev + 1}}
  <1>1. ASSUME NEW p \in DOMAIN t, t[p].lev > 0 => \A i \in 1 .. Len(t[p].kids) : t[p].kids[i] \in S
        PROVE  p \in S
    <2>1. t[p].lev \in Nat
      BY DEF AtRest, IsTree, IsNode, IsNodeData
    <2>2. CASE t[p].lev = 0
      <3>1. pages[p].kind # "interior" /\ p \in DOMAIN pages
        BY <2>2 DEF AtRest, Settled, IsLeaf
      <3>2. Depths[p] = {1}
        BY <3>1 DEF AtRest, DepthsGather
      <3> QED
        BY <2>2, <3>2
    <2>3. CASE t[p].lev > 0
      <3>1. IsInner(t, p)
        BY <2>3 DEF AtRest, Settled
      <3>2. PICK n \in Nat : n = Len(pages[p].cells) + 1 /\ n > 0 /\ n = Len(t[p].kids)
        BY <3>1 DEF IsInner
      <3>3. \A i \in 1 .. n : Depths[Child(pages[p], i)] = {t[p].lev}
        <4> SUFFICES ASSUME NEW i \in 1 .. n PROVE Depths[Child(pages[p], i)] = {t[p].lev}
          OBVIOUS
        <4>1. PICK c : c = Child(pages[p], i)
          OBVIOUS
        <4>2. c = t[p].kids[i] /\ t[c].lev = t[p].lev - 1
          BY <3>1, <3>2, <4>1 DEF IsInner
        <4>3. Depths[c] = {t[c].lev + 1}
          BY <1>1, <2>3, <3>2, <4>2
        <4>4. t[c].lev + 1 = t[p].lev
          BY <2>1, <4>2
        <4> QED
          BY <4>1, <4>3, <4>4
      <3>4. UNION {Depths[Child(pages[p], i)] : i \in 1 .. n} = {t[p].lev}
        BY <3>2, <3>3
      <3>5. Depths[p] = {d + 1 : d \in UNION {Depths[Child(pages[p], i)] : i \in 1 .. n}}
        BY <3>1, <3>2 DEF AtRest, DepthsGather, IsInner
      <3>6. Depths[p] = {d + 1 : d \in {t[p].lev}}
        BY <3>4, <3>5
      <3> QED
        BY <3>6
    <2> QED
      BY <2>1, <2>2, <2>3
  <1>2. \A p \in DOMAIN t : p \in S
    <2> HIDE DEF S
    <2> QED
      BY <1>1, TreeInduction DEF AtRest
  <1> QED
    BY <1>2

-----------------------------------------------------------------------------
\* What the invariant says of the properties

\* An element of a sequence is at some index.
LEMMA RangeHas ==
  ASSUME NEW s \in Seq(Nat)
  PROVE  \A e : e \in Range(s) <=> Has(s, e)
  BY DEF Range, Has

\* The leaves of a sound tree hold the rows, each once and in order.
LEMMA HoldsRows ==
  ASSUME TreeInv
  PROVE  TreeHoldsRows
  <1> SUFFICES ASSUME call = Idle
               PROVE  LET keys == KeysBelow[Root]
                      IN  /\ Range(keys) = rows
                          /\ \A i \in 1 .. Len(keys) - 1 : keys[i] < keys[i + 1]
    BY DEF TreeHoldsRows
  <1>1. PICK t, head : AtRest(t, head)
    BY TreeAtRest
  <1>2. Root \in DOMAIN t /\ t[Root].rng = Nat /\ rows \subseteq Nat
    BY <1>1, BTreeAssumption DEF AtRest, IsTree
  <1> DEFINE g == KeysBelow[Root]
  <1>3. g \in Seq(Nat) /\ Ordered(g, Less) /\ \A e : Has(g, e) <=> e \in rows /\ e \in Nat
    BY <1>1, <1>2, KeysBelowAre DEF KeysRight
  <1> HIDE DEF g
  <1>4. Range(g) = rows
    BY <1>2, <1>3, RangeHas
  <1>5. ASSUME NEW i \in 1 .. Len(g) - 1
        PROVE  g[i] < g[i + 1]
    <2>1. PICK j : j = i + 1
      OBVIOUS
    <2>2. i \in 1 .. Len(g) /\ j \in 1 .. Len(g) /\ i < j
      BY <1>3, <2>1
    <2>3. <<g[i], g[j]>> \in Less
      BY <1>3, <2>2 DEF Ordered
    <2> QED
      BY <2>1, <2>3 DEF Less
  <1> QED
    BY <1>4, <1>5 DEF g

\* The pages that are found are those of the tree.
LEMMA TreePagesAre ==
  ASSUME NEW t, NEW head, AtRest(t, head), NEW kind, kind # "overflow"
  PROVE  \A p : p \in TreePages(kind) <=> p \in DOMAIN t /\ pages[p].kind = kind
  <1>1. Root \in DOMAIN t /\ t[Root].rng = Nat /\ IsTree(t, rows) /\ ArePages /\ rows \subseteq Rowids
        /\ AreChains(head)
    BY DEF AtRest, IsTree
  <1>2. PagesRight(t, head, Root)
    BY <1>1, PagesBelowAre
  <1> DEFINE w == Walk[Root]
  <1>3. \A e : e \in Range(w) <=> Has(w, e)
    BY <1>2, RangeHas DEF PagesRight
  <1>4. ASSUME NEW p, p \in TreePages(kind)
        PROVE  p \in DOMAIN t /\ pages[p].kind = kind
    <2>1. Has(w, p) /\ pages[p].kind = kind
      BY <1>3, <1>4 DEF TreePages
    <2>2. IsUnder(t, Root, p) \/ IsOfRow(t, head, Root, p)
      BY <1>2, <2>1 DEF PagesRight
    <2>3. ~IsOfRow(t, head, Root, p)
      BY <1>1, <2>1, ChainsApart DEF IsOfRow
    <2> QED
      BY <2>1, <2>2, <2>3 DEF IsUnder
  <1>5. ASSUME NEW p \in DOMAIN t, pages[p].kind = kind
        PROVE  p \in TreePages(kind)
    <2>1. t[p].lev <= t[Root].lev /\ t[p].rng \subseteq Nat /\ t[p].rng # {}
      BY <1>1 DEF IsTree, IsNode, IsNodeData
    <2>2. Overlap(t, Root, p)
      BY <1>1, <2>1 DEF Overlap
    <2>3. Has(w, p)
      BY <1>2, <2>1, <2>2 DEF PagesRight
    <2> QED
      BY <1>3, <1>5, <2>3 DEF TreePages
  <1> QED
    BY <1>4, <1>5

\* The dividers of a sound tree separate what is left of them from what is right.
LEMMA Separates ==
  ASSUME TreeInv
  PROVE  DividersSeparate
  <1> SUFFICES ASSUME call = Idle, NEW p \in TreePages("interior"), NEW i \in DOMAIN pages[p].cells
               PROVE  LET key == pages[p].cells[i].key
                      IN  /\ \A r \in Range(KeysBelow[Child(pages[p], i)]) : r <= key
                          /\ \A r \in Range(KeysBelow[Child(pages[p], i + 1)]) : r >= key
    BY DEF DividersSeparate
  <1>1. PICK t, head : AtRest(t, head)
    BY TreeAtRest
  <1>2. p \in DOMAIN t /\ pages[p].kind = "interior"
    BY <1>1, TreePagesAre
  <1>3. IsInner(t, p)
    <2>1. t[p].lev \in Nat
      BY <1>1, <1>2 DEF AtRest, IsTree, IsNode, IsNodeData
    <2>2. t[p].lev # 0
      BY <1>1, <1>2 DEF AtRest, Settled, IsLeaf
    <2> QED
      BY <1>1, <1>2, <2>1, <2>2 DEF AtRest, Settled
  <1>4. PICK n \in Nat : n = Len(pages[p].cells) /\ DOMAIN pages[p].cells = 1 .. n
    BY <1>3 DEF IsInner
  <1> DEFINE k == t[p].keys
             j == i + 1
             c(x) == Child(pages[p], x)
             rng(x) == Slice(t[p].rng, k, x)
  <1>5. /\ i \in 1 .. n /\ i \in 1 .. n + 1 /\ j \in 1 .. n + 1 /\ j > 1 /\ j - 1 = i
        /\ k \in Seq(Nat) /\ Len(k) = n /\ k[i] = pages[p].cells[i].key /\ k[i] \in Nat
        /\ t[p].rng \subseteq Nat
    <2>1. i \in 1 .. n /\ i \in 1 .. n + 1 /\ j \in 1 .. n + 1 /\ j > 1 /\ j - 1 = i
      BY <1>4
    <2>2. k \in Seq(Nat) /\ Len(k) = n /\ t[p].rng \subseteq Nat
      BY <1>3, <1>4 DEF IsInner, IsNodeData, KeysAre
    <2>3. k[i] = pages[p].cells[i].key
      BY <1>3, <1>4, <2>1 DEF IsInner, KeysAre
    <2> HIDE DEF j, k
    <2> QED
      BY <2>1, <2>2, <2>3
  <1>6. ASSUME NEW x \in 1 .. n + 1
        PROVE  \A r \in Range(KeysBelow[c(x)]) : r \in rng(x)
    <2>1. c(x) \in DOMAIN t /\ t[c(x)].rng = rng(x)
      BY <1>3, <1>4 DEF IsInner
    <2>2. KeysRight(t, c(x))
      BY <1>1, <2>1, KeysBelowAre
    <2> HIDE DEF c, rng
    <2>3. \A r : r \in Range(KeysBelow[c(x)]) => Has(KeysBelow[c(x)], r)
      BY <2>2, RangeHas DEF KeysRight
    <2> QED
      BY <2>1, <2>2, <2>3 DEF KeysRight
  <1> HIDE DEF c, k, j
  <1>7. \A r \in rng(i) : r \in Nat /\ r < k[i]
    BY <1>5 DEF Slice
  <1>8. \A r \in rng(j) : r \in Nat /\ k[i] <= r
    BY <1>5 DEF Slice
  <1> HIDE DEF rng
  <1>9. \A r \in Range(KeysBelow[c(i)]) : r <= k[i]
    <2> SUFFICES ASSUME NEW r \in Range(KeysBelow[c(i)]) PROVE r <= k[i]
      OBVIOUS
    <2>1. r \in Nat /\ r < k[i]
      BY <1>5, <1>6, <1>7
    <2> QED
      BY <1>5, <2>1
  <1>10. \A r \in Range(KeysBelow[c(j)]) : r >= k[i]
    <2> SUFFICES ASSUME NEW r \in Range(KeysBelow[c(j)]) PROVE r >= k[i]
      OBVIOUS
    <2>1. r \in Nat /\ k[i] <= r
      BY <1>5, <1>6, <1>8
    <2> QED
      BY <1>5, <2>1
  <1> QED
    BY <1>5, <1>9, <1>10 DEF c, j

\* Each page of a sound tree, and each page of a chain, is reached once.
LEMMA PagesOnce ==
  ASSUME TreeInv
  PROVE  EachPageOnce
  <1> SUFFICES ASSUME call = Idle
               PROVE  IsInjective(Walk[Root]) /\ Cardinality(Depths[Root]) = 1
    BY DEF EachPageOnce
  <1>1. PICK t, head : AtRest(t, head)
    BY TreeAtRest
  <1>2. Root \in DOMAIN t
    BY <1>1 DEF AtRest, IsTree
  <1>3. Cardinality(Depths[Root]) = 1
    <2>1. Depths[Root] = {t[Root].lev + 1}
      BY <1>1, <1>2, DepthsAre
    <2> QED
      BY <2>1, FS_Singleton
  <1> DEFINE w == Walk[Root]
  <1>4. w \in Seq(Nat) /\ Ordered(w, Differ)
    BY <1>1, <1>2, PagesBelowAre DEF PagesRight
  <1> HIDE DEF w
  <1>5. ASSUME NEW x \in 1 .. Len(w), NEW y \in 1 .. Len(w), w[x] = w[y]
        PROVE  x = y
    <2>1. x < y => <<w[x], w[y]>> \in Differ
      BY <1>4 DEF Ordered
    <2>2. y < x => <<w[y], w[x]>> \in Differ
      BY <1>4 DEF Ordered
    <2> QED
      BY <1>5, <2>1, <2>2 DEF Differ
  <1>6. IsInjective(w)
    BY <1>4, <1>5 DEF IsInjective
  <1> QED
    BY <1>3, <1>6 DEF w

\* Every cell of a sound tree has its whole chain.
LEMMA AreWhole ==
  ASSUME TreeInv
  PROVE  CellsWhole
  <1>1. \A p \in DOMAIN pages : pages[p].used + PtrSize * Len(pages[p].cells) <= Room(p, pages[p].kind)
    BY DEF TreeInv, ArePages, IsPage
  <1>2. ASSUME call = Idle, NEW p \in TreePages("leaf"), NEW c \in Range(pages[p].cells)
        PROVE  Len(ChainFrom[c.page]) = Payload[c.key].chain
    <2>1. PICK t, head : AtRest(t, head)
      BY <1>2, TreeAtRest
    <2>2. p \in DOMAIN t /\ pages[p].kind = "leaf"
      BY <1>2, <2>1, TreePagesAre
    <2>3. IsLeaf(t, rows, head, p)
      <3>1. t[p].lev \in Nat
        BY <2>1, <2>2 DEF AtRest, IsTree, IsNode, IsNodeData
      <3>2. ~(t[p].lev > 0)
        BY <2>1, <2>2 DEF AtRest, Settled, IsInner
      <3> QED
        BY <2>1, <2>2, <3>1, <3>2 DEF AtRest, Settled
    <2>4. LeafChains(head, p)
      BY <2>1, <2>3, LeafHasChains DEF AtRest
    <2>5. PICK i \in 1 .. Len(pages[p].cells) : c = pages[p].cells[i]
      BY <2>3 DEF IsLeaf, Range
    <2>6. ChainsOf(p)[i] = ChainFrom[c.page]
      BY <2>3, <2>5 DEF ChainsOf, IsLeaf
    <2> QED
      BY <2>4, <2>5, <2>6 DEF LeafChains, IsDown
  <1> QED
    BY <1>1, <1>2 DEF CellsWhole

-----------------------------------------------------------------------------
\* An insertion

AfterInsert(r, leaf, after) ==
  /\ after \in Seq(PageRecords) /\ Len(after) = Len(pages) + Payload[r].chain
  /\ \A y \in DOMAIN pages \ {leaf} : after[y] = pages[y]
  /\ after[leaf].kind = pages[leaf].kind /\ after[leaf].right = pages[leaf].right
  /\ \A y \in Len(pages) + 1 .. Len(pages) + Payload[r].chain :
       /\ after[y].kind = "overflow"
       /\ after[y].right = IF y = Len(pages) + 1 THEN 0 ELSE y - 1
  /\ \A y \in DOMAIN after : IsPage(y, after[y])

IsInserted(r, path, leaf, more, after) ==
  \/ Fits(leaf, NewCell(r)) /\ call' = Idle /\ after[leaf].cells = more
  \/ /\ ~Fits(leaf, NewCell(r)) /\ after[leaf] = pages[leaf]
     /\ call' = [op |-> "split", path |-> path, cell |-> NewCell(r), todo |-> <<>>]

\* The cell of a row that is inserted.
LEMMA NewCellIs ==
  ASSUME ArePages, NEW r \in Rowids
  PROVE  NewCell(r) \in CellRecords /\ NewCell(r).key = r /\ Payload[r].chain \in Nat
         /\ NewCell(r).page = IF Payload[r].chain = 0 THEN 0 ELSE Len(pages) + Payload[r].chain
  <1>1. Payload[r].chain \in Nat /\ Len(pages) \in Nat
    BY BTreeAssumption DEF ArePages
  <1> QED
    BY <1>1 DEF NewCell, CellRecords

\* What an insertion does to the pages.
LEMMA InsertPages ==
  ASSUME PagesHaveRoom, ArePages, NEW r \in Rowids, Insert(r), NEW path, path = PathTo(r),
         NEW leaf, leaf = Last(path), leaf \in DOMAIN pages, pages[leaf].kind = "leaf",
         NEW more, more = WithCell(pages[leaf].cells, NewCell(r))
  PROVE  /\ AfterInsert(r, leaf, pages') /\ IsInserted(r, path, leaf, more, pages')
         /\ rows' = rows \cup {r} /\ r \notin rows /\ call = Idle
  <1> DEFINE cell == NewCell(r)
             c == Payload[r].chain
  <1>1. cell \in CellRecords /\ c \in Nat
    BY NewCellIs
  <1>2. PICK n \in Nat : n = Len(pages) /\ pages \in Seq(PageRecords) /\ DOMAIN pages = 1 .. n
    BY DEF ArePages
  <1>3. pages[leaf] \in PageRecords /\ IsPage(leaf, pages[leaf])
    BY PageTypes
  <1>4. rows' = rows \cup {r} /\ r \notin rows /\ call = Idle
    BY DEF Insert
  <1>5. ASSUME NEW base \in Seq(PageRecords), Len(base) = n,
               \A y \in DOMAIN pages \ {leaf} : base[y] = pages[y],
               IsPage(leaf, base[leaf]), base[leaf].kind = pages[leaf].kind,
               base[leaf].right = pages[leaf].right, NEW after, after = base \o Chain(r)
        PROVE  AfterInsert(r, leaf, after) /\ after[leaf] = base[leaf]
    <2>1. ChainAdded(base, r, after)
      BY <1>2, <1>5, ChainIsAdded
    <2>2. /\ after \in Seq(PageRecords) /\ Len(after) = n + c
          /\ \A y \in 1 .. n : after[y] = base[y]
          /\ \A y \in n + 1 .. n + c :
              /\ after[y].kind = "overflow" /\ IsPage(y, after[y])
              /\ after[y].right = IF y = n + 1 THEN 0 ELSE y - 1
      BY <1>5, <2>1 DEF ChainAdded
    <2>3. \A y \in DOMAIN after : y \in 1 .. n \/ y \in n + 1 .. n + c
      BY <1>1, <1>2, <2>2
    <2>4. \A y \in 1 .. n : IsPage(y, base[y])
      BY <1>2, <1>5 DEF ArePages
    <2>5. \A y \in DOMAIN after : IsPage(y, after[y])
      BY <2>2, <2>3, <2>4
    <2> QED
      BY <1>2, <1>5, <2>2, <2>5 DEF AfterInsert
  <1>6. CASE Fits(leaf, cell)
    <2> DEFINE base == [pages EXCEPT ![leaf] = Put(@, cell)]
    <2>1. pages' = base \o Chain(r) /\ call' = call
      BY <1>6 DEF Insert
    <2>2. Put(pages[leaf], cell) \in PageRecords /\ IsPage(leaf, Put(pages[leaf], cell))
      BY <1>1, <1>3, <1>6, PutIsPage
    <2>3. /\ base \in Seq(PageRecords) /\ Len(base) = n
          /\ \A k \in 1 .. n : base[k] = IF k = leaf THEN Put(pages[leaf], cell) ELSE pages[k]
      <3> DEFINE e == Put(pages[leaf], cell)
      <3>1. base = [pages EXCEPT ![leaf] = e] /\ leaf \in 1 .. Len(pages)
        BY <1>2
      <3> HIDE DEF e, base
      <3> QED
        BY <1>2, <2>2, <3>1, SeqWritten DEF e
    <2>4. /\ Put(pages[leaf], cell).kind = pages[leaf].kind
          /\ Put(pages[leaf], cell).right = pages[leaf].right
          /\ Put(pages[leaf], cell).cells = more
      BY <1>3 DEF Put, PageRecords
    <2> HIDE DEF base
    <2>5. AfterInsert(r, leaf, pages') /\ pages'[leaf] = base[leaf]
      BY <1>2, <1>5, <2>1, <2>2, <2>3, <2>4
    <2> QED
      BY <1>2, <1>4, <1>6, <2>1, <2>3, <2>4, <2>5 DEF IsInserted
  <1>7. CASE ~Fits(leaf, cell)
    <2>1. pages' = pages \o Chain(r)
          /\ call' = [op |-> "split", path |-> path, cell |-> cell, todo |-> <<>>]
      BY <1>7 DEF Insert
    <2>2. AfterInsert(r, leaf, pages') /\ pages'[leaf] = pages[leaf]
      BY <1>2, <1>3, <1>5, <2>1
    <2> QED
      BY <1>4, <1>7, <2>1, <2>2 DEF IsInserted
  <1> QED
    BY <1>6, <1>7

\* The row goes to a leaf that is responsible for it.
IsInsertion(t, head, r, path, leaf, cell, more, u) ==
  /\ AtRest(t, head) /\ r \in Rowids /\ r \notin rows /\ cell = NewCell(r)
  /\ IsPath(t, path) /\ path = PathTo(r) /\ leaf = Last(path) /\ leaf \in DOMAIN t
  /\ r \in t[leaf].rng /\ t[leaf].lev = 0
  /\ more = WithCell(pages[leaf].cells, cell) /\ u = WithKeys(t, leaf, KeysOf(more))

\* A leaf that has no row r can be given its cell.
LEMMA LeafTakes ==
  ASSUME NEW t, NEW head, NEW r, NEW path, NEW leaf, NEW cell, NEW more, NEW u,
         IsInsertion(t, head, r, path, leaf, cell, more, u), NEW i, i = Place(pages[leaf].cells, r)
  PROVE  /\ i \in 1 .. Len(pages[leaf].cells) + 1
         /\ Inserts(CellRecords, more, pages[leaf].cells, i, cell)
         /\ Inserts(Nat, KeysOf(more), t[leaf].keys, i, r) /\ KeysAre(KeysOf(more), more)
         /\ IsTree(u, rows \cup {r}) /\ IsLeaf(t, rows, head, leaf)
  <1> DEFINE k == t[leaf].keys
             cells == pages[leaf].cells
             rng == t[leaf].rng
  <1>1. IsLeaf(t, rows, head, leaf) /\ IsTree(t, rows) /\ ArePages
    BY DEF IsInsertion, AtRest, Settled
  <1>2. cell \in CellRecords /\ cell.key = r /\ r \in Nat
    BY <1>1, NewCellIs, BTreeAssumption DEF IsInsertion
  <1>3. PICK n \in Nat : n = Len(k) /\ DOMAIN k = 1 .. n /\ k \in Seq(Nat)
    BY <1>1 DEF IsLeaf, IsNodeData
  <1>4. cells \in Seq(CellRecords) /\ KeysAre(k, cells) /\ Sorted(k) /\ HasRows(t[leaf], rows)
        /\ rng \subseteq Nat /\ Len(cells) = n /\ \A j \in 1 .. n : k[j] \in rng
    BY <1>1, <1>3 DEF IsLeaf, IsNodeData, KeysAre
  <1>5. \A j \in 1 .. n : k[j] # r /\ k[j] \in rows
    BY <1>3, <1>4 DEF IsInsertion, HasRows
  <1>6. \A x \in rows : x \in rng => \E j \in 1 .. n : k[j] = x
    BY <1>3, <1>4 DEF HasRows
  <1> HIDE DEF k, cells, rng
  <1>7. more = WithCell(cells, cell) /\ i = Place(cells, cell.key)
    BY <1>2 DEF IsInsertion, cells
  <1>8. /\ i \in 1 .. Len(k) + 1 /\ i \in 1 .. Len(cells) + 1
        /\ (i > 1 => k[i - 1] < r) /\ (i <= Len(k) => r < k[i])
        /\ Inserts(CellRecords, more, cells, i, cell) /\ Inserts(Nat, KeysOf(more), k, i, r)
        /\ KeysAre(KeysOf(more), more)
    <2>1. /\ i \in 1 .. Len(k) + 1 /\ i \in 1 .. Len(cells) + 1 /\ cell.key \in Nat
          /\ (i > 1 => k[i - 1] < cell.key) /\ (i <= Len(k) => cell.key < k[i])
          /\ Inserts(CellRecords, more, cells, i, cell) /\ Inserts(Nat, KeysOf(more), k, i, cell.key)
          /\ KeysAre(KeysOf(more), more)
      <3>1. \A j \in 1 .. Len(k) : k[j] # cell.key
        BY <1>2, <1>3, <1>5
      <3> QED
        BY <1>2, <1>3, <1>4, <1>7, <3>1, CellInserted
    <2> QED
      BY <1>2, <2>1
  <1> DEFINE g == KeysOf(more)
  <1>9. g \in Seq(Nat) /\ Sorted(g) /\ Inserts(Nat, g, k, i, r)
    <2> HIDE DEF g
    <2>1. Inserts(Nat, g, k, i, r)
      BY <1>8 DEF g
    <2>2. Sorted(g)
      BY <1>2, <1>3, <1>4, <1>8, <2>1, KeyInserted DEF k
    <2> QED
      BY <2>1, <2>2 DEF Inserts
  <1> HIDE DEF g
  <1>10. Len(g) = n + 1 /\ DOMAIN g = 1 .. n + 1
         /\ \A j \in 1 .. n + 1 : g[j] = IF j < i THEN k[j] ELSE IF j = i THEN r ELSE k[j - 1]
    BY <1>3, <1>9 DEF Inserts
  <1>11. \A j \in 1 .. n + 1 : g[j] = r \/ \E x \in 1 .. n : g[j] = k[x]
    <2> SUFFICES ASSUME NEW j \in 1 .. n + 1 PROVE g[j] = r \/ \E x \in 1 .. n : g[j] = k[x]
      OBVIOUS
    <2>1. CASE j < i
      <3>1. j \in 1 .. n /\ g[j] = k[j]
        BY <1>3, <1>8, <1>10, <2>1
      <3> QED
        BY <3>1
    <2>2. CASE j = i
      BY <1>10, <2>2
    <2>3. CASE j > i
      <3>1. PICK x : x = j - 1
        OBVIOUS
      <3>2. x \in 1 .. n /\ g[j] = k[x]
        BY <1>3, <1>8, <1>10, <2>3, <3>1
      <3> QED
        BY <3>2
    <2> QED
      BY <1>8, <2>1, <2>2, <2>3
  <1>12. \A x \in 1 .. n : \E j \in 1 .. n + 1 : g[j] = k[x]
    <2> SUFFICES ASSUME NEW x \in 1 .. n PROVE \E j \in 1 .. n + 1 : g[j] = k[x]
      OBVIOUS
    <2>1. CASE x < i
      <3>1. x \in 1 .. n + 1
        OBVIOUS
      <3> QED
        BY <1>10, <2>1, <3>1
    <2>2. CASE x >= i
      <3>1. PICK j : j = x + 1
        OBVIOUS
      <3>2. j \in 1 .. n + 1 /\ j > i /\ j - 1 = x
        BY <1>8, <2>2, <3>1
      <3>3. g[j] = k[x]
        BY <1>8, <1>10, <3>2
      <3> QED
        BY <3>2, <3>3
    <2> QED
      BY <1>8, <2>1, <2>2
  <1>13. \E j \in 1 .. n + 1 : g[j] = r
    <2>1. i \in 1 .. n + 1
      BY <1>3, <1>8
    <2> QED
      BY <1>10, <2>1
  <1>14. r \in rng
    BY DEF IsInsertion, rng
  <1> DEFINE Q == rows \cup {r}
  <1>15. /\ \A j \in DOMAIN g : g[j] \in rng /\ g[j] \in Q
         /\ \A x \in Q \cap rng : \E j \in DOMAIN g : g[j] = x
         /\ \A x \in Nat \ rng : x \in rows <=> x \in Q
    <2>1. \A j \in DOMAIN g : g[j] \in rng /\ g[j] \in Q
      BY <1>4, <1>5, <1>10, <1>11, <1>14
    <2>2. ASSUME NEW x \in Q \cap rng
          PROVE  \E j \in DOMAIN g : g[j] = x
      <3>1. CASE x = r
        BY <1>10, <1>13, <3>1
      <3>2. CASE x \in rows
        <4>1. PICK y \in 1 .. n : k[y] = x
          BY <1>6, <2>2, <3>2
        <4> QED
          BY <1>10, <1>12, <4>1
      <3> QED
        BY <2>2, <3>1, <3>2
    <2>3. \A x \in Nat \ rng : x \in rows <=> x \in Q
      BY <1>14
    <2> QED
      BY <2>1, <2>2, <2>3
  <1> HIDE DEF Q
  <1>16. IsTree(WithKeys(t, leaf, g), Q)
    <2>1. leaf \in DOMAIN t /\ t[leaf].lev = 0
      BY DEF IsInsertion
    <2> QED
      BY <1>1, <1>9, <1>15, <2>1, LeafHasRows DEF rng
  <1>17. IsTree(u, rows \cup {r})
    BY <1>16 DEF IsInsertion, g, Q
  <1> QED
    BY <1>1, <1>8, <1>17 DEF k, cells

WithHead(head, r, h) == [s \in rows \cup {r} |-> IF s = r THEN h ELSE head[s]]

\* The chains of the rows there were stay, and the new one is after them.
LEMMA ChainsAfterInsert ==
  ASSUME ArePages, rows \subseteq Rowids, NEW head, AreChains(head), NEW r \in Rowids, r \notin rows,
         NEW leaf \in DOMAIN pages, pages[leaf].kind = "leaf",
         AfterInsert(r, leaf, pages'), rows' = rows \cup {r},
         NEW h, h = NewCell(r).page, NEW heads, heads = WithHead(head, r, h)
  PROVE  AreChains(heads)'
  <1>1. PICK c \in Nat : c = Payload[r].chain /\ h = IF c = 0 THEN 0 ELSE Len(pages) + c
    BY NewCellIs
  <1>2. PICK n \in Nat : n = Len(pages) /\ DOMAIN pages = 1 .. n
    BY DEF ArePages
  <1>3. h \in Nat
    BY <1>1, <1>2
  <1>4. PICK after : after = pages'
    OBVIOUS
  <1>5. /\ DOMAIN after = 1 .. n + c /\ Len(after) = n + c
        /\ \A y \in DOMAIN pages \ {leaf} : after[y] = pages[y]
        /\ \A y \in n + 1 .. n + c :
             after[y].kind = "overflow" /\ after[y].right = IF y = n + 1 THEN 0 ELSE y - 1
    BY <1>1, <1>2, <1>4 DEF AfterInsert
  <1>6. /\ \A s \in rows : heads[s] = head[s]
        /\ heads[r] = h
    BY DEF WithHead
  <1>7. ASSUME NEW s \in rows
        PROVE  heads[s] \in Nat /\ IsChain(s, heads[s])'
    <2>1. PICK g \in Nat : g = head[s] /\ IsChain(s, g)
      BY DEF AreChains
    <2>2. DOMAIN pages \subseteq DOMAIN after
      BY <1>2, <1>5
    <2>3. \A x \in DOMAIN pages : pages[x].kind = "overflow" => after[x] = pages[x]
      BY <1>5
    <2>4. IsChain(s, g)'
      BY <1>4, <2>1, <2>2, <2>3, ChainStays
    <2>5. heads[s] = g
      BY <1>6, <2>1
    <2> QED
      BY <2>4, <2>5
  <1>8. IsChain(r, h)'
    <2>1. CASE c = 0
      BY <1>1, <2>1 DEF IsChain
    <2>2. CASE c > 0
      <3>1. h = n + c /\ h \in 1 .. n + c /\ c <= h /\ h - c + 1 = n + 1
        BY <1>1, <1>2, <2>2
      <3>2. \A x \in (h - c + 1) .. h :
              after[x].kind = "overflow" /\ after[x].right = IF x = h - c + 1 THEN 0 ELSE x - 1
        BY <1>5, <3>1
      <3>3. h \in DOMAIN after
        BY <1>5, <3>1
      <3> QED
        BY <1>1, <1>4, <2>2, <3>1, <3>2, <3>3 DEF IsChain
    <2> QED
      BY <2>1, <2>2
  <1>9. \A s \in rows \cup {r} : heads[s] \in Nat /\ IsChain(s, heads[s])'
    <2> SUFFICES ASSUME NEW s \in rows \cup {r}
                 PROVE  heads[s] \in Nat /\ IsChain(s, heads[s])'
      OBVIOUS
    <2>1. CASE s = r
      <3>1. heads[s] = h
        BY <1>6, <2>1
      <3> QED
        BY <1>3, <1>8, <2>1, <3>1
    <2>2. CASE s \in rows
      BY <1>7, <2>2
    <2> QED
      BY <2>1, <2>2
  <1>10. ASSUME NEW s \in rows, Payload[s].chain > 0, c > 0
         PROVE  heads[s] + c <= h
    <2>1. IsChain(s, head[s]) /\ head[s] \in Nat
      BY DEF AreChains
    <2>2. head[s] \in 1 .. n
      BY <1>2, <1>10, <2>1 DEF IsChain
    <2> QED
      BY <1>1, <1>2, <1>6, <1>10, <2>2
  <1>11. ASSUME NEW q \in rows \cup {r}, NEW s \in rows \cup {r}, q # s,
                Payload[q].chain > 0, Payload[s].chain > 0
         PROVE  heads[q] + Payload[s].chain <= heads[s] \/ heads[s] + Payload[q].chain <= heads[q]
    <2>1. CASE q \in rows /\ s \in rows
      BY <1>6, <1>11, <2>1 DEF AreChains
    <2>2. CASE q = r
      BY <1>1, <1>6, <1>10, <1>11, <2>2
    <2>3. CASE s = r
      BY <1>1, <1>6, <1>10, <1>11, <2>3
    <2> QED
      BY <2>1, <2>2, <2>3
  <1> QED
    BY <1>9, <1>11 DEF AreChains

\* The pages hold the tree with the row.
LEMMA HoldAfterInsert ==
  ASSUME NEW t, NEW head, NEW r, NEW path, NEW leaf, NEW cell, NEW more, NEW u,
         IsInsertion(t, head, r, path, leaf, cell, more, u), Root \in DOMAIN pages,
         AfterInsert(r, leaf, pages'), IsInserted(r, path, leaf, more, pages'),
         NEW heads, heads = WithHead(head, r, cell.page)
  PROVE  Hold(u, heads)'
  <1>1. /\ AtRest(t, head) /\ ArePages /\ DOMAIN t = InTree /\ IsLeaf(t, rows, head, leaf)
        /\ r \in Rowids /\ r \notin rows /\ leaf \in DOMAIN t /\ t[leaf].lev = 0 /\ cell = NewCell(r)
        /\ cell \in CellRecords /\ cell.key = r /\ IsTree(t, rows) /\ Hold(t, head)
    BY NewCellIs DEF IsInsertion, AtRest, Settled
  <1>2. PICK n \in Nat : n = Len(pages) /\ DOMAIN pages = 1 .. n
    BY <1>1 DEF ArePages
  <1>3. PICK c \in Nat : c = Payload[r].chain
    BY <1>1, NewCellIs
  <1>4. PICK after : after = pages'
    OBVIOUS
  <1>5. /\ DOMAIN after = 1 .. n + c
        /\ \A y \in DOMAIN pages \ {leaf} : after[y] = pages[y]
        /\ after[leaf].kind = pages[leaf].kind /\ after[leaf].right = pages[leaf].right
        /\ \A y \in n + 1 .. n + c : after[y].kind = "overflow"
    BY <1>2, <1>3, <1>4 DEF AfterInsert
  <1>6. InTree' = InTree
    <2>1. \A y : y \in 1 .. n + c <=> y \in 1 .. n \/ y \in n + 1 .. n + c
      OBVIOUS
    <2>2. leaf \in 1 .. n /\ leaf \in InTree
      BY <1>1, <1>2 DEF InTree
    <2>3. \A y \in 1 .. n : after[y].kind = pages[y].kind
      BY <1>2, <1>5
    <2> QED
      BY <1>2, <1>4, <1>5, <2>1, <2>3 DEF InTree
  <1>7. Todo' = <<>> /\ \A y : Held(y)' = IF y = leaf THEN more ELSE after[y].cells
    <2>1. CASE Fits(leaf, NewCell(r)) /\ call' = Idle /\ after[leaf].cells = more
      BY <1>4, <2>1 DEF Todo, Held, Idle
    <2>2. CASE /\ ~Fits(leaf, NewCell(r)) /\ after[leaf] = pages[leaf]
               /\ call' = [op |-> "split", path |-> path, cell |-> NewCell(r), todo |-> <<>>]
      <3>1. more = WithCell(pages[leaf].cells, cell) /\ leaf = Last(path)
        BY DEF IsInsertion
      <3>2. call'.op = "split" /\ call'.path = path /\ call'.cell = cell /\ call'.todo = <<>>
        BY <1>1, <2>2
      <3>3. Todo' = <<>>
        BY <3>2 DEF Todo
      <3>4. ASSUME NEW y
            PROVE  Held(y)' = IF y = leaf THEN more ELSE after[y].cells
        BY <1>4, <2>2, <3>1, <3>2 DEF Held
      <3> QED
        BY <3>3, <3>4
    <2> QED
      BY <1>4, <2>1, <2>2 DEF IsInserted
  <1>8. DOMAIN u = DOMAIN t /\ \A y \in DOMAIN t \ {leaf} : u[y] = t[y]
    BY DEF IsInsertion, WithKeys
  <1>9. u[leaf] = Node(0, t[leaf].rng, KeysOf(more), t[leaf].kids)
    BY <1>1 DEF IsInsertion, WithKeys
  <1>10. ASSUME NEW p \in InTree, p # leaf
         PROVE  Holds(p, u[p], heads)'
    <2>1. OfTree(t, rows, head, p) /\ Held(p) = pages[p].cells
      BY <1>1, TreePage DEF Held, AtRest, Idle
    <2>2. Shows(t[p], pages[p].kind, pages[p].cells, pages[p].right, <<>>, head)
      BY <1>1, <2>1 DEF OfTree, AtRest
    <2>3. u[p] = t[p] /\ after[p] = pages[p]
      BY <1>1, <1>5, <1>8, <1>10 DEF InTree
    <2>4. t[p].lev = 0 => HeadsAre(pages[p].cells, heads)
      <3> SUFFICES ASSUME t[p].lev = 0, NEW i \in 1 .. Len(pages[p].cells)
                   PROVE  pages[p].cells[i].page = heads[pages[p].cells[i].key]
        BY DEF HeadsAre
      <3>1. IsLeaf(t, rows, head, p)
        BY <1>1 DEF AtRest, Settled
      <3>2. PICK s : s = pages[p].cells[i].key
        OBVIOUS
      <3>3. s = t[p].keys[i] /\ i \in DOMAIN t[p].keys
        BY <3>1, <3>2 DEF IsLeaf, KeysAre, IsNodeData
      <3>4. s \in rows
        BY <3>1, <3>3 DEF IsLeaf, HasRows
      <3>5. heads[s] = head[s]
        BY <1>1, <3>4 DEF WithHead
      <3> QED
        BY <3>1, <3>2, <3>5 DEF IsLeaf, HeadsAre
    <2>5. Shows(t[p], pages[p].kind, pages[p].cells, pages[p].right, <<>>, heads)
      BY <2>2, <2>4 DEF Shows
    <2>6. t[p].lev = 0 /\ p # Root => Len(pages[p].cells) > 0
      BY <1>1, <2>1 DEF Hold, Holds
    <2>7. Held(p)' = pages[p].cells
      BY <1>7, <1>10, <2>3
    <2> QED
      BY <1>4, <1>7, <2>3, <2>5, <2>6, <2>7 DEF Holds
  <1>11. Holds(leaf, u[leaf], heads)'
    <2> DEFINE cells == pages[leaf].cells
    <2>1. PICK i : i = Place(cells, r)
      OBVIOUS
    <2>2. /\ i \in 1 .. Len(cells) + 1 /\ Inserts(CellRecords, more, cells, i, cell)
          /\ KeysAre(KeysOf(more), more)
      BY <2>1, LeafTakes
    <2>3. PICK m \in Nat : m = Len(cells)
      BY <1>1 DEF IsLeaf
    <2>4. Len(more) = m + 1 /\ \A j \in 1 .. m + 1 :
            more[j] = IF j < i THEN cells[j] ELSE IF j = i THEN cell ELSE cells[j - 1]
      BY <2>2, <2>3 DEF Inserts
    <2>5. \A j \in 1 .. m : cells[j].page = heads[cells[j].key]
      <3> SUFFICES ASSUME NEW j \in 1 .. m
                   PROVE  cells[j].page = heads[cells[j].key]
        OBVIOUS
      <3>1. PICK s : s = cells[j].key
        OBVIOUS
      <3>2. s = t[leaf].keys[j] /\ j \in DOMAIN t[leaf].keys
        BY <1>1, <2>3, <3>1 DEF IsLeaf, KeysAre, IsNodeData
      <3>3. s \in rows
        BY <1>1, <3>2 DEF IsLeaf, HasRows
      <3>4. heads[s] = head[s]
        BY <1>1, <3>3 DEF WithHead
      <3> QED
        BY <1>1, <2>3, <3>1, <3>4 DEF IsLeaf, HeadsAre
    <2> HIDE DEF cells
    <2>6. heads[r] = cell.page
      BY DEF WithHead
    <2>7. ASSUME NEW j \in 1 .. m + 1
          PROVE  more[j].page = heads[more[j].key]
      <3>1. CASE j < i
        <4>1. j \in 1 .. m
          BY <2>2, <2>3, <3>1
        <4> QED
          BY <2>4, <2>5, <3>1, <4>1
      <3>2. CASE j = i
        BY <1>1, <2>4, <2>6, <3>2
      <3>3. CASE j > i
        <4>1. PICK x : x = j - 1
          OBVIOUS
        <4>2. x \in 1 .. m /\ more[j] = cells[x]
          BY <2>2, <2>3, <2>4, <3>3, <4>1
        <4> QED
          BY <2>5, <4>2
      <3> QED
        BY <2>2, <2>3, <3>1, <3>2, <3>3
    <2>8. HeadsAre(more, heads)
      BY <2>4, <2>7 DEF HeadsAre
    <2>9. after[leaf].kind = "leaf"
      BY <1>1, <1>5 DEF IsLeaf
    <2>10. u[leaf].lev = 0 /\ u[leaf].keys = KeysOf(more)
      BY <1>9 DEF Node
    <2>11. Shows(u[leaf], after[leaf].kind, more, after[leaf].right, <<>>, heads)
      BY <2>2, <2>8, <2>9, <2>10 DEF Shows
    <2>12. Held(leaf)' = more
      BY <1>7
    <2>13. Len(more) > 0
      BY <2>4
    <2> QED
      BY <1>4, <1>7, <2>11, <2>12, <2>13 DEF Holds
  <1>12. \A p \in InTree : Holds(p, u[p], heads)'
    BY <1>10, <1>11
  <1> QED
    BY <1>1, <1>6, <1>8, <1>12 DEF Hold

\* A leaf that is full is what the call is to split.
LEMMA CallAfterInsert ==
  ASSUME NEW t, NEW head, NEW r, NEW path, NEW leaf, NEW cell, NEW more, NEW u,
         IsInsertion(t, head, r, path, leaf, cell, more, u), SoundInsert(r),
         AfterInsert(r, leaf, pages'), IsInserted(r, path, leaf, more, pages')
  PROVE  IsCall(u)'
  <1>1. CASE call' = Idle
    BY <1>1 DEF IsCall
  <1>2. CASE /\ ~Fits(leaf, NewCell(r)) /\ pages'[leaf] = pages[leaf]
             /\ call' = [op |-> "split", path |-> path, cell |-> NewCell(r), todo |-> <<>>]
    <2>1. /\ AtRest(t, head) /\ ArePages /\ DOMAIN t = InTree /\ IsLeaf(t, rows, head, leaf)
          /\ r \in Rowids /\ r \notin rows /\ leaf \in DOMAIN t /\ t[leaf].lev = 0 /\ cell = NewCell(r)
          /\ cell \in CellRecords /\ cell.key = r /\ IsTree(t, rows) /\ IsPath(t, path)
          /\ leaf = Last(path) /\ r \in t[leaf].rng /\ path = PathTo(r)
      BY NewCellIs DEF IsInsertion, AtRest, Settled
    <2>2. PICK n \in Nat : n = Len(path) /\ n > 0 /\ path[n] = leaf
          /\ \A k \in 1 .. n : path[k] \in DOMAIN t /\ t[path[k]].lev \in Nat
      BY <2>1, PathPages
    <2>3. DOMAIN u = DOMAIN t /\ (\A y \in DOMAIN t \ {leaf} : u[y] = t[y])
          /\ u[leaf] = Node(t[leaf].lev, t[leaf].rng, KeysOf(more), t[leaf].kids)
      BY <2>1 DEF IsInsertion, WithKeys
    <2>4. \A y \in DOMAIN t : u[y].lev = t[y].lev /\ u[y].kids = t[y].kids /\ u[y].rng = t[y].rng
      BY <2>3 DEF Node
    <2>5. IsPath(u, path)
      <3>1. Root \in DOMAIN t /\ path \in Seq(DOMAIN u)
        BY <2>1, <2>3 DEF IsTree, IsPath
      <3>2. \A k \in 1 .. n : u[path[k]].lev + k = u[Root].lev + 1
        BY <2>1, <2>2, <2>4, <3>1 DEF IsPath
      <3>3. \A k \in 1 .. n - 1 : Below(u, path[k], path[k + 1])
        <4> SUFFICES ASSUME NEW k \in 1 .. n - 1 PROVE Below(u, path[k], path[k + 1])
          OBVIOUS
        <4>1. k \in 1 .. n
          OBVIOUS
        <4>2. Below(t, path[k], path[k + 1])
          BY <2>1, <2>2 DEF IsPath
        <4>3. u[path[k]].kids = t[path[k]].kids
          BY <2>2, <2>4, <4>1
        <4> QED
          BY <4>2, <4>3 DEF Below
      <3> QED
        BY <2>1, <2>2, <3>1, <3>2, <3>3 DEF IsPath
    <2>6. ~Fits(leaf, cell) => HalvesFit(leaf, cell)
      BY <2>1, <2>2, SoundArrives
    <2>7. PICK arr : /\ DOMAIN arr = 1 .. n /\ arr[n] = cell
                     /\ \A k \in 1 .. n - 1 :
                          arr[k] = [key |-> DividerOf(path[k + 1], arr[k + 1]), page |-> path[k + 1]]
                     /\ \A k \in 1 .. n - 1 : (\A j \in k .. n : ~Fits(path[j], arr[j])) =>
                          DividerOf(path[k], arr[k]) # arr[k].key
      BY <2>1, <2>2, SoundArrives
    <2>8. ASSUME NEW k \in 1 .. n
          PROVE  pages'[path[k]] = pages[path[k]]
      <3>1. path[k] \in DOMAIN pages
        BY <2>1, <2>2 DEF InTree
      <3> QED
        BY <1>2, <3>1 DEF AfterInsert
    <2>9. PICK after : after = pages'
      OBVIOUS
    <2>10. (~Fits(leaf, cell))'
      BY <1>2, <2>1, SamePage
    <2>11. HalvesFit(leaf, cell)'
      <3>1. HalvesFit(leaf, cell)
        BY <1>2, <2>1, <2>6
      <3> QED
        BY <1>2, <3>1 DEF HalvesFit
    <2>12. \A i \in 1 .. Len(after[leaf].cells) : after[leaf].cells[i].key # r
      <3>1. after[leaf] = pages[leaf]
        BY <1>2, <2>9
      <3> SUFFICES ASSUME NEW i \in 1 .. Len(pages[leaf].cells) PROVE pages[leaf].cells[i].key # r
        BY <3>1
      <3>2. pages[leaf].cells[i].key = t[leaf].keys[i] /\ i \in DOMAIN t[leaf].keys
        BY <2>1 DEF IsLeaf, KeysAre, IsNodeData
      <3> QED
        BY <2>1, <3>2 DEF IsLeaf, HasRows
    <2>13. Arrives(u, path, arr)'
      <3>1. ASSUME NEW k \in 1 .. n, NEW e
            PROVE  (Fits(path[k], e)' <=> Fits(path[k], e))
                   /\ DividerOf(path[k], e)' = DividerOf(path[k], e)
        BY <2>8, SamePage
      <3>2. ASSUME NEW k \in 1 .. n - 1
            PROVE  (arr[k] = [key |-> DividerOf(path[k + 1], arr[k + 1]), page |-> path[k + 1]])'
        <4>1. k + 1 \in 1 .. n
          OBVIOUS
        <4> QED
          BY <2>7, <3>1, <4>1
      <3>3. ASSUME NEW k \in 1 .. n, u[path[k]].lev > 0, \A j \in k .. n : ~Fits(path[j], arr[j])'
            PROVE  (DividerOf(path[k], arr[k]) # arr[k].key)'
        <4>1. k # n
          <5>1. u[path[n]].lev = 0
            BY <2>1, <2>2, <2>4
          <5> QED
            BY <3>3, <5>1
        <4>2. k \in 1 .. n - 1
          BY <4>1
        <4>3. \A j \in k .. n : ~Fits(path[j], arr[j])
          BY <3>1, <3>3
        <4> QED
          BY <2>7, <3>1, <4>2, <4>3
      <3> QED
        BY <2>2, <2>7, <3>2, <3>3 DEF Arrives
    <2>14. call'.path = path /\ call'.cell = cell /\ call'.todo = <<>> /\ call'.op = "split"
      BY <1>2, <2>1
    <2>15. (IsSplit(u))'
      <3>1. u[leaf].lev = 0 /\ Len(<<>>) = 0 /\ r \in u[leaf].rng
        BY <2>1, <2>4
      <3> QED
        BY <2>1, <2>2, <2>5, <2>9, <2>10, <2>11, <2>12, <2>13, <2>14, <2>7, <3>1 DEF IsSplit
    <2>16. Todo' = <<>>
      BY <2>14 DEF Todo
    <2>17. IsTodo(u)'
      <3>1. <<>> \in Seq([key : Nat, page : DOMAIN u]) /\ DOMAIN <<>> = {}
        OBVIOUS
      <3> QED
        BY <2>16, <3>1 DEF IsTodo
    <2> QED
      BY <1>2, <2>14, <2>15, <2>17 DEF IsCall
  <1> QED
    BY <1>1, <1>2 DEF IsInserted

\* A rowid that is no divider is no divider of the tree.
LEMMA IsNoDivider ==
  ASSUME NEW t, NEW head, AtRest(t, head), NEW r, r \notin Dividers
  PROVE  NoDivider(t, r)
  <1> SUFFICES ASSUME NEW p \in DOMAIN t, t[p].lev > 0, NEW j \in 1 .. Len(t[p].keys), t[p].keys[j] = r
               PROVE  FALSE
    BY DEF NoDivider
  <1>1. IsInner(t, p)
    BY DEF AtRest, Settled
  <1>2. p \in TreePages("interior")
    BY <1>1, TreePagesAre DEF IsInner
  <1>3. pages[p].cells[j].key = r /\ j \in 1 .. Len(pages[p].cells)
    BY <1>1 DEF IsInner, KeysAre
  <1>4. pages[p].cells[j] \in Range(pages[p].cells)
    BY <1>1, <1>3 DEF IsInner, Range
  <1> QED
    BY <1>2, <1>3, <1>4 DEF Dividers

\* An insertion adds its row to the tree.
LEMMA InsertKeeps ==
  ASSUME PagesHaveRoom, TreeInv, NEW r \in Rowids, call = Idle, SoundInsert(r), Insert(r)
  PROVE  TreeInv'
  <1>1. PICK t, head : AtRest(t, head)
    BY TreeAtRest
  <1>2. ArePages /\ IsTree(t, rows) /\ Hold(t, head) /\ AreChains(head) /\ rows \subseteq Rowids
        /\ Todo = <<>> /\ call.op # "split" /\ Root \in DOMAIN pages /\ DOMAIN t = InTree
    BY <1>1 DEF AtRest, TreeInv, Idle
  <1>3. PICK path : path = PathTo(r)
    OBVIOUS
  <1>4. IsPath(t, path) /\ Last(path) \in DOMAIN t /\ r \in t[Last(path)].rng /\ t[Last(path)].lev = 0
    <2>1. Len(PathTo(r)) \in Nat /\ Len(PathTo(r)) > 0 => r \notin Dividers
      BY DEF SoundInsert
    <2>2. r \notin Dividers
      BY DEF SoundInsert
    <2>3. NoDivider(t, r) /\ r \in Nat
      BY <1>1, <2>2, IsNoDivider, BTreeAssumption
    <2> QED
      BY <1>2, <1>3, <2>3, PathIs
  <1>5. PICK leaf : leaf = Last(path)
    OBVIOUS
  <1>6. PICK cell : cell = NewCell(r)
    OBVIOUS
  <1>7. PICK more : more = WithCell(pages[leaf].cells, cell)
    OBVIOUS
  <1>8. PICK u : u = WithKeys(t, leaf, KeysOf(more))
    OBVIOUS
  <1>9. PICK heads : heads = WithHead(head, r, cell.page)
    OBVIOUS
  <1>10. leaf \in DOMAIN pages /\ pages[leaf].kind = "leaf"
    <2>1. IsLeaf(t, rows, head, leaf)
      BY <1>1, <1>4, <1>5 DEF AtRest, Settled
    <2> QED
      BY <2>1 DEF IsLeaf
  <1>11. /\ AfterInsert(r, leaf, pages') /\ IsInserted(r, path, leaf, more, pages')
         /\ rows' = rows \cup {r} /\ r \notin rows
    BY <1>2, <1>3, <1>5, <1>6, <1>7, <1>10, InsertPages
  <1>12. IsInsertion(t, head, r, path, leaf, cell, more, u)
    BY <1>1, <1>3, <1>4, <1>5, <1>6, <1>7, <1>8, <1>11 DEF IsInsertion
  <1>13. IsTree(u, rows \cup {r})
    <2>1. PICK i : i = Place(pages[leaf].cells, r)
      OBVIOUS
    <2> QED
      BY <1>12, <2>1, LeafTakes
  <1>14. Hold(u, heads)'
    BY <1>2, <1>9, <1>11, <1>12, HoldAfterInsert
  <1>15. AreChains(heads)'
    BY <1>2, <1>6, <1>9, <1>10, <1>11, ChainsAfterInsert
  <1>16. IsCall(u)'
    BY <1>11, <1>12, CallAfterInsert
  <1>17. Represents(u, heads)'
    BY <1>11, <1>13, <1>14, <1>15, <1>16 DEF Represents
  <1>18. ArePages' /\ (Root \in DOMAIN pages)' /\ (rows \subseteq Rowids)'
    <2>1. PICK n \in Nat : n = Len(pages) /\ DOMAIN pages = 1 .. n
      BY <1>2 DEF ArePages
    <2>2. Payload[r].chain \in Nat
      BY <1>2, NewCellIs
    <2>3. PICK after : after = pages'
      OBVIOUS
    <2>4. /\ after \in Seq(PageRecords) /\ Len(after) = n + Payload[r].chain
          /\ \A y \in DOMAIN after : IsPage(y, after[y])
      BY <1>11, <2>1, <2>3 DEF AfterInsert
    <2>5. Root \in DOMAIN after
      BY <1>2, <2>1, <2>2, <2>4
    <2> QED
      BY <1>2, <1>11, <2>3, <2>4, <2>5 DEF ArePages, IsPage, Room
  <1> QED
    BY <1>17, <1>18 DEF TreeInv

-----------------------------------------------------------------------------
\* The cursor

\* The frames lead from page p down to a cell of a leaf.
IsStack(p, s) ==
  /\ s \in Seq([page : InTree, idx : Nat \ {0}]) /\ Len(s) > 0 /\ s[1].page = p
  /\ \A k \in 1 .. Len(s) - 1 :
       /\ pages[s[k].page].kind = "interior" /\ s[k].idx <= Len(pages[s[k].page].cells) + 1
       /\ s[k + 1].page = Child(pages[s[k].page], s[k].idx)
  /\ pages[s[Len(s)].page].kind = "leaf" /\ s[Len(s)].idx <= Len(pages[s[Len(s)].page].cells)

KeyAt(s) == pages[s[Len(s)].page].cells[s[Len(s)].idx].key

\* The last index of a frame.
EndOf(f) == Len(pages[f.page].cells) + (IF pages[f.page].kind = "leaf" THEN 0 ELSE 1)

\* Between calls a page of the tree is an inner page or a leaf.
InnerIs(t, p) == t[p].lev \in Nat /\ pages[p].kind = "interior" /\ IsInner(t, p)

LeafIs(t, p) ==
  LET cells == pages[p].cells
  IN  /\ pages[p].kind = "leaf" /\ t[p].lev = 0 /\ Len(cells) \in Nat /\ t[p].rng \subseteq Nat /\ Convex(t[p].rng)
      /\ p # Root => Len(cells) > 0
      /\ \A j \in 1 .. Len(cells) : cells[j].key \in rows /\ cells[j].key \in Nat /\ cells[j].key \in t[p].rng
      /\ \A i, j \in 1 .. Len(cells) : i < j <=> cells[i].key < cells[j].key
      /\ \A r \in rows : r \in t[p].rng => \E i \in 1 .. Len(cells) : cells[i].key = r

\* A page of a tree at rest is an interior page or a leaf.
LEMMA PageIs ==
  ASSUME NEW t, NEW head, AtRest(t, head), NEW p \in DOMAIN t
  PROVE  InnerIs(t, p) \/ LeafIs(t, p)
  <1>1. IsTree(t, rows) /\ Settled(t, rows, head) /\ rows \subseteq Rowids
    BY DEF AtRest
  <1>2. t[p].lev \in Nat
    BY <1>1 DEF IsTree, IsNode, IsNodeData
  <1>3. CASE t[p].lev > 0
    BY <1>1, <1>2, <1>3 DEF Settled, InnerIs, IsInner
  <1>4. CASE t[p].lev = 0
    <2>1. IsLeaf(t, rows, head, p)
      BY <1>1, <1>4 DEF Settled
    <2> DEFINE cells == pages[p].cells
               k == t[p].keys
    <2>2. /\ IsNodeData(t[p]) /\ KeysAre(k, cells) /\ Len(cells) \in Nat /\ HasRows(t[p], rows)
          /\ pages[p].kind = "leaf" /\ (p # Root => Len(cells) > 0)
      BY <2>1 DEF IsLeaf
    <2>3. k \in Seq(Nat) /\ Sorted(k) /\ Len(k) = Len(cells) /\ t[p].rng \subseteq Nat /\ Convex(t[p].rng)
          /\ \A j \in 1 .. Len(cells) : k[j] = cells[j].key
      BY <2>2 DEF IsNodeData, KeysAre
    <2>4. \A j \in 1 .. Len(cells) : k[j] \in t[p].rng /\ k[j] \in rows
      BY <2>2, <2>3 DEF IsNodeData, HasRows
    <2>5. \A r \in rows : r \in t[p].rng => \E i \in 1 .. Len(cells) : k[i] = r
      BY <2>2, <2>3 DEF HasRows
    <2>6. ASSUME NEW i \in 1 .. Len(cells), NEW j \in 1 .. Len(cells)
          PROVE  i < j <=> k[i] < k[j]
      <3> HIDE DEF k, cells
      <3> QED
        BY <2>3, KeyOrder
    <2> HIDE DEF k, cells
    <2>7. \A j \in 1 .. Len(cells) : cells[j].key \in rows /\ cells[j].key \in Nat /\ cells[j].key \in t[p].rng
      BY <2>3, <2>4
    <2>8. \A i, j \in 1 .. Len(cells) : i < j <=> cells[i].key < cells[j].key
      BY <2>3, <2>6
    <2>9. \A r \in rows : r \in t[p].rng => \E i \in 1 .. Len(cells) : cells[i].key = r
      BY <2>3, <2>5
    <2> QED
      BY <1>4, <2>2, <2>3, <2>7, <2>8, <2>9 DEF LeafIs, cells
  <1> QED
    BY <1>2, <1>3, <1>4

\* What is known of frame k of a stack.
FrameIs(t, s, k) ==
  /\ s[k].page \in DOMAIN t /\ s[k].page \in DOMAIN pages /\ s[k].idx \in Nat /\ s[k].idx >= 1
  /\ k < Len(s) =>
       /\ InnerIs(t, s[k].page) /\ s[k].idx \in 1 .. Len(pages[s[k].page].cells) + 1
       /\ s[k + 1].page = Child(pages[s[k].page], s[k].idx)
       /\ EndOf(s[k]) = Len(pages[s[k].page].cells) + 1
  /\ k = Len(s) =>
       /\ LeafIs(t, s[k].page) /\ s[k].idx \in 1 .. Len(pages[s[k].page].cells)
       /\ EndOf(s[k]) = Len(pages[s[k].page].cells)

\* The frames of a stack are indices of pages of the tree.
LEMMA StackFrames ==
  ASSUME NEW t, NEW head, AtRest(t, head), NEW p, NEW s, IsStack(p, s)
  PROVE  Len(s) \in Nat /\ \A k \in 1 .. Len(s) : FrameIs(t, s, k)
  <1> DEFINE F == [page : InTree, idx : Nat \ {0}]
  <1>1. s \in Seq(F) /\ Len(s) \in Nat
    BY DEF IsStack
  <1>2. ASSUME NEW k \in 1 .. Len(s)
        PROVE  FrameIs(t, s, k)
    <2>1. s[k] \in F
      <3> HIDE DEF F
      <3> QED
        BY <1>1, <1>2
    <2>2. s[k].page \in InTree /\ s[k].idx \in Nat /\ s[k].idx >= 1
      BY <2>1
    <2>3. s[k].page \in DOMAIN t /\ s[k].page \in DOMAIN pages
      BY <2>2 DEF AtRest, InTree
    <2>4. InnerIs(t, s[k].page) \/ LeafIs(t, s[k].page)
      BY <2>3, PageIs
    <2>5. ASSUME k < Len(s)
          PROVE  /\ InnerIs(t, s[k].page) /\ s[k].idx \in 1 .. Len(pages[s[k].page].cells) + 1
                 /\ s[k + 1].page = Child(pages[s[k].page], s[k].idx)
                 /\ EndOf(s[k]) = Len(pages[s[k].page].cells) + 1
      <3>1. k \in 1 .. Len(s) - 1
        BY <1>1, <2>5
      <3>2. /\ pages[s[k].page].kind = "interior" /\ s[k].idx <= Len(pages[s[k].page].cells) + 1
            /\ s[k + 1].page = Child(pages[s[k].page], s[k].idx)
        BY <3>1 DEF IsStack
      <3>3. InnerIs(t, s[k].page)
        BY <2>4, <3>2 DEF LeafIs
      <3>4. Len(pages[s[k].page].cells) \in Nat
        BY <3>3 DEF InnerIs, IsInner
      <3> QED
        BY <2>2, <3>2, <3>3, <3>4 DEF EndOf
    <2>6. ASSUME k = Len(s)
          PROVE  /\ LeafIs(t, s[k].page) /\ s[k].idx \in 1 .. Len(pages[s[k].page].cells)
                 /\ EndOf(s[k]) = Len(pages[s[k].page].cells)
      <3>1. pages[s[k].page].kind = "leaf" /\ s[k].idx <= Len(pages[s[k].page].cells)
        BY <2>6 DEF IsStack
      <3>2. LeafIs(t, s[k].page)
        BY <2>4, <3>1 DEF InnerIs
      <3>3. Len(pages[s[k].page].cells) \in Nat
        BY <3>2 DEF LeafIs
      <3> QED
        BY <2>2, <3>1, <3>2, <3>3 DEF EndOf
    <2> QED
      BY <2>2, <2>3, <2>5, <2>6 DEF FrameIs
  <1> QED
    BY <1>1, <1>2

\* Where the row a stack leads to stands among those below frame m.
AllAtEnd(s, m) == \A k \in m .. Len(s) : s[k].idx >= EndOf(s[k])

AllAtStart(s, m) == \A k \in m .. Len(s) : s[k].idx <= 1

Bounds(t, s, m) ==
  LET rng == t[s[m].page].rng
  IN  /\ KeyAt(s) \in rng /\ KeyAt(s) \in rows /\ KeyAt(s) \in Nat
      /\ AllAtEnd(s, m) => \A r \in rows : r \in rng => r <= KeyAt(s)
      /\ AllAtStart(s, m) => \A r \in rows : r \in rng => KeyAt(s) <= r

\* The rows left of child i of an inner page are below those of the child, and
\* those right of it above.
Splits(t, p, i) ==
  LET c == Child(pages[p], i)
  IN  /\ c \in DOMAIN t /\ t[c].rng \subseteq t[p].rng /\ t[p].rng \subseteq Nat /\ Convex(t[p].rng)
      /\ \A r \in t[p].rng, x \in t[c].rng :
           r \notin t[c].rng => /\ (r < x /\ i > 1) \/ (x < r /\ i <= Len(pages[p].cells))

\* Child i is responsible for what is between dividers i - 1 and i.
LEMMA ChildSplits ==
  ASSUME NEW t, NEW p, InnerIs(t, p), NEW i \in 1 .. Len(pages[p].cells) + 1
  PROVE  Splits(t, p, i)
  <1> DEFINE n == t[p]
             l == Len(pages[p].cells)
             c == Child(pages[p], i)
  <1>1. /\ IsInner(t, p) /\ IsNodeData(n) /\ l \in Nat /\ Len(n.keys) = l /\ c \in DOMAIN t
        /\ t[c].rng = Slice(n.rng, n.keys, i) /\ n.rng \subseteq Nat /\ Convex(n.rng)
    BY DEF InnerIs, IsInner, KeysAre, IsNodeData
  <1>2. ASSUME NEW r \in n.rng, NEW x \in t[c].rng, r \notin t[c].rng
        PROVE  (r < x /\ i > 1) \/ (x < r /\ i <= l)
    <2>1. PICK j \in 1 .. l + 1 : r \in Slice(n.rng, n.keys, j)
      BY <1>1, SlicesAreAll
    <2>2. j # i
      BY <1>1, <1>2, <2>1
    <2>0. /\ IsNodeData(n) /\ i \in 1 .. Len(n.keys) + 1 /\ j \in 1 .. Len(n.keys) + 1 /\ i \in Nat /\ j \in Nat
          /\ x \in Slice(n.rng, n.keys, i) /\ r \in Slice(n.rng, n.keys, j)
      BY <1>1, <2>1
    <2> HIDE DEF n, l, c
    <2>3. CASE j < i
      <3>1. r < x
        BY <2>0, <2>3, SlicesInOrder
      <3> QED
        BY <1>1, <2>3, <3>1
    <2>4. CASE i < j
      <3>1. x < r
        BY <2>0, <2>4, SlicesInOrder
      <3> QED
        BY <1>1, <2>4, <3>1
    <2> QED
      BY <2>0, <2>2, <2>3, <2>4
  <1>3. t[c].rng \subseteq n.rng
    BY <1>1 DEF Slice
  <1> QED
    BY <1>1, <1>2, <1>3 DEF Splits

\* At its leaf a stack bounds the keys around the current one.
LEMMA BoundsAtLeaf ==
  ASSUME NEW t, NEW s, Len(s) \in Nat, Len(s) > 0, NEW m, m = Len(s), FrameIs(t, s, m)
  PROVE  Bounds(t, s, m)
  <1> PICK p : p = s[m].page
    OBVIOUS
  <1> PICK i : i = s[m].idx
    OBVIOUS
  <1> DEFINE cells == pages[p].cells
  <1>1. LeafIs(t, p) /\ i \in 1 .. Len(cells) /\ EndOf(s[m]) = Len(cells) /\ KeyAt(s) = cells[i].key
    BY DEF FrameIs, KeyAt
  <1>2. /\ Len(cells) \in Nat
        /\ \A j \in 1 .. Len(cells) : cells[j].key \in rows /\ cells[j].key \in Nat /\ cells[j].key \in t[p].rng
        /\ \A h, j \in 1 .. Len(cells) : h < j <=> cells[h].key < cells[j].key
        /\ \A r \in rows : r \in t[p].rng => \E h \in 1 .. Len(cells) : cells[h].key = r
    BY <1>1 DEF LeafIs
  <1> HIDE DEF cells
  <1>3. ASSUME AllAtEnd(s, m), NEW r \in rows, r \in t[p].rng
        PROVE  r <= KeyAt(s)
    <2>1. i >= Len(cells)
      BY <1>1, <1>3 DEF AllAtEnd
    <2>2. PICK h \in 1 .. Len(cells) : cells[h].key = r
      BY <1>2, <1>3
    <2>3. ~(i < h) /\ cells[i].key \in Nat /\ cells[h].key \in Nat
      BY <1>1, <1>2, <2>1
    <2>4. ~(cells[i].key < cells[h].key)
      BY <1>1, <1>2, <2>3
    <2> QED
      BY <1>1, <2>2, <2>3, <2>4
  <1>4. ASSUME AllAtStart(s, m), NEW r \in rows, r \in t[p].rng
        PROVE  KeyAt(s) <= r
    <2>1. i <= 1
      BY <1>1, <1>4 DEF AllAtStart
    <2>2. PICK h \in 1 .. Len(cells) : cells[h].key = r
      BY <1>2, <1>4
    <2>3. ~(h < i) /\ cells[i].key \in Nat /\ cells[h].key \in Nat
      BY <1>1, <1>2, <2>1
    <2>4. ~(cells[h].key < cells[i].key)
      BY <1>1, <1>2, <2>3
    <2> QED
      BY <1>1, <2>2, <2>3, <2>4
  <1> QED
    BY <1>1, <1>2, <1>3, <1>4 DEF Bounds

\* What bounds hold below a frame hold above it.
LEMMA BoundsAbove ==
  ASSUME NEW t, NEW s, Len(s) \in Nat, NEW m \in Nat, m < Len(s), FrameIs(t, s, m),
         NEW n, n = m + 1, Bounds(t, s, n)
  PROVE  Bounds(t, s, m)
  <1> PICK p : p = s[m].page
    OBVIOUS
  <1> PICK i : i = s[m].idx
    OBVIOUS
  <1> PICK c : c = s[n].page
    OBVIOUS
  <1> PICK key : key = KeyAt(s)
    OBVIOUS
  <1>1. /\ InnerIs(t, p) /\ i \in 1 .. Len(pages[p].cells) + 1 /\ c = Child(pages[p], i)
        /\ EndOf(s[m]) = Len(pages[p].cells) + 1
    BY DEF FrameIs
  <1>2. Splits(t, p, i)
    BY <1>1, ChildSplits
  <1>3. /\ t[c].rng \subseteq t[p].rng /\ t[p].rng \subseteq Nat
        /\ \A r \in t[p].rng, x \in t[c].rng :
             r \notin t[c].rng => /\ (r < x /\ i > 1) \/ (x < r /\ i <= Len(pages[p].cells))
    BY <1>1, <1>2 DEF Splits
  <1>4. /\ key \in t[c].rng /\ key \in rows /\ key \in Nat
        /\ AllAtEnd(s, n) => \A r \in rows : r \in t[c].rng => r <= key
        /\ AllAtStart(s, n) => \A r \in rows : r \in t[c].rng => key <= r
    BY DEF Bounds
  <1>5. Len(pages[p].cells) \in Nat
    BY <1>1 DEF InnerIs, IsInner
  <1>6. ASSUME AllAtEnd(s, m), NEW r \in rows, r \in t[p].rng
        PROVE  r <= key
    <2>1. AllAtEnd(s, n) /\ i >= Len(pages[p].cells) + 1
      BY <1>1, <1>6 DEF AllAtEnd
    <2>2. r \in Nat /\ (r \in t[c].rng => r <= key) /\ (r \notin t[c].rng => r < key)
      BY <1>1, <1>3, <1>4, <1>5, <1>6, <2>1
    <2> QED
      BY <1>4, <2>2
  <1>7. ASSUME AllAtStart(s, m), NEW r \in rows, r \in t[p].rng
        PROVE  key <= r
    <2>1. AllAtStart(s, n) /\ i <= 1
      BY <1>1, <1>7 DEF AllAtStart
    <2>2. r \in Nat /\ (r \in t[c].rng => key <= r) /\ (r \notin t[c].rng => key < r)
      BY <1>1, <1>3, <1>4, <1>5, <1>7, <2>1
    <2> QED
      BY <1>4, <2>2
  <1> QED
    BY <1>3, <1>4, <1>6, <1>7 DEF Bounds

\* Every frame of a stack bounds the keys before and after the current one.
LEMMA StackBounds ==
  ASSUME NEW t, NEW head, AtRest(t, head), NEW p, NEW s, IsStack(p, s)
  PROVE  \A m \in 1 .. Len(s) : Bounds(t, s, m)
  <1> PICK l : l = Len(s)
    OBVIOUS
  <1>1. l \in Nat /\ l > 0 /\ \A k \in 1 .. l : FrameIs(t, s, k)
    BY StackFrames DEF IsStack
  <1> DEFINE S == {j \in Nat : j < l => Bounds(t, s, l - j)}
  <1>2. 0 \in S
    <2>1. Bounds(t, s, l)
      <3>1. FrameIs(t, s, l)
        BY <1>1
      <3> QED
        BY <1>1, <3>1, BoundsAtLeaf
    <2> QED
      BY <1>1, <2>1
  <1>3. ASSUME NEW j \in Nat, j \in S
        PROVE  j + 1 \in S
    <2>1. SUFFICES ASSUME j + 1 < l PROVE Bounds(t, s, l - (j + 1))
      OBVIOUS
    <2>2. PICK m : m = l - (j + 1)
      OBVIOUS
    <2>3. PICK n : n = l - j
      OBVIOUS
    <2>4. m \in Nat /\ m \in 1 .. l /\ m < l /\ n = m + 1 /\ Bounds(t, s, n)
      BY <1>1, <1>3, <2>1, <2>2, <2>3
    <2>5. FrameIs(t, s, m)
      BY <1>1, <2>4
    <2>6. Bounds(t, s, m)
      BY <1>1, <2>4, <2>5, BoundsAbove
    <2> QED
      BY <2>2, <2>6
  <1>4. \A j \in Nat : j \in S
    <2> HIDE DEF S
    <2> QED
      BY <1>2, <1>3, Induction
  <1>5. ASSUME NEW m \in 1 .. l
        PROVE  Bounds(t, s, m)
    <2>1. PICK j : j = l - m
      OBVIOUS
    <2>2. j \in Nat /\ j < l /\ m = l - j
      BY <1>1, <2>1
    <2>3. Bounds(t, s, l - j)
      BY <1>4, <2>2
    <2> QED
      BY <2>2, <2>3
  <1> QED
    BY <1>5

\* A frame above a stack.
IsLonger(p, i, s, g) ==
  /\ IsStack(p, g) /\ KeyAt(g) = KeyAt(s)
  /\ AllAtStart(s, 1) /\ i = 1 => AllAtStart(g, 1)
  /\ AllAtEnd(s, 1) /\ i = EndOf(Frame(p, i)) => AllAtEnd(g, 1)

\* A stack below a page, with the frame of the page before it.
LEMMA LongerStack ==
  ASSUME NEW p \in InTree, pages[p].kind = "interior", NEW i \in Nat \ {0}, i <= Len(pages[p].cells) + 1,
         Len(pages[p].cells) \in Nat,
         NEW s, IsStack(Child(pages[p], i), s), NEW g, g = <<Frame(p, i)>> \o s
  PROVE  IsLonger(p, i, s, g)
  <1> DEFINE F == [page : InTree, idx : Nat \ {0}]
             e == Frame(p, i)
  <1>1. e \in F /\ e.page = p /\ e.idx = i
    BY DEF Frame
  <1>2. /\ s \in Seq(F) /\ Len(s) > 0 /\ s[1].page = Child(pages[p], i)
        /\ \A k \in 1 .. Len(s) - 1 :
             /\ pages[s[k].page].kind = "interior" /\ s[k].idx <= Len(pages[s[k].page].cells) + 1
             /\ s[k + 1].page = Child(pages[s[k].page], s[k].idx)
        /\ pages[s[Len(s)].page].kind = "leaf" /\ s[Len(s)].idx <= Len(pages[s[Len(s)].page].cells)
    BY DEF IsStack
  <1>3. IsConsed(F, g, e, s)
    <2> HIDE DEF F, e
    <2>1. <<e>> \o s = g
      BY DEF e
    <2> QED
      BY <1>1, <1>2, <2>1, Consed
  <1> PICK l : l = Len(s)
    OBVIOUS
  <1> PICK h : h = Len(g)
    OBVIOUS
  <1>4. l \in Nat /\ h = l + 1 /\ g \in Seq(F) /\ g[1] = e /\ \A k \in 2 .. h : g[k] = s[k - 1]
    <2>1. l \in Nat
      BY <1>2
    <2> QED
      BY <1>3, <2>1 DEF IsConsed
  <1> HIDE DEF e, F
  <1>5. g[h] = s[l]
    BY <1>2, <1>4
  <1>6. ASSUME NEW k \in 1 .. h - 1
        PROVE  /\ pages[g[k].page].kind = "interior" /\ g[k].idx <= Len(pages[g[k].page].cells) + 1
               /\ g[k + 1].page = Child(pages[g[k].page], g[k].idx)
    <2> PICK n : n = k - 1
      OBVIOUS
    <2>1. CASE k = 1
      <3>1. g[k] = e /\ g[k + 1] = s[1]
        BY <1>2, <1>4, <2>1
      <3> QED
        BY <1>1, <1>2, <3>1
    <2>2. CASE k # 1
      <3>1. n \in 1 .. l - 1 /\ g[k] = s[n] /\ g[k + 1] = s[n + 1]
        BY <1>4, <2>2
      <3> QED
        BY <1>2, <3>1
    <2> QED
      BY <2>1, <2>2
  <1>7. IsStack(p, g)
    <2>1. pages[g[h].page].kind = "leaf" /\ g[h].idx <= Len(pages[g[h].page].cells)
      BY <1>2, <1>5
    <2>2. g \in Seq([page : InTree, idx : Nat \ {0}]) /\ g[1].page = p /\ h > 0
      BY <1>1, <1>4 DEF F
    <2> QED
      BY <1>6, <2>1, <2>2 DEF IsStack
  <1>8. KeyAt(g) = KeyAt(s)
    BY <1>5 DEF KeyAt
  <1>9. ASSUME AllAtStart(s, 1), i = 1
        PROVE  AllAtStart(g, 1)
    <2> SUFFICES ASSUME NEW k \in 1 .. h PROVE g[k].idx <= 1
      BY DEF AllAtStart
    <2> PICK n : n = k - 1
      OBVIOUS
    <2>1. CASE k = 1
      BY <1>1, <1>4, <1>9, <2>1
    <2>2. CASE k # 1
      <3>1. n \in 1 .. l /\ g[k] = s[n]
        BY <1>4, <2>2
      <3> QED
        BY <1>9, <3>1 DEF AllAtStart
    <2> QED
      BY <2>1, <2>2
  <1>10. ASSUME AllAtEnd(s, 1), i = EndOf(e)
         PROVE  AllAtEnd(g, 1)
    <2> SUFFICES ASSUME NEW k \in 1 .. h PROVE g[k].idx >= EndOf(g[k])
      BY DEF AllAtEnd
    <2> PICK n : n = k - 1
      OBVIOUS
    <2>1. CASE k = 1
      <3>1. g[k] = e
        BY <1>4, <2>1
      <3> QED
        BY <1>1, <1>10, <3>1
    <2>2. CASE k # 1
      <3>1. n \in 1 .. l /\ g[k] = s[n]
        BY <1>4, <2>2
      <3> QED
        BY <1>10, <3>1 DEF AllAtEnd
    <2> QED
      BY <2>1, <2>2
  <1> QED
    BY <1>7, <1>8, <1>9, <1>10 DEF IsLonger, e

\* The stack of one cell of a leaf.
LEMMA LeafStack ==
  ASSUME NEW p \in InTree, pages[p].kind = "leaf", NEW i \in Nat \ {0}, i <= Len(pages[p].cells),
         NEW s, s = <<Frame(p, i)>>
  PROVE  /\ IsStack(p, s) /\ KeyAt(s) = pages[p].cells[i].key
         /\ i = 1 => AllAtStart(s, 1)
         /\ i = EndOf(Frame(p, i)) => AllAtEnd(s, 1)
  <1> DEFINE F == [page : InTree, idx : Nat \ {0}]
             e == Frame(p, i)
  <1>1. e \in F /\ e.page = p /\ e.idx = i
    BY DEF Frame
  <1>2. s \in Seq(F) /\ Len(s) = 1 /\ s[1] = e
    <2>1. s = <<e>>
      OBVIOUS
    <2> HIDE DEF F, e
    <2> QED
      BY <1>1, <2>1
  <1> HIDE DEF e
  <1>3. IsStack(p, s)
    BY <1>1, <1>2 DEF IsStack
  <1>4. KeyAt(s) = pages[p].cells[i].key
    BY <1>1, <1>2 DEF KeyAt
  <1>5. i = 1 => AllAtStart(s, 1)
    <2> SUFFICES ASSUME i = 1, NEW k \in 1 .. Len(s) PROVE s[k].idx <= 1
      BY DEF AllAtStart
    <2> QED
      BY <1>1, <1>2
  <1>6. i = EndOf(e) => AllAtEnd(s, 1)
    <2> SUFFICES ASSUME i = EndOf(e), NEW k \in 1 .. Len(s) PROVE s[k].idx >= EndOf(s[k])
      BY DEF AllAtEnd
    <2>1. s[k] = e
      BY <1>2
    <2> QED
      BY <1>1, <2>1
  <1> QED
    BY <1>3, <1>4, <1>5, <1>6 DEF e

\* Where the descents to the first and to the last row of a page come.
HasSome(p) == p = Root => pages[p].cells # <<>>

Firsts(p, s) == IsStack(p, s) /\ AllAtStart(s, 1)

Lasts(p, s) == IsStack(p, s) /\ AllAtEnd(s, 1)

\* The descent to the first cell of a page ends on its least key, or finds nothing
\* where there is no row.
LEMMA FirstIs ==
  ASSUME NEW t, NEW head, AtRest(t, head)
  PROVE  /\ \A p \in DOMAIN t : HasSome(p) => Firsts(p, DescendFirst(p))
         /\ \A p \in DOMAIN t : ~HasSome(p) => DescendFirst(p) = <<>>
  <1>1. /\ ArePages /\ IsTree(t, rows) /\ Leads(t) /\ DOMAIN t = InTree /\ DOMAIN t \subseteq DOMAIN pages
    BY DEF AtRest, InTree
  <1>2. PICK f : GoesFirst(f) /\ \A top : DescendFirst(top) = f[top]
    BY <1>1, FirstDescent
  <1> DEFINE S == {p \in DOMAIN t : HasSome(p) => Firsts(p, f[p])}
  <1>3. ASSUME NEW p \in DOMAIN t, t[p].lev > 0 => \A i \in 1 .. Len(t[p].kids) : t[p].kids[i] \in S
        PROVE  p \in S
    <2>1. SUFFICES ASSUME HasSome(p) PROVE Firsts(p, f[p])
      OBVIOUS
    <2>2. p \in InTree /\ p \in DOMAIN pages /\ Len(pages[p].cells) \in Nat
          /\ (pages[p].cells = <<>> <=> Len(pages[p].cells) = 0)
      BY <1>1, PageTypes
    <2>3. CASE LeafIs(t, p)
      <3>1. pages[p].kind = "leaf" /\ pages[p].cells # <<>> /\ 1 <= Len(pages[p].cells)
        BY <2>1, <2>2, <2>3 DEF LeafIs, HasSome
      <3>2. f[p] = <<Frame(p, 1)>>
        BY <1>2, <2>2, <3>1 DEF GoesFirst
      <3>3. IsStack(p, f[p]) /\ AllAtStart(f[p], 1)
        BY <2>2, <3>1, <3>2, LeafStack
      <3> QED
        BY <3>3 DEF Firsts
    <2>4. CASE InnerIs(t, p)
      <3> PICK c : c = Child(pages[p], 1)
        OBVIOUS
      <3>1. /\ IsInner(t, p) /\ pages[p].kind = "interior" /\ Len(pages[p].cells) > 0 /\ 1 \in 1 .. Len(pages[p].cells) + 1
        BY <2>4 DEF InnerIs, IsInner
      <3>2. /\ c \in DOMAIN t /\ c = t[p].kids[1] /\ t[c].lev = t[p].lev - 1 /\ 1 \in 1 .. Len(t[p].kids)
        BY <3>1 DEF IsInner
      <3>3. t[p].lev \in Nat /\ t[p].lev > 0 /\ c # Root
        <4>1. t[p].lev \in Nat /\ t[c].lev \in Nat /\ t[p].lev <= t[Root].lev
          BY <1>1, <3>2 DEF IsTree, IsNode, IsNodeData
        <4> QED
          BY <3>2, <4>1
      <3>4. c \in S
        BY <1>3, <3>2, <3>3
      <3>5. Firsts(c, f[c])
        BY <3>3, <3>4 DEF HasSome
      <3>6. f[p] = <<Frame(p, 1)>> \o f[c]
        BY <1>2, <2>2, <3>1 DEF GoesFirst
      <3> PICK s : s = f[c]
        OBVIOUS
      <3> PICK g : g = f[p]
        OBVIOUS
      <3>7. IsLonger(p, 1, s, g)
        <4>1. IsStack(Child(pages[p], 1), s) /\ g = <<Frame(p, 1)>> \o s
          BY <3>5, <3>6 DEF Firsts
        <4>2. 1 \in Nat \ {0} /\ 1 <= Len(pages[p].cells) + 1
          BY <2>2
        <4> QED
          BY <2>2, <3>1, <4>1, <4>2, LongerStack
      <3> QED
        BY <3>5, <3>7 DEF IsLonger, Firsts
    <2> QED
      BY <2>3, <2>4, PageIs
  <1>4. \A p \in DOMAIN t : p \in S
    <2> HIDE DEF S
    <2> QED
      BY <1>1, <1>3, TreeInduction
  <1>5. ASSUME NEW p \in DOMAIN t, ~HasSome(p)
        PROVE  f[p] = <<>>
    <2>1. pages[p].cells = <<>> /\ p \in DOMAIN pages /\ Len(pages[p].cells) = 0
      BY <1>1, <1>5, PageTypes DEF HasSome
    <2>2. pages[p].kind # "interior"
      BY <2>1, PageIs DEF InnerIs, IsInner, LeafIs
    <2> QED
      BY <1>2, <2>1, <2>2 DEF GoesFirst
  <1> QED
    BY <1>2, <1>4, <1>5

\* The descent to the last cell of a page ends on its greatest key, or finds
\* nothing where there is no row.
LEMMA LastIs ==
  ASSUME NEW t, NEW head, AtRest(t, head)
  PROVE  /\ \A p \in DOMAIN t : HasSome(p) => Lasts(p, DescendLast(p))
         /\ \A p \in DOMAIN t : ~HasSome(p) => DescendLast(p) = <<>>
  <1>1. /\ ArePages /\ IsTree(t, rows) /\ Leads(t) /\ DOMAIN t = InTree /\ DOMAIN t \subseteq DOMAIN pages
    BY DEF AtRest, InTree
  <1>2. PICK f : GoesLast(f) /\ \A top : DescendLast(top) = f[top]
    BY <1>1, LastDescent
  <1> DEFINE S == {p \in DOMAIN t : HasSome(p) => Lasts(p, f[p])}
  <1>3. ASSUME NEW p \in DOMAIN t, t[p].lev > 0 => \A i \in 1 .. Len(t[p].kids) : t[p].kids[i] \in S
        PROVE  p \in S
    <2>1. SUFFICES ASSUME HasSome(p) PROVE Lasts(p, f[p])
      OBVIOUS
    <2>2. p \in InTree /\ p \in DOMAIN pages /\ Len(pages[p].cells) \in Nat
          /\ (pages[p].cells = <<>> <=> Len(pages[p].cells) = 0)
      BY <1>1, PageTypes
    <2>3. CASE LeafIs(t, p)
      <3>1. pages[p].kind = "leaf" /\ pages[p].cells # <<>> /\ 1 <= Len(pages[p].cells)
        BY <2>1, <2>2, <2>3 DEF LeafIs, HasSome
      <3> PICK n : n = Len(pages[p].cells)
        OBVIOUS
      <3>2. f[p] = <<Frame(p, n)>>
        BY <1>2, <2>2, <3>1 DEF GoesLast
      <3>3. IsStack(p, f[p]) /\ AllAtEnd(f[p], 1)
        <4>1. n \in Nat \ {0} /\ n <= Len(pages[p].cells)
          BY <2>2, <3>1
        <4>2. EndOf(Frame(p, n)) = Len(pages[p].cells) + 0
          BY <3>1 DEF EndOf, Frame
        <4>3. n = EndOf(Frame(p, n))
          BY <2>2, <4>2
        <4> QED
          BY <2>2, <3>1, <3>2, <4>1, <4>3, LeafStack
      <3> QED
        BY <3>3 DEF Lasts
    <2>4. CASE InnerIs(t, p)
      <3> PICK n : n = Len(pages[p].cells) + 1
        OBVIOUS
      <3> PICK c : c = Child(pages[p], n)
        OBVIOUS
      <3>1. /\ IsInner(t, p) /\ pages[p].kind = "interior" /\ Len(pages[p].cells) > 0 /\ n \in 1 .. Len(pages[p].cells) + 1
        BY <2>2, <2>4 DEF InnerIs, IsInner
      <3>2. /\ c \in DOMAIN t /\ c = t[p].kids[n] /\ t[c].lev = t[p].lev - 1 /\ n \in 1 .. Len(t[p].kids)
        BY <3>1 DEF IsInner
      <3>3. t[p].lev \in Nat /\ t[p].lev > 0 /\ c # Root
        <4>1. t[p].lev \in Nat /\ t[c].lev \in Nat /\ t[p].lev <= t[Root].lev
          BY <1>1, <3>2 DEF IsTree, IsNode, IsNodeData
        <4> QED
          BY <3>2, <4>1
      <3>4. c \in S
        BY <1>3, <3>2, <3>3
      <3>5. Lasts(c, f[c])
        BY <3>3, <3>4 DEF HasSome
      <3>6. f[p] = <<Frame(p, n)>> \o f[c]
        BY <1>2, <2>2, <3>1 DEF GoesLast
      <3> PICK s : s = f[c]
        OBVIOUS
      <3> PICK g : g = f[p]
        OBVIOUS
      <3>7. IsLonger(p, n, s, g)
        <4>1. IsStack(Child(pages[p], n), s) /\ g = <<Frame(p, n)>> \o s
          BY <3>5, <3>6 DEF Lasts
        <4>2. n \in Nat \ {0} /\ n <= Len(pages[p].cells) + 1
          BY <2>2
        <4> QED
          BY <2>2, <3>1, <4>1, <4>2, LongerStack
      <3>8. n = EndOf(Frame(p, n))
        BY <3>1 DEF EndOf, Frame
      <3> QED
        BY <3>5, <3>7, <3>8 DEF IsLonger, Lasts
    <2> QED
      BY <2>3, <2>4, PageIs
  <1>4. \A p \in DOMAIN t : p \in S
    <2> HIDE DEF S
    <2> QED
      BY <1>1, <1>3, TreeInduction
  <1>5. ASSUME NEW p \in DOMAIN t, ~HasSome(p)
        PROVE  f[p] = <<>>
    <2>1. pages[p].cells = <<>> /\ p \in DOMAIN pages /\ Len(pages[p].cells) = 0
      BY <1>1, <1>5, PageTypes DEF HasSome
    <2>2. pages[p].kind # "interior"
      BY <2>1, PageIs DEF InnerIs, IsInner, LeafIs
    <2> QED
      BY <1>2, <2>1, <2>2 DEF GoesLast
  <1> QED
    BY <1>2, <1>4, <1>5

\* Where a search that ends at a row has come.
AnswerIs(t, p, r, v) ==
  /\ IsStack(p, v.stack) /\ KeyAt(v.stack) \in t[p].rng /\ KeyAt(v.stack) \in rows
  /\ r <= KeyAt(v.stack) /\ KeyAt(v.stack) \in Nat
  /\ \A x \in rows : x \in t[p].rng /\ r <= x => KeyAt(v.stack) <= x
  /\ v.answer = "Equal" <=> KeyAt(v.stack) = r

SearchedFrom(t, p, r, v) ==
  /\ v = [stack |-> v.stack, answer |-> v.answer]
  /\ v.answer \in {"Equal", "Greater", "Less", "Empty"}
  /\ v.answer \in {"Equal", "Greater"} => AnswerIs(t, p, r, v)

\* In a leaf the search comes to the first row that is not below r.
LEMMA LandsIn ==
  ASSUME NEW t, NEW head, AtRest(t, head), NEW p \in DOMAIN t, LeafIs(t, p), NEW r \in Nat, HasFrom(p, r)
  PROVE  SearchedFrom(t, p, r, Landed(p, r))
  <1> DEFINE cells == pages[p].cells
             s == <<Frame(p, Place(cells, r))>>
             v == Landed(p, r)
  <1> PICK i : i = Place(cells, r)
    OBVIOUS
  <1>1. p \in InTree /\ p \in DOMAIN pages /\ cells \in Seq(CellRecords) /\ Len(cells) \in Nat
    BY PageTypes DEF AtRest, InTree
  <1>2. /\ i \in 1 .. Len(cells) + 1
        /\ \A k \in 1 .. Len(cells) : k < i => cells[k].key < r
        /\ i <= Len(cells) => r <= cells[i].key
    <2> HIDE DEF cells
    <2> QED
      BY <1>1, PlaceOf, BTreeAssumption
  <1>3. i \in 1 .. Len(cells)
    BY <1>1, <1>2 DEF HasFrom
  <1>4. /\ pages[p].kind = "leaf"
        /\ \A j \in 1 .. Len(cells) : cells[j].key \in rows /\ cells[j].key \in Nat /\ cells[j].key \in t[p].rng
        /\ \A h, j \in 1 .. Len(cells) : h < j <=> cells[h].key < cells[j].key
        /\ \A x \in rows : x \in t[p].rng => \E h \in 1 .. Len(cells) : cells[h].key = x
    BY DEF LeafIs
  <1>5. IsStack(p, s) /\ KeyAt(s) = cells[i].key
    BY <1>1, <1>3, <1>4, LeafStack
  <1>6. v = [stack |-> s, answer |-> IF cells[i].key = r THEN "Equal" ELSE "Greater"]
    BY DEF Landed
  <1> HIDE DEF cells, s, v
  <1>7. v.stack = s /\ v.answer = (IF cells[i].key = r THEN "Equal" ELSE "Greater")
        /\ v = [stack |-> v.stack, answer |-> v.answer]
    BY <1>6
  <1>8. ASSUME NEW x \in rows, x \in t[p].rng, r <= x
        PROVE  cells[i].key <= x
    <2>1. PICK h \in 1 .. Len(cells) : cells[h].key = x
      BY <1>4, <1>8
    <2>2. cells[h].key \in Nat /\ cells[i].key \in Nat /\ (h < i <=> cells[h].key < cells[i].key)
      BY <1>3, <1>4
    <2>3. ~(h < i)
      BY <1>2, <1>8, <2>1, <2>2
    <2> QED
      BY <2>1, <2>2, <2>3
  <1>9. cells[i].key \in rows /\ cells[i].key \in Nat /\ cells[i].key \in t[p].rng /\ r <= cells[i].key
    BY <1>2, <1>3, <1>4
  <1>10. AnswerIs(t, p, r, v)
    BY <1>5, <1>7, <1>8, <1>9 DEF AnswerIs
  <1> QED
    BY <1>7, <1>10 DEF SearchedFrom, v

\* What a search finds below a child it finds below the page.
LEMMA FoundAbove ==
  ASSUME NEW t, NEW head, AtRest(t, head), NEW p \in DOMAIN t, InnerIs(t, p), NEW r \in Nat, r \in t[p].rng,
         NEW i \in 1 .. Len(pages[p].cells) + 1, NEW c, c = Child(pages[p], i), r \in t[c].rng,
         NEW v, SearchedFrom(t, c, r, v)
  PROVE  SearchedFrom(t, p, r, [v EXCEPT !.stack = <<Frame(p, i)>> \o @])
  <1> DEFINE g == <<Frame(p, i)>> \o v.stack
  <1> PICK w : w = [stack |-> g, answer |-> v.answer]
    OBVIOUS
  <1>1. w = [v EXCEPT !.stack = <<Frame(p, i)>> \o @]
    <2>1. [v EXCEPT !.stack = <<Frame(p, i)>> \o @] = [v EXCEPT !.stack = g]
      BY DEF SearchedFrom
    <2> HIDE DEF g
    <2>2. v = [stack |-> v.stack, answer |-> v.answer]
      BY DEF SearchedFrom
    <2>3. [v EXCEPT !.stack = g] = [stack |-> g, answer |-> v.answer]
      BY <2>2
    <2> QED
      BY <2>1, <2>3
  <1> HIDE DEF g
  <1>2. w.stack = g /\ w.answer = v.answer /\ w = [stack |-> w.stack, answer |-> w.answer]
    OBVIOUS
  <1>3. ASSUME v.answer \in {"Equal", "Greater"}
        PROVE  AnswerIs(t, p, r, w)
    <2> PICK s : s = v.stack
      OBVIOUS
    <2> PICK key : key = KeyAt(s)
      OBVIOUS
    <2>1. /\ IsStack(c, s) /\ key \in t[c].rng /\ key \in rows /\ r <= key /\ key \in Nat
          /\ \A x \in rows : x \in t[c].rng /\ r <= x => key <= x
          /\ v.answer = "Equal" <=> key = r
      BY <1>3 DEF SearchedFrom, AnswerIs
    <2>2. p \in InTree /\ pages[p].kind = "interior" /\ Len(pages[p].cells) \in Nat
      BY DEF AtRest, InnerIs, IsInner
    <2>3. IsLonger(p, i, s, g)
      <3>1. i \in Nat \ {0} /\ i <= Len(pages[p].cells) + 1 /\ g = <<Frame(p, i)>> \o s
            /\ IsStack(Child(pages[p], i), s)
        BY <2>1, <2>2 DEF g
      <3> QED
        BY <2>2, <3>1, LongerStack
    <2>4. IsStack(p, g) /\ KeyAt(g) = key
      BY <2>3 DEF IsLonger
    <2>5. /\ t[c].rng \subseteq t[p].rng /\ t[p].rng \subseteq Nat
          /\ \A a \in t[p].rng, x \in t[c].rng :
               a \notin t[c].rng => /\ (a < x /\ i > 1) \/ (x < a /\ i <= Len(pages[p].cells))
      BY ChildSplits DEF Splits
    <2>6. ASSUME NEW x \in rows, x \in t[p].rng, r <= x
          PROVE  key <= x
      <3>1. CASE x \in t[c].rng
        BY <2>1, <2>6, <3>1
      <3>2. CASE x \notin t[c].rng
        <4>1. (x < r \/ r < x) /\ (x < r \/ i <= Len(pages[p].cells)) /\ (x < key \/ key < x) /\ x \in Nat
          BY <2>1, <2>5, <2>6, <3>2
        <4>2. ~(x < r)
          BY <2>6, <4>1
        <4>3. PICK j \in 1 .. Len(pages[p].cells) + 1 : x \in Slice(t[p].rng, t[p].keys, j)
          BY <2>6, SlicesAreAll DEF InnerIs
        <4>4. /\ IsNodeData(t[p]) /\ Len(t[p].keys) = Len(pages[p].cells) /\ t[c].rng = Slice(t[p].rng, t[p].keys, i)
          BY DEF InnerIs, IsInner, KeysAre
        <4>5. /\ i \in 1 .. Len(t[p].keys) + 1 /\ j \in 1 .. Len(t[p].keys) + 1
              /\ key \in Slice(t[p].rng, t[p].keys, i) /\ r \in Slice(t[p].rng, t[p].keys, i)
          BY <2>1, <4>3, <4>4
        <4>6. ~(j < i)
          BY <4>2, <4>3, <4>4, <4>5, SlicesInOrder
        <4>7. j # i
          BY <3>2, <4>3, <4>4
        <4>8. i < j
          BY <2>2, <4>6, <4>7
        <4>9. key < x
          BY <4>3, <4>4, <4>5, <4>8, SlicesInOrder
        <4> QED
          BY <2>1, <4>1, <4>9
      <3> QED
        BY <3>1, <3>2
    <2> QED
      BY <1>2, <2>1, <2>4, <2>5, <2>6 DEF AnswerIs
  <1>4. v.answer \in {"Equal", "Greater", "Less", "Empty"}
    BY DEF SearchedFrom
  <1>5. SearchedFrom(t, p, r, w)
    BY <1>2, <1>3, <1>4 DEF SearchedFrom
  <1> QED
    BY <1>1, <1>5

\* A search for a rowid that is no divider.
LEMMA SearchIs ==
  ASSUME NEW t, NEW head, AtRest(t, head), NEW r \in Nat, NoDivider(t, r)
  PROVE  SearchedFrom(t, Root, r, Search(r))
  <1>1. /\ ArePages /\ IsTree(t, rows) /\ Hold(t, head) /\ Leads(t) /\ DOMAIN t = InTree
        /\ DOMAIN t \subseteq DOMAIN pages /\ call.op # "split" /\ Todo = <<>>
    BY DEF AtRest, InTree, Idle
  <1>2. PICK f : Searches(r, f) /\ Search(r) = f[Root]
    BY <1>1, SearchDescent
  <1> DEFINE S == {p \in DOMAIN t : r \in t[p].rng => SearchedFrom(t, p, r, f[p])}
  <1>3. ASSUME NEW p \in DOMAIN t, t[p].lev > 0 => \A i \in 1 .. Len(t[p].kids) : t[p].kids[i] \in S
        PROVE  p \in S
    <2>1. SUFFICES ASSUME r \in t[p].rng PROVE SearchedFrom(t, p, r, f[p])
      OBVIOUS
    <2>2. p \in DOMAIN pages /\ Len(pages[p].cells) \in Nat /\ (pages[p].cells = <<>> <=> Len(pages[p].cells) = 0)
      BY <1>1, PageTypes
    <2>3. CASE LeafIs(t, p)
      <3>1. pages[p].kind # "interior"
        BY <2>3 DEF LeafIs
      <3> PICK v : v = f[p]
        OBVIOUS
      <3>2. \/ v = [stack |-> <<>>, answer |-> "Empty"] \/ v = [stack |-> <<>>, answer |-> "Less"]
            \/ HasFrom(p, r) /\ v = Landed(p, r)
        BY <1>2, <2>2, <3>1 DEF Searches
      <3>3. HasFrom(p, r) /\ v = Landed(p, r) => SearchedFrom(t, p, r, v)
        BY <2>3, LandsIn
      <3>4. v = [stack |-> <<>>, answer |-> "Empty"] \/ v = [stack |-> <<>>, answer |-> "Less"]
            => SearchedFrom(t, p, r, v)
        <4> SUFFICES ASSUME v = [stack |-> <<>>, answer |-> "Empty"] \/ v = [stack |-> <<>>, answer |-> "Less"]
                     PROVE  SearchedFrom(t, p, r, v)
          OBVIOUS
        <4>1. v = [stack |-> v.stack, answer |-> v.answer] /\ v.answer \in {"Empty", "Less"}
          OBVIOUS
        <4> QED
          BY <4>1 DEF SearchedFrom
      <3> QED
        BY <3>2, <3>3, <3>4
    <2>4. CASE InnerIs(t, p)
      <3> PICK i : i = Place(pages[p].cells, r)
        OBVIOUS
      <3> PICK c : c = Child(pages[p], i)
        OBVIOUS
      <3>1. t[p].lev \in Nat /\ t[p].lev > 0 /\ pages[p].kind = "interior" /\ pages[p].cells # <<>>
        <4>1. IsInner(t, p) /\ t[p].lev \in Nat
          BY <2>4 DEF InnerIs
        <4>2. PICK d : d = Child(pages[p], 1)
          OBVIOUS
        <4>3. d \in DOMAIN t /\ t[d].lev = t[p].lev - 1
          <5>1. 1 \in 1 .. Len(pages[p].cells) + 1
            BY <2>2
          <5> QED
            BY <4>1, <4>2, <5>1 DEF IsInner
        <4>4. t[d].lev \in Nat
          BY <1>1, <4>3 DEF IsTree, IsNode, IsNodeData
        <4> QED
          BY <2>2, <4>1, <4>3, <4>4 DEF IsInner
      <3>2. IsNext(t, p, r, i)
        BY <1>1, <2>1, <3>1, NextFor
      <3>3. i \in 1 .. Len(pages[p].cells) + 1 /\ c \in S /\ r \in t[c].rng
        BY <1>3, <3>1, <3>2 DEF IsNext
      <3>4. SearchedFrom(t, c, r, f[c])
        BY <3>3
      <3>5. f[p] = [f[c] EXCEPT !.stack = <<Frame(p, i)>> \o @]
        BY <1>2, <2>2, <3>1 DEF Searches
      <3> PICK v : v = f[c]
        OBVIOUS
      <3>6. SearchedFrom(t, p, r, [v EXCEPT !.stack = <<Frame(p, i)>> \o @])
        <4> HIDE DEF S
        <4> QED
          BY <2>1, <2>4, <3>3, <3>4, FoundAbove
      <3> QED
        BY <3>5, <3>6
    <2> QED
      BY <2>3, <2>4, PageIs
  <1>4. \A p \in DOMAIN t : p \in S
    <2> HIDE DEF S
    <2> QED
      BY <1>1, <1>3, TreeInduction
  <1>5. Root \in DOMAIN t /\ r \in t[Root].rng
    BY <1>1 DEF IsTree
  <1> QED
    BY <1>2, <1>4, <1>5

LedTo(q, g, key) == IsStack(q, g) /\ KeyAt(g) = key

SameEnd(q, g, u) == IsStack(q, g) /\ KeyAt(g) = KeyAt(u)

\* A stack that keeps the first frames of another.
LEMMA Spliced ==
  ASSUME NEW q, NEW s, IsStack(q, s), NEW k \in 1 .. Len(s), NEW u, IsStack(s[k].page, u),
         NEW g, g = SubSeq(s, 1, k - 1) \o u
  PROVE  SameEnd(q, g, u)
  <1> DEFINE F == [page : InTree, idx : Nat \ {0}]
             a == SubSeq(s, 1, k - 1)
  <1>1. /\ s \in Seq(F) /\ Len(s) > 0 /\ s[1].page = q
        /\ \A j \in 1 .. Len(s) - 1 :
             /\ pages[s[j].page].kind = "interior" /\ s[j].idx <= Len(pages[s[j].page].cells) + 1
             /\ s[j + 1].page = Child(pages[s[j].page], s[j].idx)
    BY DEF IsStack
  <1>2. /\ u \in Seq(F) /\ Len(u) > 0 /\ u[1].page = s[k].page
        /\ \A j \in 1 .. Len(u) - 1 :
             /\ pages[u[j].page].kind = "interior" /\ u[j].idx <= Len(pages[u[j].page].cells) + 1
             /\ u[j + 1].page = Child(pages[u[j].page], u[j].idx)
        /\ pages[u[Len(u)].page].kind = "leaf" /\ u[Len(u)].idx <= Len(pages[u[Len(u)].page].cells)
    BY DEF IsStack
  <1> PICK m : m = k - 1
    OBVIOUS
  <1> PICK l : l = Len(u)
    OBVIOUS
  <1> PICK h : h = Len(g)
    OBVIOUS
  <1>3. m \in 0 .. Len(s) /\ m < Len(s) /\ k = m + 1 /\ m \in Nat /\ Len(s) \in Nat /\ l \in Nat /\ l > 0
    BY <1>1, <1>2
  <1>4. IsPiece(F, a, 0, s) /\ Len(a) = m
    <2> HIDE DEF F
    <2> QED
      BY <1>1, <1>3, StartOf
  <1>5. a \in Seq(F) /\ \A j \in 1 .. m : a[j] = s[j]
    BY <1>3, <1>4 DEF IsPiece
  <1> HIDE DEF F, a
  <1>6. /\ g \in Seq(F) /\ h = m + l
        /\ \A j \in 1 .. m : g[j] = s[j]
        /\ \A j \in 1 .. l : g[m + j] = u[j]
    <2>1. g = a \o u
      BY DEF a
    <2>0. u \in Seq(F) /\ a \in Seq(F) /\ Len(a) = m /\ Len(u) = l
      BY <1>2, <1>4, <1>5 DEF F
    <2>2. a \o u \in Seq(F) /\ Len(a \o u) = m + l
      BY <2>0, ConcatProperties
    <2>3. \A j \in 1 .. m + l : (a \o u)[j] = IF j <= m THEN a[j] ELSE u[j - m]
      BY <2>0, <2>2, ConcatProperties
    <2>4. ASSUME NEW j \in 1 .. m
          PROVE  g[j] = s[j]
      BY <1>3, <1>5, <2>1, <2>3
    <2>5. ASSUME NEW j \in 1 .. l
          PROVE  g[m + j] = u[j]
      <3> PICK n : n = m + j
        OBVIOUS
      <3>1. n \in 1 .. m + l /\ ~(n <= m) /\ n - m = j
        BY <1>3
      <3> QED
        BY <2>1, <2>3, <3>1
    <2> QED
      BY <2>1, <2>2, <2>4, <2>5
  <1>7. g[h] = u[l]
    BY <1>3, <1>6
  <1>8. g[1].page = q
    <2>1. CASE m = 0
      <3>1. g[1] = u[1] /\ k = 1
        BY <1>3, <1>6, <2>1
      <3> QED
        BY <1>1, <1>2, <3>1
    <2>2. CASE m # 0
      <3>1. 1 \in 1 .. m
        BY <1>3, <2>2
      <3> QED
        BY <1>1, <1>6, <3>1
    <2> QED
      BY <2>1, <2>2
  <1>9. ASSUME NEW j \in 1 .. h - 1
        PROVE  /\ pages[g[j].page].kind = "interior" /\ g[j].idx <= Len(pages[g[j].page].cells) + 1
               /\ g[j + 1].page = Child(pages[g[j].page], g[j].idx)
    <2>1. CASE j < m
      <3>1. j \in 1 .. m /\ j + 1 \in 1 .. m /\ j \in 1 .. Len(s) - 1
        BY <1>3, <1>6, <2>1
      <3>2. g[j] = s[j] /\ g[j + 1] = s[j + 1]
        BY <1>6, <3>1
      <3> QED
        BY <1>1, <3>1, <3>2
    <2>2. CASE j = m
      <3>1. j \in 1 .. m /\ 1 \in 1 .. l /\ j \in 1 .. Len(s) - 1 /\ j + 1 = m + 1 /\ j + 1 = k
        BY <1>3, <1>6, <2>2
      <3>2. g[j] = s[j] /\ g[j + 1] = u[1]
        BY <1>6, <3>1
      <3> QED
        BY <1>1, <1>2, <3>1, <3>2
    <2>3. CASE j > m
      <3> PICK n : n = j - m
        OBVIOUS
      <3>1. n \in 1 .. l - 1 /\ n \in 1 .. l /\ n + 1 \in 1 .. l /\ j = m + n /\ j + 1 = m + (n + 1)
        BY <1>3, <1>6, <2>3
      <3>2. g[j] = u[n] /\ g[j + 1] = u[n + 1]
        BY <1>6, <3>1
      <3> QED
        BY <1>2, <3>1, <3>2
    <2> QED
      <3>1. j \in Nat /\ m \in Nat
        BY <1>3, <1>6
      <3>2. j < m \/ j = m \/ j > m
        BY <3>1
      <3> QED
        BY <2>1, <2>2, <2>3, <3>2, Zenon
  <1>10. IsStack(q, g)
    <2>1. pages[g[h].page].kind = "leaf" /\ g[h].idx <= Len(pages[g[h].page].cells)
      BY <1>2, <1>7
    <2>2. g \in Seq([page : InTree, idx : Nat \ {0}]) /\ h > 0
      BY <1>3, <1>6 DEF F
    <2> QED
      BY <1>8, <1>9, <2>1, <2>2 DEF IsStack
  <1> QED
    BY <1>7, <1>10 DEF KeyAt, SameEnd

\* Concatenation is associative.
Regroups(a, b, c) == (a \o b) \o c = a \o (b \o c)

\* Concatenation is associative.
LEMMA Regrouped ==
  ASSUME NEW S, NEW a \in Seq(S), NEW b \in Seq(S), NEW c \in Seq(S)
  PROVE  Regroups(a, b, c)
  <1>1. (a \o b) \o c = a \o (b \o c)
    BY ConcatAssociative
  <1> QED
    BY <1>1 DEF Regroups

\* The frame at depth k goes to index i, and the descent to a stack below it.
LEMMA SteppedDown ==
  ASSUME NEW t, NEW head, AtRest(t, head), NEW q, NEW s, IsStack(q, s), NEW k \in 1 .. Len(s),
         NEW p, p = s[k].page, InnerIs(t, p), NEW i \in 1 .. Len(pages[p].cells) + 1,
         NEW below, IsStack(Child(pages[p], i), below),
         NEW g, g = SubSeq(s, 1, k - 1) \o <<Frame(p, i)>> \o below
  PROVE  SameEnd(q, g, below)
  <1> DEFINE F == [page : InTree, idx : Nat \ {0}]
             a == SubSeq(s, 1, k - 1)
             b == <<Frame(p, i)>>
  <1>1. p \in InTree /\ Len(pages[p].cells) \in Nat /\ pages[p].kind = "interior"
    <2>1. FrameIs(t, s, k)
      BY StackFrames
    <2> QED
      BY <2>1 DEF FrameIs, AtRest, InnerIs, IsInner
  <1>2. i \in Nat \ {0} /\ i <= Len(pages[p].cells) + 1
    BY <1>1
  <1> PICK u : u = b \o below
    OBVIOUS
  <1>3. IsLonger(p, i, below, u)
    BY <1>1, <1>2, LongerStack
  <1>4. IsStack(p, u) /\ KeyAt(u) = KeyAt(below)
    BY <1>3 DEF IsLonger
  <1>5. a \in Seq(F) /\ b \in Seq(F) /\ below \in Seq(F)
    <2>1. s \in Seq(F) /\ below \in Seq(F) /\ k - 1 \in 0 .. Len(s)
      BY DEF IsStack
    <2>2. Frame(p, i) \in F
      BY <1>1, <1>2 DEF Frame
    <2> HIDE DEF F
    <2>3. IsPiece(F, a, 0, s)
      BY <2>1, StartOf
    <2> QED
      BY <2>1, <2>2, <2>3 DEF IsPiece
  <1>6. g = a \o u
    <2> PICK c : c = a
      OBVIOUS
    <2> PICK d : d = b
      OBVIOUS
    <2>1. c \in Seq(F) /\ d \in Seq(F) /\ below \in Seq(F)
      BY <1>5
    <2> HIDE DEF F, a, b
    <2>2. Regroups(c, d, below)
      BY <2>1, Regrouped
    <2> QED
      BY <2>2 DEF a, b, Regroups
  <1>7. IsStack(s[k].page, u) /\ g = SubSeq(s, 1, k - 1) \o u
    BY <1>4, <1>6
  <1>8. SameEnd(q, g, u)
    <2> HIDE DEF a, b, F
    <2> QED
      BY <1>7, Spliced
  <1> QED
    BY <1>4, <1>8 DEF SameEnd

\* The last frame goes to another cell of its leaf.
LEMMA SteppedIn ==
  ASSUME NEW t, NEW head, AtRest(t, head), NEW q, NEW s, IsStack(q, s), NEW k, k = Len(s),
         NEW p, p = s[k].page, NEW i \in 1 .. Len(pages[p].cells),
         NEW g, g = SubSeq(s, 1, k - 1) \o <<Frame(p, i)>> \o <<>>
  PROVE  LedTo(q, g, pages[p].cells[i].key)
  <1> DEFINE F == [page : InTree, idx : Nat \ {0}]
             a == SubSeq(s, 1, k - 1)
  <1> PICK u : u = <<Frame(p, i)>>
    OBVIOUS
  <1>1. k \in 1 .. Len(s) /\ p \in InTree /\ Len(pages[p].cells) \in Nat /\ pages[p].kind = "leaf"
    <2>1. Len(s) \in Nat /\ k \in 1 .. Len(s)
      BY StackFrames DEF IsStack
    <2>2. FrameIs(t, s, k)
      BY <2>1, StackFrames
    <2> QED
      BY <2>1, <2>2 DEF FrameIs, AtRest, LeafIs
  <1>2. i \in Nat \ {0} /\ i <= Len(pages[p].cells)
    BY <1>1
  <1>3. IsStack(p, u) /\ KeyAt(u) = pages[p].cells[i].key
    BY <1>1, <1>2, LeafStack
  <1>4. g = a \o u
    <2>1. s \in Seq(F) /\ k - 1 \in 0 .. Len(s)
      BY <1>1 DEF IsStack
    <2>2. u \in Seq(F)
      BY <1>3 DEF IsStack
    <2> HIDE DEF F
    <2>3. IsPiece(F, a, 0, s)
      BY <2>1, StartOf
    <2>4. a \in Seq(F)
      BY <2>3 DEF IsPiece
    <2> HIDE DEF a
    <2>5. (a \o u) \o <<>> = a \o u
      BY <2>2, <2>4, ConcatEmptySeq, ConcatProperties
    <2> QED
      BY <2>5 DEF a
  <1>5. IsStack(s[k].page, u) /\ g = SubSeq(s, 1, k - 1) \o u
    BY <1>3, <1>4
  <1>6. SameEnd(q, g, u)
    <2> HIDE DEF a, F
    <2> QED
      BY <1>1, <1>5, Spliced
  <1> QED
    BY <1>3, <1>6 DEF SameEnd, LedTo

\* The cursor is at no row, or at the cell its stack leads to between calls.
CursorInv ==
  \/ cursor = Invalid
  \/ call = Idle /\ IsStack(Root, cursor.stack) /\ cursor = On(cursor.stack)

\* The greatest of a set of indices.
LEMMA Greatest ==
  ASSUME NEW n \in Nat, NEW S \in SUBSET (1 .. n), S # {}
  PROVE  Max(S) \in S /\ \A x \in S : x <= Max(S)
  <1> DEFINE gaps == {n - x : x \in S}
  <1>1. gaps \in SUBSET Nat /\ gaps # {}
    <2>1. \A x \in S : n - x \in Nat
      OBVIOUS
    <2> QED
      BY <2>1
  <1>2. PICK m \in gaps : \A g \in gaps : m <= g
    <2> HIDE DEF gaps
    <2> QED
      BY <1>1, LeastNatural
  <1>3. PICK y \in S : m = n - y
    BY <1>2
  <1>4. \A x \in S : y >= x
    BY <1>2, <1>3
  <1> QED
    BY <1>3, <1>4 DEF Max

\* A cursor that has loaded the cell at the end of a stack.
IsOn(s, c) == c = On(s) /\ c.valid = TRUE /\ c.key = KeyAt(s) /\ c.stack = s

\* A cursor with a stack is on the cell at its end.
LEMMA LoadsCell ==
  ASSUME NEW p, NEW s, IsStack(p, s)
  PROVE  AtLeaf(s) /\ IsOn(s, On(s))
  <1>1. s # <<>> /\ Last(s) = s[Len(s)]
    BY DEF IsStack, Last
  <1> QED
    BY <1>1 DEF AtLeaf, IsStack, On, KeyAt, IsOn

\* The tree and the cursor when the pages stay.
LEMMA TreeStays ==
  ASSUME TreeInv, UNCHANGED <<pages, call, rows>>
  PROVE  TreeInv'
  <1>1. PICK t, head : Represents(t, head)
    BY DEF TreeInv
  <1>2. IsTree(t, rows)'
    BY <1>1 DEF Represents
  <1>3. Hold(t, head)'
    BY <1>1 DEF Represents, Hold, Holds, Held, InTree, Todo
  <1>4. AreChains(head)'
    BY <1>1 DEF Represents, AreChains, IsChain
  <1>5. IsSplit(t) => IsSplit(t)'
    BY DEF IsSplit, Arrives, DividerOf, Fits, HalvesFit
  <1>6. IsTodo(t) => IsTodo(t)'
    BY DEF IsTodo, Todo
  <1>7. IsCall(t)'
    BY <1>1, <1>5, <1>6 DEF Represents, IsCall
  <1>8. Represents(t, head)'
    BY <1>2, <1>3, <1>4, <1>7 DEF Represents
  <1> QED
    BY <1>8 DEF TreeInv, ArePages

\* A cursor that comes to a stack of the tree is where it should be.
LEMMA ComesTo ==
  ASSUME call = Idle, NEW s, IsStack(Root, s), cursor' = On(s), UNCHANGED <<pages, call>>
  PROVE  CursorInv'
  <1>1. cursor'.stack = s
    BY LoadsCell DEF IsOn
  <1>2. IsStack(Root, s)'
    BY DEF IsStack, InTree
  <1>3. On(s)' = On(s)
    BY DEF On
  <1> QED
    BY <1>1, <1>2, <1>3 DEF CursorInv

\* Child i of an inner page.
ChildHas(t, p, i) ==
  LET c == Child(pages[p], i)
  IN  c \in DOMAIN t /\ c # Root /\ HasSome(c) /\ t[c].rng = Slice(t[p].rng, t[p].keys, i)

\* What child i of an interior page is and has.
LEMMA ChildIs ==
  ASSUME NEW t, NEW head, AtRest(t, head), NEW p \in DOMAIN t, InnerIs(t, p),
         NEW i \in 1 .. Len(pages[p].cells) + 1
  PROVE  ChildHas(t, p, i)
  <1> PICK c : c = Child(pages[p], i)
    OBVIOUS
  <1>1. c \in DOMAIN t /\ t[c].lev = t[p].lev - 1 /\ t[c].rng = Slice(t[p].rng, t[p].keys, i)
    BY DEF InnerIs, IsInner
  <1>2. t[c].lev \in Nat /\ t[p].lev \in Nat /\ t[p].lev <= t[Root].lev
    BY <1>1 DEF AtRest, IsTree, IsNode, IsNodeData
  <1>3. c # Root
    BY <1>1, <1>2
  <1> QED
    BY <1>1, <1>3 DEF ChildHas, HasSome

\* The row next to another.
IsNextTo(key, next) ==
  next \in rows /\ next \in Nat /\ key < next /\ \A r \in rows : key < r => next <= r

IsBefore(key, last) ==
  last \in rows /\ last \in Nat /\ last < key /\ \A r \in rows : r < key => r <= last

\* Cells next to each other in a leaf.
LEMMA LeafNeighbours ==
  ASSUME NEW t, NEW p, LeafIs(t, p), rows \subseteq Nat,
         NEW i \in 1 .. Len(pages[p].cells), NEW n, n = i + 1, n \in 1 .. Len(pages[p].cells)
  PROVE  /\ IsNextTo(pages[p].cells[i].key, pages[p].cells[n].key)
         /\ IsBefore(pages[p].cells[n].key, pages[p].cells[i].key)
  <1> DEFINE cells == pages[p].cells
  <1> PICK a : a = cells[i].key
    OBVIOUS
  <1> PICK b : b = cells[n].key
    OBVIOUS
  <1> PICK rng : rng = t[p].rng
    OBVIOUS
  <1> PICK k : k = [j \in 1 .. Len(cells) |-> cells[j].key]
    OBVIOUS
  <1>1. /\ Len(cells) \in Nat /\ rng \subseteq Nat /\ Convex(rng)
        /\ \A j \in 1 .. Len(cells) : k[j] \in rows /\ k[j] \in Nat /\ k[j] \in rng
        /\ \A h, j \in 1 .. Len(cells) : h < j <=> k[h] < k[j]
        /\ \A r \in rows : r \in rng => \E h \in 1 .. Len(cells) : k[h] = r
    BY DEF LeafIs
  <1>2. a = k[i] /\ b = k[n] /\ i \in 1 .. Len(cells) /\ n \in 1 .. Len(cells) /\ i < n
    OBVIOUS
  <1> HIDE DEF cells
  <1>3. /\ a \in rows /\ a \in Nat /\ a \in rng /\ b \in rows /\ b \in Nat /\ b \in rng /\ a < b
    BY <1>1, <1>2
  <1>4. ASSUME NEW r \in rows, a < r, r < b
        PROVE  FALSE
    <2>1. r \in rng
      <3>1. r \in Nat /\ a <= r /\ r <= b
        BY <1>3, <1>4
      <3> QED
        BY <1>1, <1>3, <3>1 DEF Convex
    <2>2. PICK h \in 1 .. Len(cells) : k[h] = r
      BY <1>1, <2>1
    <2>3. i < h
      BY <1>1, <1>2, <1>4, <2>2
    <2>4. h < n
      BY <1>1, <1>2, <1>4, <2>2
    <2> QED
      BY <1>1, <2>3, <2>4
  <1>5. \A r \in rows : (a < r => b <= r) /\ (r < b => r <= a)
    <2> SUFFICES ASSUME NEW r \in rows PROVE (a < r => b <= r) /\ (r < b => r <= a)
      OBVIOUS
    <2>1. r \in Nat /\ ~(a < r /\ r < b)
      BY <1>4
    <2> QED
      BY <1>3, <2>1
  <1> QED
    BY <1>3, <1>5 DEF IsNextTo, IsBefore, cells

\* Children next to each other.
LEMMA ChildNeighbours ==
  ASSUME NEW t, NEW head, AtRest(t, head), NEW p \in DOMAIN t, InnerIs(t, p), rows \subseteq Nat,
         NEW i \in 1 .. Len(pages[p].cells) + 1, NEW n, n = i + 1, n \in 1 .. Len(pages[p].cells) + 1,
         NEW c, c = Child(pages[p], i), NEW d, d = Child(pages[p], n),
         NEW a \in t[c].rng, NEW b \in t[d].rng, a \in rows, b \in rows,
         \A r \in rows : r \in t[c].rng => r <= a, \A r \in rows : r \in t[d].rng => b <= r
  PROVE  IsNextTo(a, b) /\ IsBefore(b, a)
  <1> PICK m : m = t[p]
    OBVIOUS
  <1>1. /\ IsInner(t, p) /\ IsNodeData(m) /\ Len(pages[p].cells) \in Nat /\ Len(m.keys) = Len(pages[p].cells)
        /\ m.rng \subseteq Nat /\ Convex(m.rng)
    BY DEF InnerIs, IsInner, KeysAre, IsNodeData
  <1>2. t[c].rng = Slice(m.rng, m.keys, i) /\ t[d].rng = Slice(m.rng, m.keys, n)
    BY ChildIs DEF ChildHas
  <1>3. a \in m.rng /\ b \in m.rng /\ a \in Nat /\ b \in Nat
    BY <1>1, <1>2 DEF Slice
  <1>4. i \in 1 .. Len(m.keys) + 1 /\ n \in 1 .. Len(m.keys) + 1 /\ i < n
    BY <1>1
  <1>0. a \in Slice(m.rng, m.keys, i) /\ b \in Slice(m.rng, m.keys, n)
    BY <1>2
  <1>5. a < b
    BY <1>0, <1>1, <1>4, SlicesInOrder
  <1>6. ASSUME NEW r \in rows, a < r, r < b
        PROVE  FALSE
    <2>1. r \in m.rng
      <3>1. r \in Nat /\ a <= r /\ r <= b
        BY <1>3, <1>6
      <3> QED
        BY <1>1, <1>3, <3>1 DEF Convex
    <2>2. PICK j \in 1 .. Len(m.keys) + 1 : r \in Slice(m.rng, m.keys, j)
      BY <1>1, <2>1, SlicesAreAll
    <2>0. r \in Nat /\ (r \in t[c].rng => r <= a) /\ (r \in t[d].rng => b <= r)
      OBVIOUS
    <2>3. ~(j < i)
      <3>1. j < i => r < a
        BY <1>0, <1>1, <1>4, <2>2, SlicesInOrder
      <3> QED
        BY <1>3, <1>6, <2>0, <3>1
    <2>4. ~(n < j)
      <3>1. n < j => b < r
        BY <1>0, <1>1, <1>4, <2>2, SlicesInOrder
      <3> QED
        BY <1>3, <1>6, <2>0, <3>1
    <2>5. j # i
      BY <1>2, <1>3, <1>6, <2>0, <2>2
    <2>6. j # n
      BY <1>2, <1>3, <1>6, <2>0, <2>2
    <2> QED
      BY <1>1, <1>4, <2>3, <2>4, <2>5, <2>6
  <1>7. \A r \in rows : (a < r => b <= r) /\ (r < b => r <= a)
    <2> SUFFICES ASSUME NEW r \in rows PROVE (a < r => b <= r) /\ (r < b => r <= a)
      OBVIOUS
    <2>1. r \in Nat /\ ~(a < r /\ r < b)
      BY <1>6
    <2> QED
      BY <1>3, <2>1
  <1> QED
    BY <1>3, <1>5, <1>7 DEF IsNextTo, IsBefore

\* Frame k steps to index i, and the descent from there is below.
StepTo(s, k, i, below) == SubSeq(s, 1, k - 1) \o <<Frame(s[k].page, i)>> \o below

\* One index further at the last frame that has one, and down to the first cell
\* from there: the next greater rowid.
LEMMA NextLeads ==
  ASSUME NEW t, NEW head, AtRest(t, head), NEW s, IsStack(Root, s), NEW k \in 1 .. Len(s),
         NEW after, after = k + 1, AllAtEnd(s, after), s[k].idx < EndOf(s[k]),
         NEW p, p = s[k].page, NEW i, i = s[k].idx + 1,
         NEW below, below = IF pages[p].kind = "leaf" THEN <<>> ELSE DescendFirst(Child(pages[p], i)),
         NEW g, g = StepTo(s, k, i, below)
  PROVE  IsStack(Root, g) /\ IsNextTo(KeyAt(s), KeyAt(g))
  <1>1. Len(s) \in Nat /\ FrameIs(t, s, k) /\ Bounds(t, s, k) /\ p \in DOMAIN t
    BY StackFrames, StackBounds DEF FrameIs
  <1>2. rows \subseteq Nat
    BY BTreeAssumption DEF AtRest
  <1> PICK n : n = s[k].idx
    OBVIOUS
  <1>3. CASE k = Len(s)
    <2>1. /\ LeafIs(t, p) /\ n \in 1 .. Len(pages[p].cells) /\ n < Len(pages[p].cells)
          /\ pages[p].kind = "leaf" /\ Len(pages[p].cells) \in Nat
      BY <1>1, <1>3 DEF FrameIs, LeafIs
    <2>2. i \in 1 .. Len(pages[p].cells) /\ i = n + 1
      BY <2>1
    <2>3. IsStack(Root, g) /\ KeyAt(g) = pages[p].cells[i].key
      <3>1. g = SubSeq(s, 1, k - 1) \o <<Frame(p, i)>> \o <<>>
        BY <2>1 DEF StepTo
      <3>2. LedTo(Root, g, pages[p].cells[i].key)
        BY <1>3, <2>2, <3>1, SteppedIn
      <3> QED
        BY <3>2 DEF LedTo
    <2>4. KeyAt(s) = pages[p].cells[n].key
      BY <1>3 DEF KeyAt
    <2>5. IsNextTo(pages[p].cells[n].key, pages[p].cells[i].key)
      BY <1>2, <2>1, <2>2, LeafNeighbours
    <2> QED
      BY <2>3, <2>4, <2>5
  <1>4. CASE k # Len(s)
    <2> PICK c : c = Child(pages[p], n)
      OBVIOUS
    <2> PICK d : d = Child(pages[p], i)
      OBVIOUS
    <2>1. k < Len(s) /\ after \in 1 .. Len(s) /\ k \in Nat
      BY <1>1, <1>4
    <2>2. /\ InnerIs(t, p) /\ n \in 1 .. Len(pages[p].cells) + 1 /\ n < Len(pages[p].cells) + 1
          /\ s[after].page = c
      BY <1>1, <2>1 DEF FrameIs
    <2>3. Len(pages[p].cells) \in Nat /\ pages[p].kind = "interior"
      BY <2>2 DEF InnerIs, IsInner
    <2>4. i \in 1 .. Len(pages[p].cells) + 1 /\ i = n + 1
      BY <2>2, <2>3
    <2>5. ChildHas(t, p, i)
      BY <1>1, <2>2, <2>4, ChildIs
    <2>6. d \in DOMAIN t /\ HasSome(d)
      BY <2>5 DEF ChildHas
    <2>7. Firsts(d, below)
      BY <2>3, <2>6, FirstIs
    <2>8. IsStack(d, below) /\ AllAtStart(below, 1) /\ below[1].page = d /\ 1 \in 1 .. Len(below)
      <3>1. IsStack(d, below) /\ Len(below) \in Nat
        BY <2>7, StackFrames DEF Firsts
      <3>2. below[1].page = d /\ Len(below) > 0
        BY <3>1 DEF IsStack
      <3>3. 1 \in 1 .. Len(below)
        BY <3>1, <3>2
      <3> QED
        BY <2>7, <3>1, <3>2, <3>3 DEF Firsts
    <2>9. IsStack(Root, g) /\ KeyAt(g) = KeyAt(below)
      <3>1. g = SubSeq(s, 1, k - 1) \o <<Frame(p, i)>> \o below
        BY DEF StepTo
      <3>2. SameEnd(Root, g, below)
        <4>1. IsStack(Child(pages[p], i), below) /\ InnerIs(t, p) /\ i \in 1 .. Len(pages[p].cells) + 1
          BY <2>2, <2>4, <2>8
        <4> QED
          BY <3>1, <4>1, SteppedDown
      <3> QED
        BY <3>2 DEF SameEnd
    <2>10. Bounds(t, below, 1)
      BY <2>8, StackBounds
    <2>11. Bounds(t, s, after)
      BY <2>1, StackBounds
    <2>12. KeyAt(s) \in t[c].rng /\ KeyAt(s) \in rows /\ \A r \in rows : r \in t[c].rng => r <= KeyAt(s)
      BY <2>2, <2>11 DEF Bounds
    <2>13. KeyAt(g) \in t[d].rng /\ KeyAt(g) \in rows /\ \A r \in rows : r \in t[d].rng => KeyAt(g) <= r
      BY <2>8, <2>9, <2>10 DEF Bounds
    <2> PICK a : a = KeyAt(s)
      OBVIOUS
    <2> PICK b : b = KeyAt(g)
      OBVIOUS
    <2>14. /\ a \in t[c].rng /\ a \in rows /\ \A r \in rows : r \in t[c].rng => r <= a
           /\ b \in t[d].rng /\ b \in rows /\ \A r \in rows : r \in t[d].rng => b <= r
      BY <2>12, <2>13
    <2>15. IsNextTo(a, b)
      BY <1>1, <1>2, <2>2, <2>4, <2>14, ChildNeighbours
    <2> QED
      BY <2>9, <2>15
  <1> QED
    BY <1>3, <1>4

\* One index back at the last frame that has one, and down to the last cell from
\* there: the next smaller rowid.
LEMMA PreviousLeads ==
  ASSUME NEW t, NEW head, AtRest(t, head), NEW s, IsStack(Root, s), NEW k \in 1 .. Len(s),
         NEW after, after = k + 1, AllAtStart(s, after), s[k].idx > 1,
         NEW p, p = s[k].page, NEW i, i = s[k].idx - 1,
         NEW below, below = IF pages[p].kind = "leaf" THEN <<>> ELSE DescendLast(Child(pages[p], i)),
         NEW g, g = StepTo(s, k, i, below)
  PROVE  IsStack(Root, g) /\ IsBefore(KeyAt(s), KeyAt(g))
  <1>1. Len(s) \in Nat /\ FrameIs(t, s, k) /\ Bounds(t, s, k) /\ p \in DOMAIN t
    BY StackFrames, StackBounds DEF FrameIs
  <1>2. rows \subseteq Nat
    BY BTreeAssumption DEF AtRest
  <1> PICK n : n = s[k].idx
    OBVIOUS
  <1>3. CASE k = Len(s)
    <2>1. /\ LeafIs(t, p) /\ n \in 1 .. Len(pages[p].cells) /\ n > 1
          /\ pages[p].kind = "leaf" /\ Len(pages[p].cells) \in Nat
      BY <1>1, <1>3 DEF FrameIs, LeafIs
    <2>2. i \in 1 .. Len(pages[p].cells) /\ n = i + 1
      BY <2>1
    <2>3. IsStack(Root, g) /\ KeyAt(g) = pages[p].cells[i].key
      <3>1. g = SubSeq(s, 1, k - 1) \o <<Frame(p, i)>> \o <<>>
        BY <2>1 DEF StepTo
      <3>2. LedTo(Root, g, pages[p].cells[i].key)
        BY <1>3, <2>2, <3>1, SteppedIn
      <3> QED
        BY <3>2 DEF LedTo
    <2>4. KeyAt(s) = pages[p].cells[n].key
      BY <1>3 DEF KeyAt
    <2>5. IsBefore(pages[p].cells[n].key, pages[p].cells[i].key)
      BY <1>2, <2>1, <2>2, LeafNeighbours
    <2> QED
      BY <2>3, <2>4, <2>5
  <1>4. CASE k # Len(s)
    <2> PICK c : c = Child(pages[p], n)
      OBVIOUS
    <2> PICK d : d = Child(pages[p], i)
      OBVIOUS
    <2>1. k < Len(s) /\ after \in 1 .. Len(s) /\ k \in Nat
      BY <1>1, <1>4
    <2>2. /\ InnerIs(t, p) /\ n \in 1 .. Len(pages[p].cells) + 1 /\ n > 1 /\ s[after].page = c
      BY <1>1, <2>1 DEF FrameIs
    <2>3. Len(pages[p].cells) \in Nat /\ pages[p].kind = "interior"
      BY <2>2 DEF InnerIs, IsInner
    <2>4. i \in 1 .. Len(pages[p].cells) + 1 /\ n = i + 1
      BY <2>2, <2>3
    <2>5. ChildHas(t, p, i)
      BY <1>1, <2>2, <2>4, ChildIs
    <2>6. d \in DOMAIN t /\ HasSome(d)
      BY <2>5 DEF ChildHas
    <2>7. Lasts(d, below)
      BY <2>3, <2>6, LastIs
    <2>8. IsStack(d, below) /\ AllAtEnd(below, 1) /\ below[1].page = d /\ 1 \in 1 .. Len(below)
      <3>1. IsStack(d, below) /\ Len(below) \in Nat
        BY <2>7, StackFrames DEF Lasts
      <3>2. below[1].page = d /\ Len(below) > 0
        BY <3>1 DEF IsStack
      <3>3. 1 \in 1 .. Len(below)
        BY <3>1, <3>2
      <3> QED
        BY <2>7, <3>1, <3>2, <3>3 DEF Lasts
    <2>9. IsStack(Root, g) /\ KeyAt(g) = KeyAt(below)
      <3>1. g = SubSeq(s, 1, k - 1) \o <<Frame(p, i)>> \o below
        BY DEF StepTo
      <3>2. SameEnd(Root, g, below)
        <4>1. IsStack(Child(pages[p], i), below) /\ InnerIs(t, p) /\ i \in 1 .. Len(pages[p].cells) + 1
          BY <2>2, <2>4, <2>8
        <4> QED
          BY <3>1, <4>1, SteppedDown
      <3> QED
        BY <3>2 DEF SameEnd
    <2>10. Bounds(t, below, 1)
      BY <2>8, StackBounds
    <2>11. Bounds(t, s, after)
      BY <2>1, StackBounds
    <2>12. KeyAt(s) \in t[c].rng /\ KeyAt(s) \in rows /\ \A r \in rows : r \in t[c].rng => KeyAt(s) <= r
      BY <2>2, <2>11 DEF Bounds
    <2>13. KeyAt(g) \in t[d].rng /\ KeyAt(g) \in rows /\ \A r \in rows : r \in t[d].rng => r <= KeyAt(g)
      BY <2>8, <2>9, <2>10 DEF Bounds
    <2> PICK b : b = KeyAt(s)
      OBVIOUS
    <2> PICK a : a = KeyAt(g)
      OBVIOUS
    <2>14. /\ a \in t[d].rng /\ a \in rows /\ \A r \in rows : r \in t[d].rng => r <= a
           /\ b \in t[c].rng /\ b \in rows /\ \A r \in rows : r \in t[c].rng => b <= r
      BY <2>12, <2>13
    <2>15. IsBefore(b, a)
      <3>1. /\ i \in 1 .. Len(pages[p].cells) + 1 /\ n = i + 1 /\ n \in 1 .. Len(pages[p].cells) + 1
            /\ p \in DOMAIN t /\ InnerIs(t, p)
        BY <1>1, <2>2, <2>4
      <3>2. a \in t[d].rng /\ b \in t[c].rng /\ a \in rows /\ b \in rows
        BY <2>14
      <3>3. (\A r \in rows : r \in t[d].rng => r <= a) /\ (\A r \in rows : r \in t[c].rng => b <= r)
        BY <2>14
      <3> QED
        BY <1>2, <3>1, <3>2, <3>3, ChildNeighbours
    <2> QED
      BY <2>9, <2>15
  <1> QED
    BY <1>3, <1>4

-----------------------------------------------------------------------------
\* The moves are those of the ordered map

\* The cursor comes to a row, or to none.
LEMMA MapLowest ==
  ASSUME NEW s, IsOn(s, cursor'), NEW R, KeyAt(s) \in R, \A x \in R : KeyAt(s) <= x
  PROVE  Map!Lowest(R) /\ (ret' = "row" => Map!Found(R))
  <1>1. cursor'.valid = TRUE /\ cursor'.key = KeyAt(s)
    BY DEF IsOn
  <1> QED
    BY <1>1 DEF Map!Lowest, Map!Found

\* A cursor on the greatest rowid is where the ordered map's is.
LEMMA MapHighest ==
  ASSUME NEW s, IsOn(s, cursor'), NEW R, KeyAt(s) \in R, \A x \in R : x <= KeyAt(s)
  PROVE  Map!Highest(R) /\ (ret' = "row" => Map!Found(R))
  <1>1. cursor'.valid = TRUE /\ cursor'.key = KeyAt(s)
    BY DEF IsOn
  <1> QED
    BY <1>1 DEF Map!Highest, Map!Found

\* Where there are no rows every move of the map finds none.
LEMMA MapNone ==
  ASSUME cursor' = Invalid, ret' = "none", NEW R, R = {}
  PROVE  Map!Lowest(R) /\ Map!Highest(R) /\ Map!Found(R)
  BY DEF Invalid, Map!Lowest, Map!Highest, Map!Found

\* What the whole tree holds.
LEMMA AllRows ==
  ASSUME NEW t, NEW head, AtRest(t, head)
  PROVE  /\ Root \in DOMAIN t /\ t[Root].rng = Nat /\ rows \subseteq Nat /\ rows \subseteq Rowids
         /\ ~HasSome(Root) => rows = {}
  <1>1. Root \in DOMAIN t /\ t[Root].rng = Nat /\ rows \subseteq Nat /\ rows \subseteq Rowids
    BY BTreeAssumption DEF AtRest, IsTree
  <1>2. ASSUME ~HasSome(Root)
        PROVE  rows = {}
    <2>1. pages[Root].cells = <<>> /\ Len(pages[Root].cells) = 0
      BY <1>2 DEF HasSome
    <2>2. LeafIs(t, Root)
      BY <1>1, <2>1, PageIs DEF InnerIs, IsInner
    <2> QED
      BY <1>1, <2>1, <2>2 DEF LeafIs
  <1> QED
    BY <1>1, <1>2

\* A stack from the root leads to a row.
LEMMA RootBounds ==
  ASSUME NEW t, NEW head, AtRest(t, head), NEW s, IsStack(Root, s)
  PROVE  /\ KeyAt(s) \in rows
         /\ AllAtEnd(s, 1) => \A r \in rows : r <= KeyAt(s)
         /\ AllAtStart(s, 1) => \A r \in rows : KeyAt(s) <= r
  <1>1. 1 \in 1 .. Len(s) /\ s[1].page = Root
    BY StackFrames DEF IsStack
  <1>2. Bounds(t, s, 1)
    BY <1>1, StackBounds
  <1>3. t[Root].rng = Nat /\ rows \subseteq Nat
    BY AllRows
  <1> QED
    BY <1>1, <1>2, <1>3 DEF Bounds

\* move_to_first is the ordered map's.
LEMMA FirstMoves ==
  ASSUME TreeInv, MoveToFirst
  PROVE  CursorInv' /\ Map!MoveToFirst
  <1>1. call = Idle /\ LandsOn(DescendFirst(Root)) /\ UNCHANGED <<pages, call, rows>>
    BY DEF MoveToFirst
  <1>2. PICK t, head : AtRest(t, head)
    BY <1>1, TreeAtRest
  <1> PICK s : s = DescendFirst(Root)
    OBVIOUS
  <1> PICK R : R = rows
    OBVIOUS
  <1>3. Root \in DOMAIN t /\ (~HasSome(Root) => rows = {})
    BY <1>2, AllRows
  <1>4. CASE HasSome(Root)
    <2>1. Firsts(Root, s)
      BY <1>2, <1>3, <1>4, FirstIs
    <2>2. IsStack(Root, s) /\ AllAtStart(s, 1)
      BY <2>1 DEF Firsts
    <2>3. KeyAt(s) \in R /\ \A r \in R : KeyAt(s) <= r
      BY <1>2, <2>2, RootBounds
    <2>4. AtLeaf(s) /\ IsOn(s, On(s))
      BY <2>2, LoadsCell
    <2>5. cursor' = On(s) /\ ret' = "row"
      BY <1>1, <2>4 DEF LandsOn
    <2>6. IsOn(s, cursor')
      BY <2>4, <2>5
    <2>7. CursorInv'
      BY <1>1, <2>2, <2>5, ComesTo
    <2>8. Map!Lowest(R) /\ Map!Found(R)
      BY <2>3, <2>5, <2>6, MapLowest
    <2> QED
      BY <1>1, <2>7, <2>8 DEF Map!MoveToFirst
  <1>5. CASE ~HasSome(Root)
    <2>1. s = <<>> /\ ~AtLeaf(s) /\ R = {}
      BY <1>2, <1>3, <1>5, FirstIs DEF AtLeaf
    <2>2. cursor' = Invalid /\ ret' = "none"
      BY <1>1, <2>1 DEF LandsOn
    <2>3. CursorInv'
      BY <2>2 DEF CursorInv, Invalid
    <2>4. Map!Lowest(R) /\ Map!Found(R)
      BY <2>1, <2>2, MapNone
    <2> QED
      BY <1>1, <2>3, <2>4 DEF Map!MoveToFirst
  <1> QED
    BY <1>4, <1>5

\* move_to_last is the ordered map's.
LEMMA LastMoves ==
  ASSUME TreeInv, MoveToLast
  PROVE  CursorInv' /\ Map!MoveToLast
  <1>1. call = Idle /\ LandsOn(DescendLast(Root)) /\ UNCHANGED <<pages, call, rows>>
    BY DEF MoveToLast
  <1>2. PICK t, head : AtRest(t, head)
    BY <1>1, TreeAtRest
  <1> PICK s : s = DescendLast(Root)
    OBVIOUS
  <1> PICK R : R = rows
    OBVIOUS
  <1>3. Root \in DOMAIN t /\ (~HasSome(Root) => rows = {})
    BY <1>2, AllRows
  <1>4. CASE HasSome(Root)
    <2>1. Lasts(Root, s)
      BY <1>2, <1>3, <1>4, LastIs
    <2>2. IsStack(Root, s) /\ AllAtEnd(s, 1)
      BY <2>1 DEF Lasts
    <2>3. KeyAt(s) \in R /\ \A r \in R : r <= KeyAt(s)
      BY <1>2, <2>2, RootBounds
    <2>4. AtLeaf(s) /\ IsOn(s, On(s))
      BY <2>2, LoadsCell
    <2>5. cursor' = On(s) /\ ret' = "row"
      BY <1>1, <2>4 DEF LandsOn
    <2>6. IsOn(s, cursor')
      BY <2>4, <2>5
    <2>7. CursorInv'
      BY <1>1, <2>2, <2>5, ComesTo
    <2>8. Map!Highest(R) /\ Map!Found(R)
      BY <2>3, <2>5, <2>6, MapHighest
    <2> QED
      BY <1>1, <2>7, <2>8 DEF Map!MoveToLast
  <1>5. CASE ~HasSome(Root)
    <2>1. s = <<>> /\ ~AtLeaf(s) /\ R = {}
      BY <1>2, <1>3, <1>5, LastIs DEF AtLeaf
    <2>2. cursor' = Invalid /\ ret' = "none"
      BY <1>1, <2>1 DEF LandsOn
    <2>3. CursorInv'
      BY <2>2 DEF CursorInv, Invalid
    <2>4. Map!Highest(R) /\ Map!Found(R)
      BY <2>1, <2>2, MapNone
    <2> QED
      BY <1>1, <2>3, <2>4 DEF Map!MoveToLast
  <1> QED
    BY <1>4, <1>5

\* A valid cursor is on its stack.
LEMMA ValidIsOn ==
  ASSUME CursorInv, cursor.valid, NEW s, s = cursor.stack
  PROVE  IsStack(Root, s) /\ IsOn(s, cursor)
  <1>1. IsStack(Root, s) /\ cursor = On(s)
    BY DEF CursorInv, Invalid
  <1> QED
    BY <1>1, LoadsCell

\* The frames after the last that can advance are at their ends.
Open(s) == {k \in DOMAIN s : s[k].idx < EndOf(s[k])}

\* The last frame with an index after it: all below are at their ends, and if
\* there is none so are all.
LEMMA ClosedAfter ==
  ASSUME NEW t, NEW head, AtRest(t, head), NEW s, IsStack(Root, s)
  PROVE  /\ Open(s) = {} => AllAtEnd(s, 1)
         /\ Open(s) # {} => /\ Max(Open(s)) \in 1 .. Len(s) /\ s[Max(Open(s))].idx < EndOf(s[Max(Open(s))])
                            /\ AllAtEnd(s, Max(Open(s)) + 1)
  <1>1. Len(s) \in Nat /\ DOMAIN s = 1 .. Len(s)
    BY StackFrames DEF IsStack
  <1>2. ASSUME NEW k \in 1 .. Len(s)
        PROVE  s[k].idx \in Nat /\ EndOf(s[k]) \in Nat
    <2>1. FrameIs(t, s, k)
      BY StackFrames
    <2>2. k < Len(s) => Len(pages[s[k].page].cells) \in Nat
      BY <2>1 DEF FrameIs, InnerIs, IsInner
    <2>3. k = Len(s) => Len(pages[s[k].page].cells) \in Nat
      BY <2>1 DEF FrameIs, LeafIs
    <2> QED
      BY <1>1, <2>1, <2>2, <2>3 DEF FrameIs
  <1>3. \A k \in 1 .. Len(s) : k \notin Open(s) => s[k].idx >= EndOf(s[k])
    BY <1>1, <1>2 DEF Open
  <1>4. ASSUME Open(s) # {}
        PROVE  /\ Max(Open(s)) \in 1 .. Len(s) /\ s[Max(Open(s))].idx < EndOf(s[Max(Open(s))])
               /\ AllAtEnd(s, Max(Open(s)) + 1)
    <2> PICK m : m = Max(Open(s))
      OBVIOUS
    <2>1. m \in Open(s) /\ \A x \in Open(s) : x <= m
      <3> PICK S : S = Open(s)
        OBVIOUS
      <3>1. S \in SUBSET (1 .. Len(s)) /\ S # {}
        BY <1>1, <1>4 DEF Open
      <3>2. Max(S) \in S /\ \A x \in S : x <= Max(S)
        BY <1>1, <3>1, Greatest
      <3> QED
        BY <3>2
    <2>2. m \in 1 .. Len(s) /\ s[m].idx < EndOf(s[m])
      BY <1>1, <2>1 DEF Open
    <2>3. AllAtEnd(s, m + 1)
      <3> SUFFICES ASSUME NEW k \in m + 1 .. Len(s) PROVE s[k].idx >= EndOf(s[k])
        BY DEF AllAtEnd
      <3>1. k \in 1 .. Len(s) /\ ~(k <= m)
        BY <1>1, <2>2
      <3> QED
        BY <1>3, <2>1, <3>1
    <2> QED
      BY <2>2, <2>3
  <1>5. Open(s) = {} => AllAtEnd(s, 1)
    BY <1>3 DEF AllAtEnd
  <1> QED
    BY <1>4, <1>5

\* move_to_next is the ordered map's.
LEMMA NextMoves ==
  ASSUME TreeInv, CursorInv, NextRow
  PROVE  CursorInv' /\ Map!NextRow
  <1> DEFINE s == cursor.stack
             open == {k \in DOMAIN s : s[k].idx < EndOf(s[k])}
             k == Max(open)
             p == s[k].page
             i == s[k].idx + 1
             after == {r \in rows : cursor.valid /\ r > KeyAt(s)}
  <1>1. /\ call = Idle /\ UNCHANGED <<pages, call, rows>>
        /\ \/ cursor.valid /\ open # {} /\ pages[p].kind = "leaf" /\ StepsTo(k, i, <<>>)
           \/ cursor.valid /\ open # {} /\ pages[p].kind # "leaf" /\ StepsTo(k, i, DescendFirst(Child(pages[p], i)))
           \/ (~cursor.valid \/ open = {}) /\ NoRow
    BY DEF NextRow, EndOf
  <1>2. PICK t, head : AtRest(t, head)
    BY <1>1, TreeAtRest
  <1>3. rows \subseteq Nat /\ rows \subseteq Rowids
    BY <1>2, AllRows
  <1>4. open = Open(s)
    BY DEF Open
  <1> HIDE DEF open
  <1>5. ASSUME cursor.valid
        PROVE  IsStack(Root, s) /\ cursor.key = KeyAt(s) /\ KeyAt(s) \in rows /\ KeyAt(s) \in Nat /\ KeyAt(s) # None
               /\ cursor = On(s)
    <2>1. IsStack(Root, s) /\ IsOn(s, cursor)
      BY <1>5, ValidIsOn
    <2>2. KeyAt(s) \in rows
      BY <1>2, <2>1, RootBounds
    <2> QED
      BY <1>3, <2>1, <2>2, BTreeAssumption DEF IsOn
  <1>6. after = {r \in rows : (IF cursor.valid THEN cursor.key ELSE None) # None
                               /\ r > (IF cursor.valid THEN cursor.key ELSE None)}
    BY <1>5
  <1> PICK R : R = after
    OBVIOUS
  <1>7. CASE ~cursor.valid \/ open = {}
    <2>1. cursor' = Invalid /\ ret' = "none"
      BY <1>1, <1>7 DEF NoRow
    <2>2. R = {}
      <3>1. CASE ~cursor.valid
        BY <3>1
      <3>2. CASE cursor.valid /\ open = {}
        <4>1. AllAtEnd(s, 1)
          BY <1>2, <1>4, <1>5, <3>2, ClosedAfter
        <4>2. \A r \in rows : r <= KeyAt(s)
          BY <1>2, <1>5, <3>2, <4>1, RootBounds
        <4>3. \A r \in rows : ~(r > KeyAt(s))
          BY <1>3, <1>5, <3>2, <4>2
        <4> QED
          BY <4>3
      <3> QED
        BY <1>7, <3>1, <3>2
    <2>3. CursorInv'
      BY <2>1 DEF CursorInv, Invalid
    <2>4. Map!Lowest(R) /\ Map!Found(R)
      BY <2>1, <2>2, MapNone
    <2> QED
      BY <1>1, <1>6, <2>3, <2>4 DEF Map!NextRow
  <1>8. CASE cursor.valid /\ open # {}
    <2> DEFINE below == IF pages[p].kind = "leaf" THEN <<>> ELSE DescendFirst(Child(pages[p], i))
    <2> PICK g : g = StepTo(s, k, i, below)
      OBVIOUS
    <2>1. StepsTo(k, i, below)
      BY <1>1, <1>8
    <2>2. /\ cursor' = IF AtLeaf(g) THEN On(g) ELSE [cursor EXCEPT !.stack = g]
          /\ ret' = IF AtLeaf(g) THEN "row" ELSE "none"
      BY <2>1 DEF StepsTo, StepTo
    <2>3. k \in 1 .. Len(s) /\ s[k].idx < EndOf(s[k]) /\ AllAtEnd(s, k + 1)
      BY <1>2, <1>4, <1>5, <1>8, ClosedAfter
    <2>4. IsStack(Root, g) /\ IsNextTo(KeyAt(s), KeyAt(g))
      <3> PICK a : a = s
        OBVIOUS
      <3> PICK h : h = k
        OBVIOUS
      <3> PICK n : n = k + 1
        OBVIOUS
      <3> PICK q : q = p
        OBVIOUS
      <3> PICK j : j = i
        OBVIOUS
      <3> PICK b : b = below
        OBVIOUS
      <3>1. /\ IsStack(Root, a) /\ h \in 1 .. Len(a) /\ n = h + 1 /\ AllAtEnd(a, n) /\ a[h].idx < EndOf(a[h])
            /\ q = a[h].page /\ j = a[h].idx + 1 /\ g = StepTo(a, h, j, b)
            /\ b = IF pages[q].kind = "leaf" THEN <<>> ELSE DescendFirst(Child(pages[q], j))
        BY <1>5, <1>8, <2>3
      <3>2. IsStack(Root, g) /\ IsNextTo(KeyAt(a), KeyAt(g))
        BY <1>2, <3>1, NextLeads
      <3> QED
        BY <3>2
    <2>5. AtLeaf(g) /\ IsOn(g, On(g))
      BY <2>4, LoadsCell
    <2>6. cursor' = On(g) /\ ret' = "row" /\ IsOn(g, cursor')
      BY <2>2, <2>5
    <2>7. CursorInv'
      BY <1>1, <2>4, <2>6, ComesTo
    <2>8. KeyAt(g) \in R /\ \A x \in R : KeyAt(g) <= x
      BY <1>3, <1>5, <1>8, <2>4 DEF IsNextTo
    <2>9. Map!Lowest(R) /\ Map!Found(R)
      BY <2>6, <2>8, MapLowest
    <2> QED
      BY <1>1, <1>6, <2>7, <2>9 DEF Map!NextRow
  <1> QED
    BY <1>7, <1>8

\* The frames after the last that can go back are at their starts.
OpenBack(s) == {k \in DOMAIN s : s[k].idx > 1}

\* The last frame with an index before it: all below are at their starts, and if
\* there is none so are all.
LEMMA ClosedBack ==
  ASSUME NEW t, NEW head, AtRest(t, head), NEW s, IsStack(Root, s)
  PROVE  /\ OpenBack(s) = {} => AllAtStart(s, 1)
         /\ OpenBack(s) # {} => /\ Max(OpenBack(s)) \in 1 .. Len(s) /\ s[Max(OpenBack(s))].idx > 1
                            /\ AllAtStart(s, Max(OpenBack(s)) + 1)
  <1>1. Len(s) \in Nat /\ DOMAIN s = 1 .. Len(s)
    BY StackFrames DEF IsStack
  <1>2. ASSUME NEW k \in 1 .. Len(s)
        PROVE  s[k].idx \in Nat
    <2>1. FrameIs(t, s, k)
      BY StackFrames
    <2> QED
      BY <2>1 DEF FrameIs
  <1>3. \A k \in 1 .. Len(s) : k \notin OpenBack(s) => s[k].idx <= 1
    BY <1>1, <1>2 DEF OpenBack
  <1>4. ASSUME OpenBack(s) # {}
        PROVE  /\ Max(OpenBack(s)) \in 1 .. Len(s) /\ s[Max(OpenBack(s))].idx > 1
               /\ AllAtStart(s, Max(OpenBack(s)) + 1)
    <2> PICK m : m = Max(OpenBack(s))
      OBVIOUS
    <2>1. m \in OpenBack(s) /\ \A x \in OpenBack(s) : x <= m
      <3> PICK S : S = OpenBack(s)
        OBVIOUS
      <3>1. S \in SUBSET (1 .. Len(s)) /\ S # {}
        BY <1>1, <1>4 DEF OpenBack
      <3>2. Max(S) \in S /\ \A x \in S : x <= Max(S)
        BY <1>1, <3>1, Greatest
      <3> QED
        BY <3>2
    <2>2. m \in 1 .. Len(s) /\ s[m].idx > 1
      BY <1>1, <2>1 DEF OpenBack
    <2>3. AllAtStart(s, m + 1)
      <3> SUFFICES ASSUME NEW k \in m + 1 .. Len(s) PROVE s[k].idx <= 1
        BY DEF AllAtStart
      <3>1. k \in 1 .. Len(s) /\ ~(k <= m)
        BY <1>1, <2>2
      <3> QED
        BY <1>3, <2>1, <3>1
    <2> QED
      BY <2>2, <2>3
  <1>5. OpenBack(s) = {} => AllAtStart(s, 1)
    BY <1>3 DEF AllAtStart
  <1> QED
    BY <1>4, <1>5

\* move_to_previous is the ordered map's.
LEMMA PreviousMoves ==
  ASSUME TreeInv, CursorInv, PreviousRow
  PROVE  CursorInv' /\ Map!PreviousRow
  <1> DEFINE s == cursor.stack
             open == {k \in DOMAIN s : s[k].idx > 1}
             k == Max(open)
             p == s[k].page
             i == s[k].idx - 1
             before == {r \in rows : cursor.valid /\ r < KeyAt(s)}
  <1>1. /\ call = Idle /\ UNCHANGED <<pages, call, rows>>
        /\ \/ cursor.valid /\ open # {} /\ pages[p].kind = "leaf" /\ StepsTo(k, i, <<>>)
           \/ cursor.valid /\ open # {} /\ pages[p].kind # "leaf" /\ StepsTo(k, i, DescendLast(Child(pages[p], i)))
           \/ (~cursor.valid \/ open = {}) /\ NoRow
    BY DEF PreviousRow
  <1>2. PICK t, head : AtRest(t, head)
    BY <1>1, TreeAtRest
  <1>3. rows \subseteq Nat /\ rows \subseteq Rowids
    BY <1>2, AllRows
  <1>4. open = OpenBack(s)
    BY DEF OpenBack
  <1> HIDE DEF open
  <1>5. ASSUME cursor.valid
        PROVE  IsStack(Root, s) /\ cursor.key = KeyAt(s) /\ KeyAt(s) \in rows /\ KeyAt(s) \in Nat /\ KeyAt(s) # None
               /\ cursor = On(s)
    <2>1. IsStack(Root, s) /\ IsOn(s, cursor)
      BY <1>5, ValidIsOn
    <2>2. KeyAt(s) \in rows
      BY <1>2, <2>1, RootBounds
    <2> QED
      BY <1>3, <2>1, <2>2, BTreeAssumption DEF IsOn
  <1>6. before = {r \in rows : (IF cursor.valid THEN cursor.key ELSE None) # None
                               /\ r < (IF cursor.valid THEN cursor.key ELSE None)}
    BY <1>5
  <1> PICK R : R = before
    OBVIOUS
  <1>7. CASE ~cursor.valid \/ open = {}
    <2>1. cursor' = Invalid /\ ret' = "none"
      BY <1>1, <1>7 DEF NoRow
    <2>2. R = {}
      <3>1. CASE ~cursor.valid
        BY <3>1
      <3>2. CASE cursor.valid /\ open = {}
        <4>1. AllAtStart(s, 1)
          BY <1>2, <1>4, <1>5, <3>2, ClosedBack
        <4>2. \A r \in rows : KeyAt(s) <= r
          BY <1>2, <1>5, <3>2, <4>1, RootBounds
        <4>3. \A r \in rows : ~(r < KeyAt(s))
          BY <1>3, <1>5, <3>2, <4>2
        <4> QED
          BY <4>3
      <3> QED
        BY <1>7, <3>1, <3>2
    <2>3. CursorInv'
      BY <2>1 DEF CursorInv, Invalid
    <2>4. Map!Highest(R) /\ Map!Found(R)
      BY <2>1, <2>2, MapNone
    <2> QED
      BY <1>1, <1>6, <2>3, <2>4 DEF Map!PreviousRow
  <1>8. CASE cursor.valid /\ open # {}
    <2> DEFINE below == IF pages[p].kind = "leaf" THEN <<>> ELSE DescendLast(Child(pages[p], i))
    <2> PICK g : g = StepTo(s, k, i, below)
      OBVIOUS
    <2>1. StepsTo(k, i, below)
      BY <1>1, <1>8
    <2>2. /\ cursor' = IF AtLeaf(g) THEN On(g) ELSE [cursor EXCEPT !.stack = g]
          /\ ret' = IF AtLeaf(g) THEN "row" ELSE "none"
      BY <2>1 DEF StepsTo, StepTo
    <2>3. k \in 1 .. Len(s) /\ s[k].idx > 1 /\ AllAtStart(s, k + 1)
      BY <1>2, <1>4, <1>5, <1>8, ClosedBack
    <2>4. IsStack(Root, g) /\ IsBefore(KeyAt(s), KeyAt(g))
      <3> PICK a : a = s
        OBVIOUS
      <3> PICK h : h = k
        OBVIOUS
      <3> PICK n : n = k + 1
        OBVIOUS
      <3> PICK q : q = p
        OBVIOUS
      <3> PICK j : j = i
        OBVIOUS
      <3> PICK b : b = below
        OBVIOUS
      <3>1. /\ IsStack(Root, a) /\ h \in 1 .. Len(a) /\ n = h + 1 /\ AllAtStart(a, n) /\ a[h].idx > 1
            /\ q = a[h].page /\ j = a[h].idx - 1 /\ g = StepTo(a, h, j, b)
            /\ b = IF pages[q].kind = "leaf" THEN <<>> ELSE DescendLast(Child(pages[q], j))
        BY <1>5, <1>8, <2>3
      <3>2. IsStack(Root, g) /\ IsBefore(KeyAt(a), KeyAt(g))
        BY <1>2, <3>1, PreviousLeads
      <3> QED
        BY <3>2
    <2>5. AtLeaf(g) /\ IsOn(g, On(g))
      BY <2>4, LoadsCell
    <2>6. cursor' = On(g) /\ ret' = "row" /\ IsOn(g, cursor')
      BY <2>2, <2>5
    <2>7. CursorInv'
      BY <1>1, <2>4, <2>6, ComesTo
    <2>8. KeyAt(g) \in R /\ \A x \in R : x <= KeyAt(g)
      BY <1>3, <1>5, <1>8, <2>4 DEF IsBefore
    <2>9. Map!Highest(R) /\ Map!Found(R)
      BY <2>6, <2>8, MapHighest
    <2> QED
      BY <1>1, <1>6, <2>7, <2>9 DEF Map!PreviousRow
  <1> QED
    BY <1>7, <1>8

\* move_to is the ordered map's, for a rowid the search does not lose.
LEMMA SeekMoves ==
  ASSUME TreeInv, NEW r \in Rowids, SoundSeek(r), MoveTo(r)
  PROVE  CursorInv' /\ Map!MoveTo(r)
  <1> PICK v : v = Search(r)
    OBVIOUS
  <1> PICK s : s = v.stack
    OBVIOUS
  <1>1. /\ call = Idle /\ UNCHANGED <<pages, call, rows>> /\ ret' = v.answer
        /\ cursor' = IF v.answer \in {"Equal", "Greater"} THEN On(s) ELSE Invalid
    BY DEF MoveTo
  <1>2. r \notin Dividers /\ v.answer \in {"Equal", "Greater"} /\ r \in Nat
    BY BTreeAssumption DEF SoundSeek
  <1>3. PICK t, head : AtRest(t, head)
    BY <1>1, TreeAtRest
  <1>4. rows \subseteq Nat /\ rows \subseteq Rowids /\ t[Root].rng = Nat
    BY <1>3, AllRows
  <1>5. SearchedFrom(t, Root, r, v)
    <2>1. NoDivider(t, r)
      BY <1>2, <1>3, IsNoDivider
    <2> QED
      BY <1>2, <1>3, <2>1, SearchIs
  <1>6. AnswerIs(t, Root, r, v)
    BY <1>2, <1>5 DEF SearchedFrom
  <1> PICK key : key = KeyAt(s)
    OBVIOUS
  <1>7. /\ IsStack(Root, s) /\ key \in rows /\ r <= key /\ key \in Nat
        /\ \A x \in rows : r <= x => key <= x
        /\ v.answer = "Equal" <=> key = r
    BY <1>4, <1>6 DEF AnswerIs
  <1>8. cursor' = On(s) /\ AtLeaf(s) /\ IsOn(s, On(s))
    BY <1>1, <1>2, <1>7, LoadsCell
  <1>9. CursorInv'
    BY <1>1, <1>7, <1>8, ComesTo
  <1> PICK R : R = {x \in rows : x >= r}
    OBVIOUS
  <1>10. Map!Lowest(R)
    <2>1. key \in R /\ \A x \in R : key <= x
      BY <1>2, <1>4, <1>7
    <2>2. IsOn(s, cursor')
      BY <1>8
    <2> QED
      BY <2>1, <2>2, MapLowest
  <1>11. \/ r \in rows /\ ret' = "Equal"
         \/ r \notin rows /\ R # {} /\ ret' = "Greater"
    <2>1. CASE key = r
      BY <1>1, <1>7, <2>1
    <2>2. CASE key # r
      <3>1. r \notin rows
        BY <1>2, <1>7, <2>2
      <3>2. key \in R
        BY <1>2, <1>7
      <3> QED
        BY <1>1, <1>2, <1>7, <2>2, <3>1, <3>2
    <2> QED
      BY <2>1, <2>2
  <1> QED
    BY <1>1, <1>9, <1>10, <1>11 DEF Map!MoveTo

\* What a deletion does to the pages.
IsDeletion(t, head, s, p, i, less, u) ==
  /\ AtRest(t, head) /\ IsStack(Root, s) /\ IsOn(s, cursor) /\ p = s[Len(s)].page /\ i = s[Len(s)].idx
  /\ p \in InTree /\ p \in DOMAIN t /\ LeafIs(t, p) /\ IsLeaf(t, rows, head, p)
  /\ i \in 1 .. Len(pages[p].cells) /\ i < Len(pages[p].cells)
  /\ less = RemoveAt(pages[p].cells, i) /\ u = WithKeys(t, p, KeysOf(less))
  /\ pages' = [pages EXCEPT ![p].cells = less] /\ rows' = rows \ {KeyAt(s)} /\ call' = Idle
  /\ cursor' = [cursor EXCEPT !.key = less[i].key] /\ ret' = "ok"

\* The cells of leaf p but cell i.
IsLess(head, p, i, less) ==
  /\ less \in Seq(CellRecords) /\ Len(less) = Len(pages[p].cells) - 1 /\ Len(less) > 0
  /\ KeysAre(KeysOf(less), less) /\ HeadsAre(less, head) /\ Len(less) \in Nat
  /\ \A j \in 1 .. Len(less) : less[j] = IF j < i THEN pages[p].cells[j] ELSE pages[p].cells[j + 1]

\* The cells that are left, and the tree of them.
LEMMA LessIs ==
  ASSUME NEW t, NEW head, NEW s, NEW p, NEW i, NEW less, NEW u, IsDeletion(t, head, s, p, i, less, u)
  PROVE  IsLess(head, p, i, less) /\ IsTree(u, rows \ {KeyAt(s)})
  <1> PICK cells : cells = pages[p].cells
    OBVIOUS
  <1> PICK k : k = t[p].keys
    OBVIOUS
  <1> PICK Q : Q = rows \ {KeyAt(s)}
    OBVIOUS
  <1> PICK l : l = Len(cells)
    OBVIOUS
  <1>1. /\ AtRest(t, head) /\ IsLeaf(t, rows, head, p) /\ i \in 1 .. l /\ i < l /\ p \in DOMAIN t /\ t[p].lev = 0
        /\ less = RemoveAt(cells, i) /\ u = WithKeys(t, p, KeysOf(less)) /\ KeyAt(s) = cells[i].key
    BY DEF IsDeletion, KeyAt, LeafIs
  <1>2. /\ IsNodeData(t[p]) /\ cells \in Seq(CellRecords) /\ KeysAre(k, cells) /\ l \in Nat
        /\ HeadsAre(cells, head) /\ HasRows(t[p], rows)
    BY <1>1 DEF IsLeaf
  <1>3. k \in Seq(Nat) /\ Sorted(k) /\ Len(k) = l /\ k[i] = KeyAt(s) /\ \A j \in 1 .. l : k[j] \in t[p].rng
    BY <1>1, <1>2 DEF IsNodeData, KeysAre
  <1>4. IsRemoved(cells, k, i, less)
    BY <1>1, <1>2, <1>3, CellRemoved
  <1> PICK keys : keys = KeysOf(less)
    OBVIOUS
  <1>5. DOMAIN keys = 1 .. Len(less) /\ keys \in Seq(Nat) /\ Sorted(keys) /\ Len(less) \in Nat
    BY <1>2, <1>4 DEF KeysOf, IsRemoved
  <1>6. ASSUME NEW j \in DOMAIN keys
        PROVE  keys[j] \in t[p].rng /\ keys[j] \in Q
    <2>1. keys[j] # KeyAt(s) /\ \E x \in 1 .. l : k[x] = keys[j]
      BY <1>3, <1>4, <1>5 DEF IsRemoved
    <2>2. PICK x \in 1 .. l : k[x] = keys[j]
      BY <2>1
    <2>3. k[x] \in rows
      BY <1>2, <1>3, <2>2 DEF HasRows
    <2> QED
      BY <1>3, <2>1, <2>2, <2>3
  <1>7. ASSUME NEW r \in Q \cap t[p].rng
        PROVE  \E j \in DOMAIN keys : keys[j] = r
    <2>1. PICK x \in 1 .. l : k[x] = r
      BY <1>2, <1>3 DEF HasRows
    <2>2. x # i
      BY <1>3, <2>1
    <2> QED
      BY <1>3, <1>4, <1>5, <2>1, <2>2 DEF IsRemoved
  <1>8. IsTree(u, Q)
    <2>1. IsTree(t, rows) /\ \A r \in Nat \ t[p].rng : r \in rows <=> r \in Q
      BY <1>1, <1>3 DEF AtRest
    <2>2. (\A j \in DOMAIN keys : keys[j] \in t[p].rng) /\ \A j \in DOMAIN keys : keys[j] \in Q
      BY <1>6
    <2>3. \A r \in Q \cap t[p].rng : \E j \in DOMAIN keys : keys[j] = r
      BY <1>7
    <2>4. IsTree(WithKeys(t, p, keys), Q)
      <3>1. keys \in Seq(Nat) /\ Sorted(keys) /\ p \in DOMAIN t /\ t[p].lev = 0
        BY <1>1, <1>5
      <3> QED
        BY <2>1, <2>2, <2>3, <3>1, LeafHasRows
    <2> QED
      BY <1>1, <2>4
  <1>9. HeadsAre(less, head)
    <2> SUFFICES ASSUME NEW j \in 1 .. Len(less) PROVE less[j].page = head[less[j].key]
      BY DEF HeadsAre
    <2>1. PICK h : h = IF j < i THEN j ELSE j + 1
      OBVIOUS
    <2>2. h \in 1 .. l /\ less[j] = cells[h]
      BY <1>1, <1>2, <1>4, <2>1 DEF IsRemoved
    <2> QED
      BY <1>2, <2>2 DEF HeadsAre
  <1> QED
    BY <1>1, <1>2, <1>4, <1>5, <1>8, <1>9 DEF IsRemoved, IsLess

AfterDelete(p, less, after) ==
  /\ after \in Seq(PageRecords) /\ DOMAIN after = DOMAIN pages
  /\ \A y \in DOMAIN pages \ {p} : after[y] = pages[y]
  /\ after[p].kind = pages[p].kind /\ after[p].right = pages[p].right /\ after[p].cells = less
  /\ \A y \in DOMAIN after : IsPage(y, after[y])

\* The page keeps its kind, and a cell less leaves it more room.
LEMMA DeletePages ==
  ASSUME NEW t, NEW head, NEW s, NEW p, NEW i, NEW less, NEW u, IsDeletion(t, head, s, p, i, less, u)
  PROVE  AfterDelete(p, less, pages')
  <1>1. /\ ArePages /\ p \in DOMAIN pages /\ pages[p].kind = "leaf"
        /\ pages' = [pages EXCEPT ![p].cells = less]
    BY DEF IsDeletion, IsLeaf, AtRest
  <1>2. less \in Seq(CellRecords) /\ Len(less) = Len(pages[p].cells) - 1 /\ Len(less) \in Nat
    <2>1. IsLess(head, p, i, less)
      BY LessIs
    <2> QED
      BY <2>1 DEF IsLess
  <1> PICK n : n = Len(pages)
    OBVIOUS
  <1> PICK pg : pg = [pages[p] EXCEPT !.cells = less]
    OBVIOUS
  <1> PICK after : after = pages'
    OBVIOUS
  <1>3. pages \in Seq(PageRecords) /\ n \in Nat /\ DOMAIN pages = 1 .. n /\ \A y \in 1 .. n : IsPage(y, pages[y])
    BY <1>1 DEF ArePages
  <1>4. pages[p] \in PageRecords /\ IsPage(p, pages[p]) /\ Len(pages[p].cells) \in Nat
    BY <1>1, PageTypes
  <1>5. /\ pg \in PageRecords /\ pg.kind = pages[p].kind /\ pg.right = pages[p].right
        /\ pg.cells = less /\ pg.used = pages[p].used /\ pg.used \in Nat
    BY <1>2, <1>4 DEF PageRecords
  <1>6. after = [pages EXCEPT ![p] = pg]
    BY <1>1
  <1>7. after \in Seq(PageRecords) /\ Len(after) = n /\ \A y \in 1 .. n : after[y] = IF y = p THEN pg ELSE pages[y]
    BY <1>1, <1>3, <1>5, <1>6, SeqWritten
  <1>8. DOMAIN after = 1 .. n
    BY <1>7
  <1>9. IsPage(p, pg)
    <2> PICK l \in Nat : l = Len(less)
      BY <1>2
    <2>1. pg.used + PtrSize * (l + 1) <= Room(p, "leaf") /\ pg.right = 0
      BY <1>1, <1>2, <1>4, <1>5 DEF IsPage
    <2>2. PtrSize \in Nat /\ Room(p, "leaf") \in Int
      BY BTreeAssumption DEF Room
    <2>3. PtrSize * (l + 1) = PtrSize * l + PtrSize /\ PtrSize * l \in Nat
      BY <2>2
    <2>4. pg.used + PtrSize * l <= Room(p, "leaf")
      BY <1>5, <2>1, <2>2, <2>3
    <2> QED
      BY <1>1, <1>5, <2>1, <2>4 DEF IsPage
  <1> QED
    BY <1>1, <1>3, <1>5, <1>7, <1>8, <1>9 DEF AfterDelete

\* The pages hold the tree without the row.
LEMMA HoldAfterDelete ==
  ASSUME NEW t, NEW head, NEW s, NEW p, NEW i, NEW less, NEW u, IsDeletion(t, head, s, p, i, less, u)
  PROVE  Hold(u, head)'
  <1>1. /\ AtRest(t, head) /\ DOMAIN t = InTree /\ Hold(t, head) /\ p \in InTree
        /\ p \in DOMAIN pages /\ pages[p].kind = "leaf" /\ t[p].lev = 0 /\ call = Idle /\ call' = Idle
    BY DEF IsDeletion, IsLeaf, AtRest, LeafIs
  <1>2. /\ KeysAre(KeysOf(less), less) /\ HeadsAre(less, head) /\ Len(less) > 0
    BY LessIs DEF IsLess
  <1>3. AfterDelete(p, less, pages')
    BY DeletePages
  <1> PICK after : after = pages'
    OBVIOUS
  <1>4. InTree' = InTree
    <2>1. DOMAIN after = DOMAIN pages /\ \A y \in DOMAIN pages : after[y].kind = pages[y].kind
      BY <1>3 DEF AfterDelete
    <2> QED
      BY <2>1 DEF InTree
  <1>5. Todo' = <<>> /\ \A y : Held(y)' = after[y].cells
    BY <1>1 DEF Todo, Held, Idle
  <1>6. /\ DOMAIN u = DOMAIN t /\ \A y \in DOMAIN t \ {p} : u[y] = t[y]
        /\ u[p] = Node(0, t[p].rng, KeysOf(less), t[p].kids)
    BY <1>1 DEF IsDeletion, WithKeys
  <1>7. ASSUME NEW y \in InTree, y # p
        PROVE  Holds(y, u[y], head)'
    <2>1. Holds(y, t[y], head) /\ Held(y) = pages[y].cells /\ Todo = <<>>
      BY <1>1 DEF Hold, Held, Todo, Idle
    <2>2. u[y] = t[y] /\ after[y] = pages[y]
      BY <1>1, <1>3, <1>6, <1>7 DEF InTree, AfterDelete
    <2> QED
      BY <1>5, <2>1, <2>2 DEF Holds
  <1>8. Holds(p, u[p], head)'
    <2>1. /\ after[p].kind = "leaf" /\ after[p].cells = less /\ Held(p)' = less
      BY <1>1, <1>3, <1>5 DEF AfterDelete
    <2>2. u[p].lev = 0 /\ u[p].keys = KeysOf(less)
      BY <1>6 DEF Node
    <2>3. Shows(u[p], after[p].kind, less, after[p].right, <<>>, head)
      BY <1>2, <2>1, <2>2 DEF Shows
    <2> QED
      BY <1>2, <1>5, <2>1, <2>3 DEF Holds
  <1> QED
    BY <1>1, <1>4, <1>6, <1>7, <1>8 DEF Hold

\* A valid cursor is on a cell that the deletion takes.
LEMMA DeleteIs ==
  ASSUME TreeInv, CursorInv, cursor.valid, SoundDelete, Delete
  PROVE  \E t, head, s, p, i, less, u : IsDeletion(t, head, s, p, i, less, u)
  <1>1. call = Idle /\ call' = Idle
    BY DEF Delete
  <1>2. PICK t, head : AtRest(t, head)
    BY <1>1, TreeAtRest
  <1> PICK s : s = cursor.stack
    OBVIOUS
  <1> PICK p : p = s[Len(s)].page
    OBVIOUS
  <1> PICK i : i = s[Len(s)].idx
    OBVIOUS
  <1> PICK less : less = RemoveAt(pages[p].cells, i)
    OBVIOUS
  <1> PICK u : u = WithKeys(t, p, KeysOf(less))
    OBVIOUS
  <1>3. IsStack(Root, s) /\ IsOn(s, cursor)
    BY ValidIsOn
  <1>4. Last(s) = s[Len(s)] /\ Len(s) \in 1 .. Len(s) /\ FrameIs(t, s, Len(s))
    <2>1. Len(s) \in Nat /\ Len(s) > 0
      BY <1>2, <1>3, StackFrames DEF IsStack
    <2> QED
      BY <1>2, <1>3, <2>1, StackFrames DEF Last
  <1>5. LeafIs(t, p) /\ p \in DOMAIN t /\ i \in 1 .. Len(pages[p].cells)
    BY <1>4 DEF FrameIs
  <1>6. p \in InTree /\ IsLeaf(t, rows, head, p)
    BY <1>2, <1>5 DEF AtRest, Settled, LeafIs
  <1>7. i < Len(pages[p].cells)
    BY <1>4 DEF SoundDelete
  <1>8. Len(less) = Len(pages[p].cells) - 1
    <2>1. pages[p].cells \in Seq(CellRecords)
      BY <1>6 DEF IsLeaf
    <2> PICK cells : cells = pages[p].cells
      OBVIOUS
    <2>2. cells \in Seq(CellRecords) /\ i \in 1 .. Len(cells) /\ less = RemoveAt(cells, i)
      BY <1>5, <2>1
    <2>3. Len(RemoveAt(cells, i)) = Len(cells) - 1
      BY <2>2, RemovedAt
    <2> QED
      BY <2>2, <2>3
  <1>9. i <= Len(less) /\ Len(pages[p].cells) \in Nat
    <2>1. Len(pages[p].cells) \in Nat
      BY <1>5 DEF LeafIs
    <2> QED
      BY <1>5, <1>7, <1>8, <2>1
  <1>10. KeyAt(s) = pages[p].cells[i].key
    BY DEF KeyAt
  <1>11. /\ pages' = [pages EXCEPT ![p].cells = less] /\ rows' = rows \ {KeyAt(s)}
         /\ cursor' = [cursor EXCEPT !.key = less[i].key] /\ ret' = "ok"
    BY <1>4, <1>9, <1>10 DEF Delete
  <1>12. IsDeletion(t, head, s, p, i, less, u)
    BY <1>1, <1>2, <1>3, <1>5, <1>6, <1>7, <1>11 DEF IsDeletion
  <1> QED
    BY <1>12

\* The pages are a tree without the row.
LEMMA DeleteKeeps ==
  ASSUME TreeInv, NEW t, NEW head, NEW s, NEW p, NEW i, NEW less, NEW u, IsDeletion(t, head, s, p, i, less, u)
  PROVE  TreeInv'
  <1>1. AtRest(t, head) /\ rows' = rows \ {KeyAt(s)} /\ call' = Idle
    BY DEF IsDeletion
  <1>2. AfterDelete(p, less, pages')
    BY DeletePages
  <1> PICK after : after = pages'
    OBVIOUS
  <1> PICK Q : Q = rows \ {KeyAt(s)}
    OBVIOUS
  <1>3. /\ ArePages /\ rows \subseteq Rowids /\ AreChains(head) /\ Root \in DOMAIN pages
        /\ p \in DOMAIN pages /\ pages[p].kind = "leaf" /\ Q \in SUBSET rows /\ rows' = Q
    BY <1>1 DEF AtRest, TreeInv, IsDeletion, IsLeaf
  <1>4. AreChains(head)'
    <2>1. DOMAIN pages \subseteq DOMAIN after
      BY <1>2 DEF AfterDelete
    <2>2. \A x \in DOMAIN pages : pages[x].kind = "overflow" => after[x] = pages[x]
      BY <1>2, <1>3 DEF AfterDelete
    <2>3. rows' = Q /\ pages' = after /\ Q \in SUBSET rows
      BY <1>3
    <2> QED
      BY <1>3, <2>1, <2>2, <2>3, ChainsKept
  <1>5. IsTree(u, Q)
    BY LessIs
  <1>6. Hold(u, head)'
    BY HoldAfterDelete
  <1>7. IsTree(u, rows)' /\ IsCall(u)'
    BY <1>1, <1>3, <1>5 DEF IsCall
  <1>8. Represents(u, head)'
    BY <1>4, <1>6, <1>7 DEF Represents
  <1>9. ArePages' /\ (Root \in DOMAIN pages)' /\ (rows \subseteq Rowids)'
    <2>1. after \in Seq(PageRecords) /\ DOMAIN after = DOMAIN pages /\ \A y \in DOMAIN after : IsPage(y, after[y])
      BY <1>2 DEF AfterDelete
    <2> QED
      BY <1>3, <2>1 DEF ArePages, IsPage, Room
  <1> QED
    BY <1>8, <1>9 DEF TreeInv

\* The cursor is on the cell that slid in.
LEMMA DeleteStays ==
  ASSUME NEW t, NEW head, NEW s, NEW p, NEW i, NEW less, NEW u, IsDeletion(t, head, s, p, i, less, u)
  PROVE  CursorInv'
  <1>1. /\ AtRest(t, head) /\ IsStack(Root, s) /\ cursor = On(s) /\ call' = Idle /\ p = s[Len(s)].page
        /\ i = s[Len(s)].idx /\ i < Len(pages[p].cells) /\ i \in 1 .. Len(pages[p].cells)
        /\ pages[p].kind = "leaf" /\ p \in DOMAIN pages
        /\ cursor' = [cursor EXCEPT !.key = less[i].key]
    BY DEF IsDeletion, IsOn, IsLeaf
  <1>2. AfterDelete(p, less, pages')
    BY DeletePages
  <1>3. IsLess(head, p, i, less)
    BY LessIs
  <1> PICK after : after = pages'
    OBVIOUS
  <1>4. Len(s) \in Nat /\ Len(s) > 0 /\ Last(s) = s[Len(s)]
    BY <1>1, StackFrames DEF IsStack, Last
  <1>5. i <= Len(less)
    <2>1. Len(less) = Len(pages[p].cells) - 1 /\ Len(less) \in Nat
      BY <1>3 DEF IsLess
    <2>2. Len(pages[p].cells) \in Nat
      BY DEF IsDeletion, IsLeaf
    <2> QED
      BY <1>1, <2>1, <2>2
  <1>6. DOMAIN after = DOMAIN pages /\ \A y \in DOMAIN pages : after[y].kind = pages[y].kind
    BY <1>2 DEF AfterDelete
  <1>7. InTree' = InTree
    BY <1>6 DEF InTree
  <1>8. ASSUME NEW k \in 1 .. Len(s) - 1
        PROVE  after[s[k].page] = pages[s[k].page]
    <2>1. s[k].page \in InTree /\ pages[s[k].page].kind = "interior"
      <3>1. k \in 1 .. Len(s)
        BY <1>4
      <3>2. FrameIs(t, s, k)
        BY <1>1, <3>1, StackFrames
      <3> QED
        BY <1>1, <3>2 DEF FrameIs, IsStack, AtRest
    <2>2. s[k].page \in DOMAIN pages /\ s[k].page # p
      BY <1>1, <2>1 DEF InTree
    <2> QED
      BY <1>2, <2>2 DEF AfterDelete
  <1>9. IsStack(Root, s)'
    <2>1. (s \in Seq([page : InTree, idx : Nat \ {0}]))'
      BY <1>1, <1>7 DEF IsStack
    <2>2. ASSUME NEW k \in 1 .. Len(s) - 1
          PROVE  /\ after[s[k].page].kind = "interior" /\ s[k].idx <= Len(after[s[k].page].cells) + 1
                 /\ s[k + 1].page = Child(after[s[k].page], s[k].idx)
      BY <1>1, <1>8 DEF IsStack
    <2>3. after[p].kind = "leaf" /\ s[Len(s)].idx <= Len(after[p].cells)
      BY <1>1, <1>2, <1>5 DEF AfterDelete
    <2> QED
      BY <1>1, <1>4, <2>1, <2>2, <2>3 DEF IsStack
  <1>10. cursor' = On(s)'
    <2>1. after[p].cells = less
      BY <1>2 DEF AfterDelete
    <2> QED
      BY <1>1, <1>4, <2>1 DEF On
  <1>11. cursor'.stack = s
    BY <1>1 DEF On
  <1> QED
    BY <1>1, <1>9, <1>10, <1>11 DEF CursorInv

\* A deletion is that of the ordered map.
LEMMA DeleteMoves ==
  ASSUME TreeInv, CursorInv, SoundDelete, Delete
  PROVE  TreeInv' /\ CursorInv' /\ Map!Delete
  <1>1. CASE cursor.valid
    <2>1. PICK t, head, s, p, i, less, u : IsDeletion(t, head, s, p, i, less, u)
      BY <1>1, DeleteIs
    <2>2. TreeInv' /\ CursorInv'
      BY <2>1, DeleteKeeps, DeleteStays
    <2> PICK key : key = KeyAt(s)
      OBVIOUS
    <2> PICK n : n = i + 1
      OBVIOUS
    <2> PICK next : next = pages[p].cells[n].key
      OBVIOUS
    <2> PICK R : R = {r \in rows : r > key}
      OBVIOUS
    <2>3. /\ AtRest(t, head) /\ LeafIs(t, p) /\ i \in 1 .. Len(pages[p].cells) /\ n \in 1 .. Len(pages[p].cells)
          /\ key = pages[p].cells[i].key /\ key \in rows
      <3>1. /\ AtRest(t, head) /\ LeafIs(t, p) /\ i \in 1 .. Len(pages[p].cells) /\ i < Len(pages[p].cells)
            /\ key = pages[p].cells[i].key
        BY <2>1 DEF IsDeletion, KeyAt
      <3>2. Len(pages[p].cells) \in Nat /\ key \in rows
        BY <3>1 DEF LeafIs
      <3> QED
        BY <3>1, <3>2
    <2>4. rows \subseteq Nat /\ rows \subseteq Rowids
      BY <2>3, AllRows
    <2>5. IsNextTo(key, next)
      BY <2>3, <2>4, LeafNeighbours
    <2>6. next \in R /\ \A r \in R : next <= r
      BY <2>3, <2>4, <2>5 DEF IsNextTo
    <2>7. cursor.key = key /\ cursor'.valid = TRUE /\ cursor'.key = next
      <3>1. /\ cursor = On(s) /\ cursor.key = key /\ cursor' = [cursor EXCEPT !.key = less[i].key]
        BY <2>1 DEF IsDeletion, IsOn
      <3>2. less[i] = pages[p].cells[n]
        <4>1. IsLess(head, p, i, less)
          BY <2>1, LessIs
        <4>2. i \in 1 .. Len(less)
          <5>1. Len(less) = Len(pages[p].cells) - 1 /\ Len(pages[p].cells) \in Nat
            BY <2>3, <4>1 DEF IsLess, LeafIs
          <5> QED
            BY <2>3, <5>1
        <4> QED
          BY <4>1, <4>2 DEF IsLess
      <3> QED
        BY <3>1, <3>2 DEF On
    <2>8. key # None
      BY <2>3, <2>4, BTreeAssumption
    <2>9. Map!Lowest(R)
      BY <2>6, <2>7 DEF Map!Lowest
    <2>10. rows' = rows \ {key} /\ ret' = "ok"
      BY <2>1 DEF IsDeletion
    <2> QED
      BY <1>1, <2>2, <2>7, <2>8, <2>9, <2>10 DEF Map!Delete
  <1>2. CASE ~cursor.valid
    <2>1. ret' = "InvalidCursor" /\ UNCHANGED <<pages, cursor, rows, call>> /\ call = Idle
      BY <1>2 DEF Delete
    <2>2. cursor = Invalid
      BY <1>2 DEF CursorInv, On
    <2>3. CursorInv'
      BY <2>1, <2>2 DEF CursorInv, Invalid
    <2>4. TreeInv'
      BY <2>1, TreeStays
    <2> QED
      BY <1>2, <2>1, <2>3, <2>4 DEF Map!Delete
  <1> QED
    BY <1>1, <1>2

\* An insertion is that of the ordered map.
LEMMA InsertMoves ==
  ASSUME NEW r \in Rowids, Insert(r)
  PROVE  CursorInv' /\ Map!Insert(r)
  <1>1. r \notin rows /\ cursor' = Invalid /\ ret' = "ok" /\ rows' = rows \cup {r}
    BY DEF Insert
  <1>2. CursorInv'
    BY <1>1 DEF CursorInv, Invalid
  <1>3. (cursor'.valid = FALSE) /\ (IF cursor'.valid THEN cursor'.key ELSE None) = None
    BY <1>1 DEF Invalid
  <1> QED
    BY <1>1, <1>2, <1>3 DEF Map!Insert

\* Between two steps of a call the map does nothing, and no step fails.
LEMMA StepMoves ==
  ASSUME PagesHaveRoom, TreeInv, CursorInv, Step
  PROVE  TreeInv' /\ CursorInv' /\ UNCHANGED Map!vars
  <1>1. call # Idle /\ UNCHANGED <<cursor, rows>>
    <2>1. call.op \in {"split", "retarget"} /\ UNCHANGED <<cursor, rows>>
      BY DEF Step, SplitRoot, SplitBelow, Retarget
    <2> QED
      BY <2>1 DEF Idle
  <1>2. TreeInv' /\ ret' = ret
    BY SplitRootKeeps, SplitBelowKeeps, RetargetKeeps DEF Step
  <1>3. CursorInv'
    BY <1>1 DEF CursorInv, Invalid
  <1> QED
    BY <1>1, <1>2, <1>3 DEF Map!vars

\* The first tree is a leaf without rows.
LEMMA StartsAsTree ==
  ASSUME PagesHaveRoom, Init
  PROVE  TreeInv /\ CursorInv /\ Map!Init
  <1>1. /\ pages = [p \in 1 .. Root |-> Blank("leaf")] /\ cursor = Invalid /\ call = Idle
        /\ ret = "none" /\ rows = {} /\ Root \in Nat /\ Root \in 1 .. Root
    BY BTreeAssumption DEF Init
  <1> PICK pg : pg = Blank("leaf")
    OBVIOUS
  <1>2. pg.kind = "leaf" /\ pg.cells = <<>> /\ pg.used = 0 /\ pg.right = 0 /\ pg \in PageRecords
    BY DEF Blank, PageRecords
  <1>3. DOMAIN pages = 1 .. Root /\ \A p \in 1 .. Root : pages[p] = pg
    BY <1>1
  <1>4. ArePages
    <2>1. pages \in Seq(PageRecords)
      BY <1>1, <1>2
    <2>2. ASSUME NEW p \in 1 .. Root
          PROVE  IsPage(p, pg)
      <3>1. 0 <= Room(p, "leaf") /\ PtrSize \in Nat /\ Len(<<>>) = 0
        BY RoomTypes
      <3>2. pg.used + PtrSize * 0 <= Room(p, pg.kind)
        <4>1. pg.used + PtrSize * 0 = 0
          BY <1>2, <3>1
        <4> QED
          BY <1>2, <3>1, <4>1
      <3> QED
        BY <1>2, <3>1, <3>2 DEF IsPage
    <2> QED
      BY <1>3, <2>1, <2>2 DEF ArePages
  <1>5. InTree = {Root}
    BY <1>1, <1>2, <1>3 DEF InTree
  <1> PICK n : n = Node(0, Nat, <<>>, <<>>)
    OBVIOUS
  <1> PICK t : t = [p \in {Root} |-> n]
    OBVIOUS
  <1>6. n.lev = 0 /\ n.rng = Nat /\ n.keys = <<>> /\ n.kids = <<>> /\ Len(<<>>) = 0 /\ DOMAIN <<>> = {}
    BY DEF Node
  <1>7. DOMAIN t = {Root} /\ t[Root] = n
    OBVIOUS
  <1>8. IsTree(t, rows)
    <2>1. IsNodeData(n)
      <3>1. n.keys \in Seq(Nat) /\ Sorted(n.keys) /\ n.rng # {} /\ Convex(n.rng)
        <4>1. <<>> \in Seq(Nat) /\ Nat # {}
          OBVIOUS
        <4>2. Convex(n.rng) /\ Sorted(n.keys)
          BY <1>6 DEF Sorted, Convex
        <4> QED
          BY <1>6, <4>1, <4>2
      <3> QED
        BY <1>6, <3>1 DEF IsNodeData
    <2>2. HasRows(n, rows)
      BY <1>1, <1>6 DEF HasRows
    <2>3. IsNode(t, n, rows)
      BY <1>6, <2>1, <2>2 DEF IsNode
    <2> QED
      BY <1>6, <1>7, <2>3 DEF IsTree
  <1> PICK head : head = [r \in {} |-> 0]
    OBVIOUS
  <1>9. Hold(t, head)
    <2>1. Held(Root) = <<>> /\ Todo = <<>> /\ pages[Root].kind = "leaf"
      BY <1>1, <1>2, <1>3 DEF Held, Todo, Idle
    <2>2. Shows(n, "leaf", <<>>, pages[Root].right, <<>>, head)
      BY <1>6 DEF Shows, KeysAre, HeadsAre
    <2>3. Holds(Root, n, head)
      BY <2>1, <2>2 DEF Holds
    <2> QED
      BY <1>5, <1>7, <2>3 DEF Hold
  <1>10. AreChains(head)
    BY <1>1 DEF AreChains
  <1>11. Represents(t, head)
    BY <1>1, <1>8, <1>9, <1>10 DEF Represents, IsCall
  <1>12. TreeInv
    BY <1>1, <1>3, <1>4, <1>11 DEF TreeInv
  <1>13. CursorInv /\ Map!Init
    BY <1>1 DEF CursorInv, Map!Init, Invalid
  <1> QED
    BY <1>12, <1>13

BTreeInv == TreeInv /\ CursorInv

\* Every call keeps the tree a tree and the cursor on a row of it, and does to
\* the rows, to the cursor's place and to the answer what the map's call does.
LEMMA CallMoves ==
  ASSUME PagesHaveRoom, BTreeInv, SoundNext
  PROVE  BTreeInv' /\ [Map!Next]_(Map!vars)
  <1>1. CASE MoveToFirst
    <2>1. UNCHANGED <<pages, call, rows>>
      BY <1>1 DEF MoveToFirst
    <2> QED
      BY <1>1, <2>1, TreeStays, FirstMoves DEF BTreeInv, Map!Next
  <1>2. CASE MoveToLast
    <2>1. UNCHANGED <<pages, call, rows>>
      BY <1>2 DEF MoveToLast
    <2> QED
      BY <1>2, <2>1, TreeStays, LastMoves DEF BTreeInv, Map!Next
  <1>3. CASE NextRow
    <2>1. UNCHANGED <<pages, call, rows>>
      BY <1>3 DEF NextRow
    <2> QED
      BY <1>3, <2>1, TreeStays, NextMoves DEF BTreeInv, Map!Next
  <1>4. CASE PreviousRow
    <2>1. UNCHANGED <<pages, call, rows>>
      BY <1>4 DEF PreviousRow
    <2> QED
      BY <1>4, <2>1, TreeStays, PreviousMoves DEF BTreeInv, Map!Next
  <1>5. CASE Step
    BY <1>5, StepMoves DEF BTreeInv
  <1>6. CASE call = Idle /\ SoundDelete /\ Delete
    BY <1>6, DeleteMoves DEF BTreeInv, Map!Next
  <1>7. CASE \E r \in Rowids : call = Idle /\ SoundInsert(r) /\ Insert(r)
    <2> PICK r \in Rowids : call = Idle /\ SoundInsert(r) /\ Insert(r)
      BY <1>7
    <2>1. TreeInv'
      BY InsertKeeps DEF BTreeInv
    <2>2. CursorInv' /\ Map!Insert(r)
      BY InsertMoves
    <2> QED
      BY <2>1, <2>2 DEF BTreeInv, Map!Next
  <1>8. CASE \E r \in Rowids : call = Idle /\ SoundSeek(r) /\ MoveTo(r)
    <2> PICK r \in Rowids : call = Idle /\ SoundSeek(r) /\ MoveTo(r)
      BY <1>8
    <2>1. UNCHANGED <<pages, call, rows>>
      BY DEF MoveTo
    <2>2. TreeInv'
      BY <2>1, TreeStays DEF BTreeInv
    <2>3. CursorInv' /\ Map!MoveTo(r)
      BY SeekMoves DEF BTreeInv
    <2> QED
      BY <2>2, <2>3 DEF BTreeInv, Map!Next
  <1> QED
    BY <1>1, <1>2, <1>3, <1>4, <1>5, <1>6, <1>7, <1>8 DEF SoundNext

\* A stutter is one of the ordered map.
LEMMA NothingMoves ==
  ASSUME BTreeInv, UNCHANGED vars
  PROVE  BTreeInv' /\ UNCHANGED Map!vars
  <1>1. UNCHANGED <<pages, cursor, call, ret, rows>>
    BY DEF vars
  <1>2. TreeInv'
    BY <1>1, TreeStays DEF BTreeInv
  <1>3. CursorInv'
    BY <1>1 DEF BTreeInv, CursorInv, Invalid, Idle, IsStack, InTree, Child, On
  <1> QED
    BY <1>1, <1>2, <1>3 DEF BTreeInv, Map!vars

\* After every step, also of a split that is not done, the pages hold a tree, and
\* between calls a valid cursor's stack leads to the cell of a row.
THEOREM TreeIsKept ==
  SoundSpec => []BTreeInv
  <1>0. PagesHaveRoom
    BY RoomAssumption DEF PagesHaveRoom
  <1>1. Init => BTreeInv
    BY <1>0, StartsAsTree DEF BTreeInv
  <1>2. BTreeInv /\ [SoundNext]_vars => BTreeInv'
    BY <1>0, CallMoves, NothingMoves
  <1> QED
    BY <1>1, <1>2, PTL DEF SoundSpec

\* Between calls the leaves hold the rows inserted and not deleted, in order.
THEOREM RowsAreHeld ==
  SoundSpec => []TreeHoldsRows
  <1>1. BTreeInv => TreeHoldsRows
    BY HoldsRows DEF BTreeInv
  <1> QED
    BY <1>1, TreeIsKept, PTL

\* Between calls the dividers of every interior page separate the rows left of
\* them from those right of them: no descent goes past a row that is there.
THEOREM DividersDivide ==
  SoundSpec => []DividersSeparate
  <1>1. BTreeInv => DividersSeparate
    BY Separates DEF BTreeInv
  <1> QED
    BY <1>1, TreeIsKept, PTL

\* Between calls no page is reached twice: insertions and splits never give a
\* child or an overflow page two places.
THEOREM PagesHaveOnePlace ==
  SoundSpec => []EachPageOnce
  <1>1. BTreeInv => EachPageOnce
    BY PagesOnce DEF BTreeInv
  <1> QED
    BY <1>1, TreeIsKept, PTL

\* At every step, in a split too, the cells of a page and the bytes of deleted ones
\* leave room for its pointers; between calls every row has its whole overflow chain.
THEOREM CellsStayWhole ==
  SoundSpec => []CellsWhole
  <1>1. BTreeInv => CellsWhole
    BY AreWhole DEF BTreeInv
  <1> QED
    BY <1>1, TreeIsKept, PTL

\* The B-tree and its cursor implement an ordered map and a cursor on it: every
\* call answers and moves as the map's does, and no step in between shows.
THEOREM TreeIsOrderedMap ==
  SoundSpec => ImplementsOrderedMap
  <1>0. PagesHaveRoom
    BY RoomAssumption DEF PagesHaveRoom
  <1>1. Init => Map!Init
    BY <1>0, StartsAsTree
  <1>2. BTreeInv /\ [SoundNext]_vars => [Map!Next]_(Map!vars)
    BY <1>0, CallMoves, NothingMoves
  <1> QED
    BY <1>1, <1>2, TreeIsKept, PTL DEF SoundSpec, ImplementsOrderedMap, Map!Spec
==============================================================================
