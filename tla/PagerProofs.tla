---------------------------- MODULE PagerProofs ----------------------------
(***************************************************************************)
(* Proofs about what the two pagers share: the types of the cache, the     *)
(* files and the savepoints, the list of dirty pages and the snapshots     *)
(* that savepoints keep of it, and what reading, writing and rolling back  *)
(* do to one slot of the cache.  All of it holds for every number of       *)
(* pages, every cache size and every set of page values: PagerConstants is *)
(* all that is assumed.                                                    *)
(***************************************************************************)
EXTENDS Pager, SequenceTheorems, WellFoundedInduction, TLAPS

-----------------------------------------------------------------------------
\* Sequences and numbers

\* A set of positions in a sequence that is not empty has a last one.
LEMMA LastExists ==
  ASSUME NEW n \in Nat, NEW S \in SUBSET (1..n), S # {}
  PROVE  \E last \in S : \A j \in S : j <= last
  <1> DEFINE T == {n - k : k \in S}
             R == OpToRel(<, Nat)
  <1>1. \A k \in S : k \in 1..n
    OBVIOUS
  <1>2. T \subseteq Nat
    BY <1>1
  <1>3. T # {}
    <2>1. PICK k \in S : TRUE
      OBVIOUS
    <2>2. n - k \in T
      OBVIOUS
    <2> QED
      BY <2>2
  <1>4. IsWellFoundedOn(R, Nat)
    BY NatLessThanWellFounded
  <1>5. PICK m \in T : \A k \in T : <<k, m>> \notin R
    <2> HIDE DEF T, R
    <2> QED
      BY <1>2, <1>3, <1>4, WFMin
  <1>6. \A k \in T : ~(k < m)
    BY <1>2, <1>5 DEF OpToRel
  <1>7. PICK last \in S : m = n - last
    OBVIOUS
  <1>8. ASSUME NEW j \in S PROVE j <= last
    <2>1. n - j \in T
      OBVIOUS
    <2>2. ~(n - j < n - last)
      BY <1>6, <1>7, <2>1
    <2> HIDE DEF T, R
    <2> QED
      BY <1>1, <2>2
  <1> QED
    BY <1>8

\* A prefix of a sequence is a sequence over the same set.
LEMMA PrefixInSeq ==
  ASSUME NEW S, NEW s \in Seq(S), NEW n \in Nat, n <= Len(s)
  PROVE  SubSeq(s, 1, n) \in Seq(S) /\ Len(SubSeq(s, 1, n)) = n
  <1>1. \A i \in 1..n : s[i] \in S
    BY ElementOfSeq
  <1>2. QED
    BY <1>1, SubSeqProperties

\* A function on nothing is the empty sequence: no savepoints, no promises.
LEMMA NothingIsEmptySeq ==
  ASSUME NEW f, f = [k \in {} |-> f[k]]
  PROVE  f = <<>>
  <1>1. f \in [1..0 -> {0}]
    OBVIOUS
  <1>2. f \in Seq({0})
    BY <1>1, SeqDef
  <1>3. Len(f) = 0
    BY <1>1, <1>2
  <1> QED
    BY <1>2, <1>3, EmptySeq

-----------------------------------------------------------------------------
\* Types

\* An all-zero page is a page.
LEMMA BlankInContents == Blank \in Contents
  BY PagerConstants DEF Blank, Contents

\* A page that has just been read fills its cache slot.
LEMMA CleanInSlots ==
  ASSUME NEW c \in Contents
  PROVE  Clean(c) \in Slots \ {Absent}
  <1>1. Clean(c) \in [data : Contents, dirty : BOOLEAN]
    BY DEF Clean
  <1>2. Absent \notin [data : Contents, dirty : BOOLEAN]
    BY PagerConstants
  <1> QED
    BY <1>1, <1>2 DEF Slots

\* ensure_cached's insertion, with the eviction it may cause, leaves a cache
\* that holds the page.
LEMMA FilledType ==
  ASSUME PagerTypeOK, NEW p \in Pages, NEW c \in Contents, NEW after \in Filled(p, c)
  PROVE  after \in [Pages -> Slots] /\ after[p] # Absent
  <1> DEFINE full == [cache EXCEPT ![p] = Clean(c)]
  <1>1. full \in [Pages -> Slots] /\ full[p] # Absent
    BY CleanInSlots DEF PagerTypeOK
  <1>2. after = full \/ \E q \in Victims(p) : after = [full EXCEPT ![q] = Absent]
    BY DEF Filled
  <1>3. Victims(p) \subseteq Pages \ {p} /\ Absent \in Slots
    BY DEF Victims, Slots
  <1> QED
    BY <1>1, <1>2, <1>3

\* write_access keeps the pager's own types: an added page is in the bound.
LEMMA ModifyType ==
  ASSUME PagerTypeOK, NEW p \in Pages, NEW before \in [Pages -> Slots], before[p] # Absent,
         NEW c \in Contents, Modify(before, p, c)
  PROVE  PagerTypeOK'
  <1> USE DEF PagerTypeOK, Modify
  <1>1. cache' \in [Pages -> Slots]
    BY DEF Slots
  <1>2. dirtyOrder' \in Seq(Pages)
    OBVIOUS
  <1>3. dbSize' \in 0..MaxPage
    BY PagerConstants DEF Larger, Pages
  <1> QED
    BY <1>1, <1>2, <1>3

\* Writing a page gives a file.
LEMMA PWriteType ==
  ASSUME NEW f \in Files, NEW p \in Pages, NEW c \in Contents
  PROVE  PWrite(f, p, c) \in Files
  BY PagerConstants DEF PWrite, Files, Larger, Pages

\* Past its end, a file that is written to is still zero.
LEMMA PWriteValues ==
  ASSUME NEW f \in Files, NEW p \in Pages, NEW c \in Contents, NEW q \in Pages
  PROVE  /\ PWrite(f, p, c).data[q].val = IF q = p THEN c.val ELSE f.data[q].val
         /\ q > PWrite(f, p, c).len => q # p /\ q > f.len
  BY PagerConstants DEF PWrite, Files, Larger, Pages

\* Pager::open finds a size inside the bound.
LEMMA OpenSizeType ==
  ASSUME NEW f \in Files
  PROVE  OpenSize(f) \in 0..MaxPage
  <1>1. CASE f.len > 0 /\ Magic(f.data[1]) /\ f.data[1].ndb # 0
    <2>1. 1 \in Pages
      BY PagerConstants DEF Pages
    <2>2. f.data[1] \in Contents
      BY <2>1 DEF Files
    <2> QED
      BY <1>1, <2>2 DEF OpenSize, Magic, Contents
  <1> QED
    BY <1>1 DEF OpenSize, Files

\* What a power loss leaves is a file.
LEMMA PowerLossType ==
  ASSUME NEW f \in Files, NEW s \in Files, NEW after \in PowerLoss(f, s)
  PROVE  after \in Files
  BY PagerConstants DEF PowerLoss, Files

\* The databases a pager may open are files.
LEMMA InitFilesType ==
  ASSUME NEW f \in InitFiles
  PROVE  f \in Files
  <1>1. PICK n \in 0..MaxPage, v \in [Pages -> Vals], headed \in Headed :
          f = [data |-> [p \in Pages |->
                 CASE p > n -> Blank
                   [] p = 1 /\ p <= n /\ headed -> [val |-> v[p], ndb |-> n]
                   [] OTHER -> [val |-> v[p], ndb |-> NoHdr]],
               len |-> n]
    BY DEF InitFiles
  <1>2. ASSUME NEW p \in Pages
        PROVE  f.data[p] \in Contents
    <2>1. CASE p > n
      BY <1>1, <2>1, BlankInContents
    <2>2. CASE p <= n /\ p = 1 /\ headed
      <3>1. f.data[p] = [val |-> v[p], ndb |-> n]
        BY <1>1, <2>2 DEF Pages
      <3> QED
        BY <3>1 DEF Contents
    <2>3. CASE p <= n /\ ~(p = 1 /\ headed)
      <3>1. f.data[p] = [val |-> v[p], ndb |-> NoHdr]
        BY <1>1, <2>3 DEF Pages
      <3> QED
        BY <3>1 DEF Contents
    <2> QED
      BY <2>1, <2>2, <2>3, PagerConstants DEF Pages
  <1>3. f = [data |-> f.data, len |-> n] /\ f.data \in [Pages -> Contents]
    BY <1>1, <1>2
  <1> QED
    BY <1>3 DEF Files

\* A pager that was just opened has its types.
LEMMA OpenedType ==
  ASSUME NEW f \in InitFiles, Opened(f), committed = Values(f), committedSize = OpenSize(f)
  PROVE  PagerTypeOK
  <1>1. f \in Files
    BY InitFilesType
  <1>2. OpenSize(f) \in 0..MaxPage
    BY <1>1, OpenSizeType
  <1>3. Values(f) \in [Pages -> Vals]
    BY <1>1 DEF Values, Files, Contents
  <1>4. [p \in Pages |-> Absent] \in [Pages -> Slots]
    BY DEF Slots
  <1> QED
    BY <1>1, <1>2, <1>3, <1>4 DEF PagerTypeOK, Opened, States, Calls

\* Opening what a crash left keeps the pager's types.
LEMMA ReopenedType ==
  ASSUME PagerTypeOK, NEW f \in Files, NEW size \in 0..MaxPage, ReopenedAs(f, size)
  PROVE  PagerTypeOK'
  <1>1. [p \in Pages |-> Absent] \in [Pages -> Slots]
    BY DEF Slots
  <1> QED
    BY <1>1 DEF ReopenedAs, PagerTypeOK, States, Calls

\* The parts of a snapshot.
LEMMA SnapshotType ==
  ASSUME NEW s \in Seq(Snapshots), NEW k \in 1..Len(s)
  PROVE  s[k].n \in Nat /\ s[k].dirty \in [Pages -> {Absent} \cup Contents]
  <1>1. s[k] \in Snapshots
    BY ElementOfSeq
  <1> QED
    BY <1>1 DEF Snapshots

\* savepoint keeps the pager's types: a snapshot holds cached pages only.
LEMMA OpenSavepointType ==
  ASSUME PagerTypeOK, OpenSavepoint
  PROVE  PagerTypeOK'
  <1> DEFINE sp == [dirty |-> [p \in Pages |->
                       IF (\E i \in DOMAIN dirtyOrder : dirtyOrder[i] = p) /\ Cached(p)
                         THEN cache[p].data ELSE Absent],
                    n |-> Len(dirtyOrder), size |-> dbSize]
  <1>1. \A p \in Pages : Cached(p) => cache[p].data \in Contents
    BY DEF PagerTypeOK, Slots, Cached
  <1>2. sp.dirty \in [Pages -> {Absent} \cup Contents]
    BY <1>1
  <1>3. Len(dirtyOrder) \in Nat /\ dbSize \in 0..MaxPage
    BY DEF PagerTypeOK
  <1>4. sp \in Snapshots
    BY <1>2, <1>3 DEF Snapshots
  <1>5. savepoints' = Append(savepoints, sp)
    BY DEF OpenSavepoint
  <1>6. savepoints' \in Seq(Snapshots)
    <2> HIDE DEF sp
    <2> QED
      BY <1>4, <1>5 DEF PagerTypeOK
  <1> QED
    BY <1>6 DEF OpenSavepoint, PagerTypeOK

\* savepoint_release keeps the pager's types.
LEMMA SavepointReleaseType ==
  ASSUME PagerTypeOK, NEW k \in DOMAIN savepoints, SavepointRelease(k)
  PROVE  PagerTypeOK'
  <1>1. savepoints \in Seq(Snapshots) /\ k \in 1..Len(savepoints)
    BY DEF PagerTypeOK
  <1>2. SubSeq(savepoints, 1, k - 1) \in Seq(Snapshots)
    BY <1>1, PrefixInSeq
  <1> QED
    BY <1>2 DEF SavepointRelease, PagerTypeOK

\* savepoint_rollback keeps the pager's types: the restored slots come from
\* the snapshot, the list is cut to a prefix.
LEMMA SavepointRollbackType ==
  ASSUME PagerTypeOK, NEW k \in DOMAIN savepoints, SavepointRollback(k)
  PROVE  PagerTypeOK'
  <1> DEFINE sp == savepoints[k]
  <1>1. savepoints \in Seq(Snapshots) /\ dirtyOrder \in Seq(Pages) /\ cache \in [Pages -> Slots]
    BY DEF PagerTypeOK
  <1>2. k \in 1..Len(savepoints) /\ sp \in Snapshots
    BY <1>1, ElementOfSeq
  <1>3. sp.n \in Nat /\ sp.n <= Len(dirtyOrder) /\ sp.size \in 0..MaxPage
        /\ sp.dirty \in [Pages -> {Absent} \cup Contents]
    BY <1>2 DEF SavepointRollback, Snapshots
  <1>4. cache' \in [Pages -> Slots]
    <2>1. ASSUME NEW p \in Pages
          PROVE  /\ sp.dirty[p] # Absent => [data |-> sp.dirty[p], dirty |-> TRUE] \in Slots
                 /\ cache[p] \in Slots /\ Absent \in Slots
      BY <1>1, <1>3 DEF Slots
    <2>2. cache' = [p \in Pages |->
             CASE p \in DirtiedAfter(sp) \/ ~Cached(p) -> Absent
               [] p \notin DirtiedAfter(sp) /\ Cached(p) /\ sp.dirty[p] # Absent
                    -> [data |-> sp.dirty[p], dirty |-> TRUE]
               [] OTHER -> cache[p]]
      BY DEF SavepointRollback
    <2> HIDE DEF sp
    <2> QED
      BY <2>1, <2>2
  <1>5. dirtyOrder' \in Seq(Pages)
    BY <1>1, <1>3, PrefixInSeq DEF SavepointRollback
  <1>6. savepoints' \in Seq(Snapshots)
    BY <1>1, <1>2, PrefixInSeq DEF SavepointRollback
  <1>7. dbSize' \in 0..MaxPage /\ state' \in States
    BY <1>3 DEF SavepointRollback, States
  <1> QED
    BY <1>4, <1>5, <1>6, <1>7 DEF SavepointRollback, PagerTypeOK

-----------------------------------------------------------------------------
\* The list of dirty pages and the savepoints

\* The first n pages of dirty_order.
Front(n) == {dirtyOrder[i] : i \in 1..n}

\* No page is listed twice.
NoPageTwice == \A i, j \in DOMAIN dirtyOrder : dirtyOrder[i] = dirtyOrder[j] => i = j

\* The listed pages are the dirty ones.
ListsDirty == \A p \in Pages : Dirty(p) <=> p \in Front(Len(dirtyOrder))

\* Each savepoint has a snapshot of the pages listed before it, and inner
\* savepoints list more.
SavepointsNest ==
  \A k \in DOMAIN savepoints :
    /\ savepoints[k].n <= Len(dirtyOrder)
    /\ \A p \in Pages : savepoints[k].dirty[p] # Absent <=> p \in Front(savepoints[k].n)
    /\ \A j \in 1..k : savepoints[j].n <= savepoints[k].n

ListInv == NoPageTwice /\ ListsDirty /\ SavepointsNest

\* A step that leaves the list, the savepoints and the dirty flags alone
\* keeps what relates them.
LEMMA SameList ==
  ASSUME ListInv, UNCHANGED <<dirtyOrder, savepoints>>,
         \A p \in Pages : Dirty(p)' <=> Dirty(p)
  PROVE  ListInv'
  BY DEF ListInv, NoPageTwice, ListsDirty, SavepointsNest, Front

\* Nothing is listed and nothing is dirty.
LEMMA NothingListed ==
  ASSUME dirtyOrder' = <<>>, savepoints' = <<>>, \A p \in Pages : ~Dirty(p)'
  PROVE  ListInv'
  BY DEF ListInv, NoPageTwice, ListsDirty, SavepointsNest, Front

\* The first write of a page puts it at the end of the list.
LEMMA ListingKeepsList ==
  ASSUME PagerTypeOK, ListInv, NEW p \in Pages, ~Dirty(p),
         \A q \in Pages : Dirty(q)' <=> Dirty(q) \/ q = p,
         dirtyOrder' = Append(dirtyOrder, p), UNCHANGED savepoints
  PROVE  ListInv'
  <1>1. dirtyOrder \in Seq(Pages) /\ savepoints \in Seq(Snapshots)
    BY DEF PagerTypeOK
  <1>2. PICK n \in Nat : n = Len(dirtyOrder)
    BY <1>1
  <1>3. /\ Len(dirtyOrder') = n + 1 /\ dirtyOrder'[n + 1] = p
        /\ \A i \in 1..n : dirtyOrder'[i] = dirtyOrder[i]
    BY <1>1, <1>2
  <1>4. \A m \in 0..n : Front(m)' = Front(m)
    BY <1>3 DEF Front
  <1>5. Front(n + 1)' = Front(n) \cup {p}
    <2>1. 1..(n + 1) = (1..n) \cup {n + 1}
      OBVIOUS
    <2>2. Front(n + 1)' = {dirtyOrder'[i] : i \in 1..(n + 1)}
      BY DEF Front
    <2> QED
      BY <1>3, <2>1, <2>2 DEF Front
  <1>6. p \notin Front(n)
    BY <1>2 DEF ListInv, ListsDirty
  <1>7. ListsDirty'
    BY <1>2, <1>3, <1>5 DEF ListInv, ListsDirty
  <1>8. NoPageTwice'
    <2>1. ASSUME NEW i \in 1..(n + 1), NEW j \in 1..(n + 1), dirtyOrder'[i] = dirtyOrder'[j]
          PROVE  i = j
      <3>1. CASE i \in 1..n /\ j \in 1..n
        BY <1>1, <1>2, <1>3, <2>1, <3>1 DEF ListInv, NoPageTwice
      <3>2. CASE i = n + 1 /\ j \in 1..n
        BY <1>1, <1>3, <1>6, <2>1, <3>2 DEF Front
      <3>3. CASE i \in 1..n /\ j = n + 1
        BY <1>1, <1>3, <1>6, <2>1, <3>3 DEF Front
      <3> QED
        BY <1>1, <3>1, <3>2, <3>3
    <2>2. DOMAIN dirtyOrder' = 1..(n + 1)
      BY <1>1, <1>2
    <2> QED
      BY <2>1, <2>2 DEF NoPageTwice
  <1>9. SavepointsNest'
    <2> SUFFICES ASSUME NEW k \in DOMAIN savepoints
                 PROVE  /\ savepoints[k].n <= n + 1
                        /\ \A q \in Pages : savepoints[k].dirty[q] # Absent
                                              <=> q \in Front(savepoints[k].n)'
                        /\ \A j \in 1..k : savepoints[j].n <= savepoints[k].n
      BY <1>3 DEF SavepointsNest
    <2>1. savepoints[k] \in Snapshots
      BY <1>1, ElementOfSeq
    <2>2. savepoints[k].n \in 0..n
      BY <1>1, <1>2, <2>1 DEF ListInv, SavepointsNest, Snapshots
    <2> QED
      BY <1>1, <1>4, <2>2 DEF ListInv, SavepointsNest
  <1> QED
    BY <1>7, <1>8, <1>9 DEF ListInv

\* The caller's change of a page that write_access has made writable makes
\* that page dirty and no other.
LEMMA ModifyDirties ==
  ASSUME NEW p \in Pages, NEW before \in [Pages -> Slots],
         \A q \in Pages : before[q] # Absent /\ before[q].dirty <=> Dirty(q),
         NEW c \in Contents, Modify(before, p, c), NEW q \in Pages
  PROVE  Dirty(q)' <=> Dirty(q) \/ q = p
  <1>1. cache' = [before EXCEPT ![p] = [data |-> c, dirty |-> TRUE]]
    BY DEF Modify
  <1>2. CASE q = p
    <2>1. cache'[q] \in [data : Contents, dirty : BOOLEAN] /\ cache'[q].dirty
      BY <1>1, <1>2
    <2> QED
      BY <1>2, <2>1, PagerConstants DEF Dirty, Cached
  <1>3. CASE q # p
    BY <1>1, <1>3 DEF Dirty, Cached
  <1> QED
    BY <1>2, <1>3

\* write_access keeps the list exact, whether the page is listed already or not.
LEMMA ModifyKeepsList ==
  ASSUME PagerTypeOK, ListInv, NEW p \in Pages,
         NEW before \in [Pages -> Slots], before[p] # Absent,
         \A q \in Pages : before[q] # Absent /\ before[q].dirty <=> Dirty(q),
         NEW c \in Contents, Modify(before, p, c)
  PROVE  ListInv'
  <1>1. \A q \in Pages : Dirty(q)' <=> Dirty(q) \/ q = p
    BY ModifyDirties
  <1>2. UNCHANGED savepoints
    BY DEF Modify
  <1>3. CASE before[p].dirty
    <2>1. Dirty(p) /\ UNCHANGED dirtyOrder
      BY <1>3 DEF Modify
    <2> QED
      BY <1>1, <1>2, <2>1, SameList
  <1>4. CASE ~before[p].dirty
    <2>1. ~Dirty(p) /\ dirtyOrder' = Append(dirtyOrder, p)
      BY <1>4 DEF Modify
    <2> QED
      BY <1>1, <1>2, <2>1, ListingKeepsList
  <1> QED
    BY <1>3, <1>4

\* savepoint: the new snapshot holds the pages that are dirty now.
LEMMA SnapshotOfDirty ==
  ASSUME PagerTypeOK, ListsDirty, OpenSavepoint
  PROVE  \E sp \in Snapshots :
           /\ savepoints' = Append(savepoints, sp)
           /\ sp.n = Len(dirtyOrder) /\ sp.size = dbSize
           /\ \A p \in Pages : sp.dirty[p] = IF Dirty(p) THEN cache[p].data ELSE Absent
           /\ \A p \in Pages : sp.dirty[p] # Absent <=> Dirty(p)
  <1> DEFINE dirty == [p \in Pages |->
               IF (\E i \in DOMAIN dirtyOrder : dirtyOrder[i] = p) /\ Cached(p)
                 THEN cache[p].data ELSE Absent]
             sp == [dirty |-> dirty, n |-> Len(dirtyOrder), size |-> dbSize]
  <1>1. dirtyOrder \in Seq(Pages) /\ cache \in [Pages -> Slots] /\ dbSize \in 0..MaxPage
    BY DEF PagerTypeOK
  <1>2. savepoints' = Append(savepoints, sp)
    BY DEF OpenSavepoint
  <1>3. \A p \in Pages : Dirty(p) <=> \E i \in DOMAIN dirtyOrder : dirtyOrder[i] = p
    BY <1>1 DEF ListsDirty, Front
  <1>4. \A p \in Pages : dirty[p] = IF Dirty(p) THEN cache[p].data ELSE Absent
    BY <1>3 DEF Dirty
  <1>5. \A p \in Pages : Dirty(p) => cache[p].data \in Contents
    BY <1>1 DEF Slots, Dirty, Cached
  <1>6. \A p \in Pages : dirty[p] # Absent <=> Dirty(p)
    BY <1>4, <1>5, PagerConstants
  <1>7. sp \in Snapshots
    <2>1. dirty \in [Pages -> {Absent} \cup Contents]
      BY <1>3, <1>5 DEF Dirty
    <2>2. Len(dirtyOrder) \in Nat
      BY <1>1
    <2> HIDE DEF dirty
    <2> QED
      BY <1>1, <2>1, <2>2 DEF Snapshots
  <1>8. sp.dirty = dirty /\ sp.n = Len(dirtyOrder) /\ sp.size = dbSize
    OBVIOUS
  <1> HIDE DEF sp, dirty
  <1> QED
    BY <1>2, <1>4, <1>6, <1>7, <1>8

\* It keeps the savepoints nested.
LEMMA OpenSavepointKeepsList ==
  ASSUME PagerTypeOK, ListInv, OpenSavepoint
  PROVE  ListInv'
  <1>1. UNCHANGED <<cache, dirtyOrder>>
    BY DEF OpenSavepoint
  <1>2. NoPageTwice' /\ ListsDirty'
    BY <1>1 DEF ListInv, NoPageTwice, ListsDirty, Dirty, Cached, Front
  <1>3. PICK sp \in Snapshots :
          /\ savepoints' = Append(savepoints, sp)
          /\ sp.n = Len(dirtyOrder)
          /\ \A p \in Pages : sp.dirty[p] # Absent <=> Dirty(p)
    BY SnapshotOfDirty DEF ListInv
  <1>4. savepoints \in Seq(Snapshots) /\ dirtyOrder \in Seq(Pages)
    BY DEF PagerTypeOK
  <1>5. \A p \in Pages : sp.dirty[p] # Absent <=> p \in Front(sp.n)
    BY <1>3 DEF ListInv, ListsDirty
  <1>6. SavepointsNest'
    <2> SUFFICES ASSUME NEW k \in DOMAIN savepoints'
                 PROVE  /\ savepoints'[k].n <= Len(dirtyOrder)
                        /\ \A p \in Pages : savepoints'[k].dirty[p] # Absent
                                              <=> p \in Front(savepoints'[k].n)
                        /\ \A j \in 1..k : savepoints'[j].n <= savepoints'[k].n
      BY <1>1 DEF SavepointsNest, Front
    <2>1. PICK m \in Nat : m = Len(savepoints)
      BY <1>4
    <2>2. k \in 1..(m + 1) /\ savepoints'[m + 1] = sp
          /\ \A i \in 1..m : savepoints'[i] = savepoints[i]
      BY <1>3, <1>4, <2>1
    <2>3. CASE k \in 1..m
      BY <1>4, <2>1, <2>2, <2>3 DEF ListInv, SavepointsNest
    <2>4. CASE k = m + 1
      <3>1. \A j \in 1..m : savepoints[j].n <= Len(dirtyOrder)
        BY <1>4, <2>1 DEF ListInv, SavepointsNest
      <3>2. sp.n <= sp.n /\ Len(dirtyOrder) \in Nat
        BY <1>3, <1>4
      <3> QED
        BY <1>3, <1>5, <2>2, <2>4, <3>1, <3>2
    <2> QED
      BY <2>2, <2>3, <2>4
  <1> QED
    BY <1>2, <1>6 DEF ListInv

\* savepoint_release drops inner snapshots only.
LEMMA SavepointReleaseKeepsList ==
  ASSUME PagerTypeOK, ListInv, NEW k \in DOMAIN savepoints, SavepointRelease(k)
  PROVE  ListInv'
  <1>1. UNCHANGED <<cache, dirtyOrder>>
    BY DEF SavepointRelease
  <1>2. NoPageTwice' /\ ListsDirty'
    BY <1>1 DEF ListInv, NoPageTwice, ListsDirty, Dirty, Cached, Front
  <1>3. k \in 1..Len(savepoints) /\ savepoints \in Seq(Snapshots)
    BY DEF PagerTypeOK
  <1>4. DOMAIN savepoints' = 1..(k - 1) /\ \A i \in 1..(k - 1) : savepoints'[i] = savepoints[i]
    BY <1>3, SubSeqProperties DEF SavepointRelease
  <1>5. SavepointsNest'
    <2> SUFFICES ASSUME NEW m \in 1..(k - 1)
                 PROVE  /\ savepoints'[m].n <= Len(dirtyOrder)
                        /\ \A p \in Pages : savepoints'[m].dirty[p] # Absent
                                              <=> p \in Front(savepoints'[m].n)
                        /\ \A j \in 1..m : savepoints'[j].n <= savepoints'[m].n
      BY <1>1, <1>4 DEF SavepointsNest, Front
    <2>1. m \in DOMAIN savepoints /\ 1..m \subseteq 1..(k - 1)
      BY <1>3
    <2> QED
      BY <1>4, <2>1 DEF ListInv, SavepointsNest
  <1> QED
    BY <1>2, <1>5 DEF ListInv

\* The list before a rollback to a savepoint: first the pages the snapshot
\* holds, then those dirtied after it.
LEMMA ListAtSavepoint ==
  ASSUME PagerTypeOK, ListInv, NEW k \in DOMAIN savepoints, NEW p \in Pages
  PROVE  LET sp == savepoints[k]
         IN  /\ Dirty(p) <=> sp.dirty[p] # Absent \/ p \in DirtiedAfter(sp)
             /\ sp.dirty[p] # Absent <=> p \in Front(sp.n)
             /\ sp.dirty[p] # Absent => p \notin DirtiedAfter(sp)
  <1> DEFINE sp == savepoints[k]
  <1>1. dirtyOrder \in Seq(Pages) /\ sp.n \in Nat /\ sp.n <= Len(dirtyOrder)
    BY SnapshotType DEF PagerTypeOK, ListInv, SavepointsNest
  <1>2. PICK n \in Nat, len \in Nat : n = sp.n /\ len = Len(dirtyOrder) /\ n <= len
    BY <1>1
  <1>3. Dirty(p) <=> p \in Front(len)
    BY <1>2 DEF ListInv, ListsDirty
  <1>4. 1..len = (1..n) \cup ((n + 1)..len)
    BY <1>2
  <1>5. Front(len) = Front(n) \cup DirtiedAfter(sp)
    BY <1>2, <1>4 DEF Front, DirtiedAfter
  <1>6. sp.dirty[p] # Absent <=> p \in Front(n)
    BY <1>2 DEF ListInv, SavepointsNest
  <1>7. ASSUME p \in Front(n), p \in DirtiedAfter(sp)
        PROVE  FALSE
    <2>1. PICK i \in 1..n, j \in (n + 1)..len : dirtyOrder[i] = dirtyOrder[j]
      BY <1>2, <1>7 DEF Front, DirtiedAfter
    <2>2. i \in DOMAIN dirtyOrder /\ j \in DOMAIN dirtyOrder /\ i # j
      BY <1>1, <1>2
    <2> QED
      BY <2>1, <2>2 DEF ListInv, NoPageTwice
  <1> QED
    BY <1>2, <1>3, <1>5, <1>6, <1>7

\* savepoint_rollback: a page the snapshot holds is as in the snapshot, and
\* dirty; of the others those stay in the cache that were clean.
LEMMA RolledBackSlot ==
  ASSUME PagerTypeOK, ListInv, NEW k \in DOMAIN savepoints, SavepointRollback(k), NEW p \in Pages
  PROVE  LET sp == savepoints[k]
         IN  IF sp.dirty[p] = Absent
               THEN \/ cache'[p] = Absent
                    \/ Cached(p) /\ ~Dirty(p) /\ cache'[p] = cache[p]
               ELSE cache'[p] # Absent /\ cache'[p].dirty /\ cache'[p].data = sp.dirty[p]
  <1> DEFINE sp == savepoints[k]
  <1>1. cache'[p] = CASE p \in DirtiedAfter(sp) \/ ~Cached(p) -> Absent
                      [] p \notin DirtiedAfter(sp) /\ Cached(p) /\ sp.dirty[p] # Absent
                           -> [data |-> sp.dirty[p], dirty |-> TRUE]
                      [] OTHER -> cache[p]
    BY DEF SavepointRollback
  <1>2. /\ Dirty(p) <=> sp.dirty[p] # Absent \/ p \in DirtiedAfter(sp)
        /\ sp.dirty[p] # Absent => p \notin DirtiedAfter(sp)
    BY ListAtSavepoint
  <1>3. CASE p \in DirtiedAfter(sp) \/ ~Cached(p)
    <2>1. cache'[p] = Absent
      BY <1>1, <1>3
    <2>2. sp.dirty[p] = Absent
      BY <1>2, <1>3 DEF Dirty
    <2> QED
      BY <2>1, <2>2
  <1>4. CASE p \notin DirtiedAfter(sp) /\ Cached(p) /\ sp.dirty[p] # Absent
    <2>1. cache'[p] = [data |-> sp.dirty[p], dirty |-> TRUE]
      BY <1>1, <1>4
    <2>2. sp.dirty[p] \in Contents
      BY <1>4, SnapshotType DEF PagerTypeOK
    <2>3. cache'[p] \in [data : Contents, dirty : BOOLEAN]
      BY <2>1, <2>2
    <2>4. cache'[p].dirty /\ cache'[p].data = sp.dirty[p]
      BY <2>1
    <2>5. cache'[p] # Absent
      BY <2>3, PagerConstants
    <2> QED
      BY <1>4, <2>4, <2>5
  <1>5. CASE p \notin DirtiedAfter(sp) /\ Cached(p) /\ sp.dirty[p] = Absent
    BY <1>1, <1>2, <1>5
  <1> QED
    BY <1>3, <1>4, <1>5

\* The pages it cuts off the list are those that leave the cache dirty, and
\* those that stay on the list get their snapshot back.
LEMMA SavepointRollbackKeepsList ==
  ASSUME PagerTypeOK, ListInv, NEW k \in DOMAIN savepoints, SavepointRollback(k)
  PROVE  ListInv' /\ \A p \in Pages : Dirty(p)' => Dirty(p)
  <1> DEFINE sp == savepoints[k]
  <1>1. savepoints \in Seq(Snapshots) /\ dirtyOrder \in Seq(Pages) /\ k \in 1..Len(savepoints)
    BY DEF PagerTypeOK
  <1>2. PICK n \in Nat, len \in Nat : n = sp.n /\ len = Len(dirtyOrder) /\ n <= len
    BY <1>1, SnapshotType DEF SavepointRollback
  <1>3. /\ Len(dirtyOrder') = n /\ DOMAIN dirtyOrder' = 1..n
        /\ \A i \in 1..n : dirtyOrder'[i] = dirtyOrder[i]
    BY <1>1, <1>2, SubSeqProperties DEF SavepointRollback
  <1>4. \A m \in 0..n : Front(m)' = Front(m)
    BY <1>3 DEF Front
  <1>5. ASSUME NEW p \in Pages
        PROVE  (Dirty(p)' <=> sp.dirty[p] # Absent) /\ (Dirty(p)' => Dirty(p))
    <2>1. Dirty(p)' <=> sp.dirty[p] # Absent
      BY RolledBackSlot DEF Dirty, Cached
    <2> QED
      BY <2>1, ListAtSavepoint
  <1>6. \A p \in Pages : sp.dirty[p] # Absent <=> p \in Front(n)
    BY <1>2, ListAtSavepoint
  <1>7. ListsDirty'
    BY <1>3, <1>4, <1>5, <1>6 DEF ListsDirty
  <1>8. NoPageTwice'
    <2>1. ASSUME NEW i \in 1..n, NEW j \in 1..n, dirtyOrder'[i] = dirtyOrder'[j]
          PROVE  i = j
      <3>1. i \in DOMAIN dirtyOrder /\ j \in DOMAIN dirtyOrder /\ dirtyOrder[i] = dirtyOrder[j]
        BY <1>1, <1>2, <1>3, <2>1
      <3> QED
        BY <3>1 DEF ListInv, NoPageTwice
    <2> QED
      BY <1>3, <2>1 DEF NoPageTwice
  <1>9. SavepointsNest'
    <2>1. DOMAIN savepoints' = 1..k /\ \A i \in 1..k : savepoints'[i] = savepoints[i]
      BY <1>1, SubSeqProperties DEF SavepointRollback
    <2> SUFFICES ASSUME NEW m \in 1..k
                 PROVE  /\ savepoints'[m].n <= n
                        /\ \A p \in Pages : savepoints'[m].dirty[p] # Absent
                             <=> p \in {dirtyOrder'[i] : i \in 1..savepoints'[m].n}
                        /\ \A j \in 1..m : savepoints'[j].n <= savepoints'[m].n
      BY <1>3, <2>1 DEF SavepointsNest, Front
    <2>2. m \in DOMAIN savepoints /\ savepoints[m].n \in Nat /\ 1..m \subseteq 1..k
      BY <1>1, SnapshotType
    <2>3. savepoints[m].n <= n
      BY <1>2 DEF ListInv, SavepointsNest
    <2>4. {dirtyOrder'[i] : i \in 1..savepoints[m].n} = Front(savepoints[m].n)
      BY <1>3, <2>2, <2>3 DEF Front
    <2> QED
      BY <2>1, <2>2, <2>3, <2>4 DEF ListInv, SavepointsNest
  <1> QED
    BY <1>5, <1>7, <1>8, <1>9 DEF ListInv

-----------------------------------------------------------------------------
\* What a miss does to the cache

\* Inserting page p with content x: p's slot is filled with it, clean, and of
\* the others at most a clean one goes.
LEMMA FilledSlots ==
  ASSUME PagerTypeOK, NEW p \in Pages, ~Cached(p), NEW x \in Contents,
         NEW c \in Filled(p, x), NEW q \in Pages
  PROVE  /\ q = p => c[q] = Clean(x)
         /\ q # p => c[q] = cache[q] \/ (c[q] = Absent /\ ~Dirty(q))
         /\ c[q] # Absent /\ c[q].dirty <=> Dirty(q)
  <1> DEFINE full == [cache EXCEPT ![p] = Clean(x)]
  <1>1. cache \in [Pages -> Slots] /\ full \in [Pages -> Slots]
    BY CleanInSlots DEF PagerTypeOK
  <1>2. full[p] = Clean(x) /\ (q # p => full[q] = cache[q])
    BY <1>1
  <1>3. c = full \/ \E r \in Victims(p) : c = [full EXCEPT ![r] = Absent]
    BY DEF Filled
  <1>4. /\ q = p => c[q] = Clean(x)
        /\ q # p => c[q] = cache[q] \/ (c[q] = Absent /\ ~Dirty(q))
    <2>1. CASE c = full
      BY <1>2, <2>1
    <2>2. ASSUME NEW r \in Victims(p), c = [full EXCEPT ![r] = Absent]
          PROVE  /\ q = p => c[q] = Clean(x)
                 /\ q # p => c[q] = cache[q] \/ (c[q] = Absent /\ ~Dirty(q))
      <3>1. r # p /\ ~Dirty(r)
        BY DEF Victims, Dirty
      <3>2. c[r] = Absent /\ (q # r => c[q] = full[q])
        BY <1>1, <2>2 DEF Victims
      <3> QED
        BY <1>2, <3>1, <3>2
    <2> QED
      BY <1>3, <2>1, <2>2
  <1>5. Clean(x) # Absent /\ ~Clean(x).dirty
    BY CleanInSlots DEF Clean
  <1> QED
    BY <1>4, <1>5 DEF Dirty, Cached

\* The page write_access makes up past the end of the database is clean until
\* the caller's change.
LEMMA MadeUpSlots ==
  ASSUME PagerTypeOK, NEW p \in Pages, NEW q \in Pages
  PROVE  /\ MadeUp(p) \in [Pages -> Slots] /\ MadeUp(p)[p] # Absent
         /\ MadeUp(p)[q] = cache[q] \/ (q = p /\ ~Cached(p) /\ MadeUp(p)[q] = Clean(Blank))
         /\ MadeUp(p)[q] # Absent /\ MadeUp(p)[q].dirty <=> Dirty(q)
  <1>1. cache \in [Pages -> Slots]
    BY DEF PagerTypeOK
  <1>2. Clean(Blank) \in Slots \ {Absent} /\ ~Clean(Blank).dirty
    BY BlankInContents, CleanInSlots DEF Clean
  <1>3. CASE Cached(p)
    BY <1>1, <1>3 DEF MadeUp, Dirty, Cached
  <1>4. CASE ~Cached(p)
    <2>1. MadeUp(p) = [cache EXCEPT ![p] = Clean(Blank)]
      BY <1>4 DEF MadeUp
    <2> QED
      BY <1>1, <1>2, <1>4, <2>1 DEF Dirty, Cached
  <1> QED
    BY <1>3, <1>4

-----------------------------------------------------------------------------
\* What the savepoints promise to bring back

\* The contents that the savepoints of s promise.
Saves(s) == [k \in DOMAIN s |-> SavedValues(s[k])]

\* Every savepoint promises contents of the store.
LEMMA SavedValuesType ==
  ASSUME PagerTypeOK, NEW sp \in Snapshots
  PROVE  SavedValues(sp) \in [Pages -> Vals]
  <1>1. ASSUME NEW p \in Pages
        PROVE  (IF sp.dirty[p] = Absent THEN committed[p] ELSE sp.dirty[p].val) \in Vals
    <2>1. committed[p] \in Vals
      BY DEF PagerTypeOK
    <2>2. sp.dirty[p] \in {Absent} \cup Contents
      BY DEF Snapshots
    <2> QED
      BY <2>1, <2>2 DEF Contents
  <1> QED
    BY <1>1 DEF SavedValues

\* There is one promise for each savepoint.
LEMMA SavesType ==
  ASSUME PagerTypeOK, NEW s \in Seq(Snapshots)
  PROVE  /\ Saves(s) \in Seq([Pages -> Vals]) /\ Len(Saves(s)) = Len(s)
         /\ \A k \in 1..Len(s) : Saves(s)[k] = SavedValues(s[k])
  <1>1. Saves(s) = [k \in 1..Len(s) |-> SavedValues(s[k])]
    BY DEF Saves
  <1>2. \A k \in 1..Len(s) : SavedValues(s[k]) \in [Pages -> Vals]
    BY ElementOfSeq, SavedValuesType
  <1> QED
    BY <1>1, <1>2

\* Opening a savepoint adds a promise.
LEMMA SavesAppend ==
  ASSUME PagerTypeOK, NEW s \in Seq(Snapshots), NEW sp \in Snapshots
  PROVE  Saves(Append(s, sp)) = Append(Saves(s), SavedValues(sp))
  <1> DEFINE t == Append(s, sp)
             a == Append(Saves(s), SavedValues(sp))
  <1>1. Saves(s) \in Seq([Pages -> Vals]) /\ Len(Saves(s)) = Len(s)
        /\ \A k \in 1..Len(s) : Saves(s)[k] = SavedValues(s[k])
    BY SavesType
  <1>2. PICK n \in Nat : n = Len(s)
    OBVIOUS
  <1>3. t \in Seq(Snapshots) /\ Len(t) = n + 1 /\ t[n + 1] = sp
        /\ \A k \in 1..n : t[k] = s[k]
    BY <1>2
  <1>4. SavedValues(sp) \in [Pages -> Vals]
    BY SavedValuesType
  <1>5. a \in Seq([Pages -> Vals]) /\ Len(a) = n + 1 /\ a[n + 1] = SavedValues(sp)
        /\ \A k \in 1..n : a[k] = SavedValues(s[k])
    BY <1>1, <1>2, <1>4
  <1> HIDE DEF t, a
  <1>6. Saves(t) \in Seq([Pages -> Vals]) /\ Len(Saves(t)) = n + 1
        /\ \A k \in 1..(n + 1) : Saves(t)[k] = SavedValues(t[k])
    BY <1>3, SavesType
  <1>7. \A k \in 1..(n + 1) : Saves(t)[k] = a[k]
    BY <1>2, <1>3, <1>5, <1>6
  <1>8. Saves(t) = a
    BY <1>5, <1>6, <1>7, SeqEqual
  <1> QED
    BY <1>8 DEF t, a

\* Cutting the savepoints cuts the promises.
LEMMA SavesCut ==
  ASSUME PagerTypeOK, NEW s \in Seq(Snapshots), NEW n \in 0..Len(s)
  PROVE  Saves(SubSeq(s, 1, n)) = SubSeq(Saves(s), 1, n)
  <1> DEFINE t == SubSeq(s, 1, n)
             a == SubSeq(Saves(s), 1, n)
  <1>1. Saves(s) \in Seq([Pages -> Vals]) /\ Len(Saves(s)) = Len(s)
        /\ \A k \in 1..Len(s) : Saves(s)[k] = SavedValues(s[k])
    BY SavesType
  <1>2. n \in Nat /\ n <= Len(s) /\ Len(s) \in Nat
    OBVIOUS
  <1>3. t \in Seq(Snapshots) /\ Len(t) = n /\ \A k \in 1..n : t[k] = s[k]
    BY <1>2, PrefixInSeq
  <1>4. a \in Seq([Pages -> Vals]) /\ Len(a) = n /\ \A k \in 1..n : a[k] = Saves(s)[k]
    BY <1>1, <1>2, PrefixInSeq
  <1> HIDE DEF t, a
  <1>5. Saves(t) \in Seq([Pages -> Vals]) /\ Len(Saves(t)) = n
        /\ \A k \in 1..n : Saves(t)[k] = SavedValues(t[k])
    BY <1>3, SavesType
  <1>6. ASSUME NEW k \in 1..n
        PROVE  Saves(t)[k] = a[k]
    <2>1. k \in 1..Len(s)
      BY <1>2
    <2> QED
      BY <1>1, <1>3, <1>4, <1>5, <2>1
  <1>7. Saves(t) = a
    BY <1>4, <1>5, <1>6, SeqEqual
  <1> QED
    BY <1>7 DEF t, a

\* Outside a transaction nothing is promised.
LEMMA NoSavesLeft ==
  ASSUME savepoints' = <<>>
  PROVE  [k \in DOMAIN savepoints |-> SavedValues(savepoints[k])]' = <<>>
  <1> DEFINE f == [k \in DOMAIN savepoints |-> SavedValues(savepoints[k])]
  <1>1. f' = [k \in {} |-> f'[k]]
    OBVIOUS
  <1> HIDE DEF f
  <1>2. f' = <<>>
    BY <1>1, NothingIsEmptySeq
  <1> QED
    BY <1>2 DEF f

\* While the committed contents stay, so does every promise.
LEMMA SavesFrame ==
  ASSUME UNCHANGED committed
  PROVE  [k \in DOMAIN savepoints |-> SavedValues(savepoints[k])]' = Saves(savepoints')
  BY DEF Saves, SavedValues
=============================================================================
