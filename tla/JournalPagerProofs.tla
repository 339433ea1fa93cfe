------------------------- MODULE JournalPagerProofs -------------------------
(***************************************************************************)
(* Proofs about the pager in rollback-journal mode, for every number of    *)
(* pages, every cache size and every set of page values (PagerConstants    *)
(* is all that is assumed).  First that every step keeps the types, then   *)
(* that dirty_order, the dirty flags, the savepoints and the journal stay  *)
(* in step (DirtyInv).                                                     *)
(*                                                                         *)
(* Then that this pager is a transactional page store, and that a journal  *)
(* left by a crash brings the committed pages back.  StoreInv relates the  *)
(* values in the cache, the file, the journal and the savepoints to what   *)
(* was committed; with DirtyInv it is inductive.  With power losses        *)
(* Headless comes in, that no page starts with a header.  HeaderInv, at    *)
(* the end, is about files that have one, and the size in it.              *)
(***************************************************************************)
EXTENDS JournalPager, PagerProofs

-----------------------------------------------------------------------------
\* Types

\* What the connection reads in a page is a page.
LEMMA ViewInContents ==
  ASSUME TypeOK, NEW p \in Pages
  PROVE  View(p) \in Contents
  BY PagerConstants DEF TypeOK, PagerTypeOK, View, Cached, Slots, Files

\* So does ensure_cached as a whole, hit or miss.
LEMMA LoadedType ==
  ASSUME TypeOK, NEW p \in Pages, NEW after \in Loaded(p)
  PROVE  after \in [Pages -> Slots] /\ after[p] # Absent
  <1>1. CASE Cached(p)
    BY <1>1 DEF Loaded, Cached, TypeOK, PagerTypeOK
  <1>2. CASE ~Cached(p) /\ FileHolds(p)
    <2>1. file.data[p] \in Contents
      BY DEF TypeOK, PagerTypeOK, Files
    <2>2. after \in Filled(p, file.data[p])
      BY <1>2 DEF Loaded
    <2> QED
      BY <2>1, <2>2, FilledType DEF TypeOK
  <1> QED
    BY <1>1, <1>2 DEF Loaded

\* write_access starts from a cache that holds the page.
LEMMA WritableType ==
  ASSUME TypeOK, NEW p \in Pages, NEW before \in Writable(p)
  PROVE  before \in [Pages -> Slots] /\ before[p] # Absent
  <1>1. CASE before \in Loaded(p)
    BY <1>1, LoadedType
  <1>2. CASE before = MadeUp(p)
    BY <1>2, BlankInContents, CleanInSlots DEF MadeUp, Cached, TypeOK, PagerTypeOK
  <1> QED
    BY <1>1, <1>2 DEF Writable

\* journal_page keeps the journal's type, wherever the file position is.
LEMMA JournalPageType ==
  ASSUME TypeOK, NEW p \in Pages, NEW c \in Contents, JournalPage(p, c)
  PROVE  journal' \in Journals
  <1> USE DEF TypeOK, Journals
  <1>1. CASE UNCHANGED journal
    BY <1>1
  <1>2. CASE journal' = [journal EXCEPT
               !.recs = Append(@, [pgno |-> p, data |-> c, intact |-> TRUE])]
    <2> DEFINE recs == Append(journal.recs, [pgno |-> p, data |-> c, intact |-> TRUE])
    <2>1. [pgno |-> p, data |-> c, intact |-> TRUE] \in JournalRecs
      BY DEF JournalRecs
    <2>2. journal.recs \in Seq(JournalRecs)
      OBVIOUS
    <2>3. recs \in Seq(JournalRecs)
      BY <2>1, <2>2
    <2>4. journal' = [journal EXCEPT !.recs = recs]
      BY <1>2
    <2> HIDE DEF recs
    <2> QED
      BY <2>3, <2>4
  <1>3. CASE journal.next \in DOMAIN journal.recs
             /\ journal' = [journal EXCEPT !.recs[journal.next].intact = FALSE, !.next = @ + 1]
    <2> DEFINE over == [journal.recs[journal.next] EXCEPT !.intact = FALSE]
               recs == [journal.recs EXCEPT ![journal.next] = over]
    <2>1. journal.recs \in Seq(JournalRecs) /\ journal.next \in Nat
      OBVIOUS
    <2>2. journal.next \in 1..Len(journal.recs)
      BY <1>3, <2>1
    <2>3. journal.recs[journal.next] \in JournalRecs
      BY <2>1, <2>2, ElementOfSeq
    <2>4. over \in JournalRecs
      BY <2>3 DEF JournalRecs
    <2>5. journal' = [journal EXCEPT !.recs = recs, !.next = @ + 1]
      BY <1>3
    <2> HIDE DEF over
    <2>6. recs \in Seq(JournalRecs)
      BY <2>1, <2>2, <2>4, ExceptSeq
    <2>7. journal.next + 1 \in Nat
      BY <2>1
    <2> HIDE DEF recs
    <2> QED
      BY <2>5, <2>6, <2>7
  <1>4. CASE journal' = [journal EXCEPT !.torn = TRUE]
    BY <1>4
  <1> QED
    BY <1>1, <1>2, <1>3, <1>4 DEF JournalPage

\* write_access keeps all types.
LEMMA WriteAccessType ==
  ASSUME TypeOK, NEW p \in Pages, NEW c \in Contents, WriteAccess(p, c)
  PROVE  TypeOK'
  <1>1. PICK before \in Writable(p) :
          /\ Modify(before, p, c)
          /\ IF before[p].dirty THEN UNCHANGED journal
                                ELSE JournalPage(p, before[p].data)
    BY DEF WriteAccess
  <1>2. before \in [Pages -> Slots] /\ before[p] # Absent
    BY WritableType
  <1>3. before[p].data \in Contents
    BY <1>2 DEF Slots
  <1>4. PagerTypeOK'
    BY <1>1, <1>2, ModifyType DEF TypeOK
  <1>5. journal' \in Journals
    BY <1>1, <1>3, JournalPageType DEF TypeOK
  <1> QED
    BY <1>4, <1>5 DEF TypeOK

\* A caller's write keeps all types.
LEMMA WriteValueType ==
  ASSUME TypeOK, NEW p \in Pages, NEW v \in Vals, WriteValue(p, v)
  PROVE  TypeOK'
  <1> DEFINE c == [View(p) EXCEPT !.val = v]
  <1>1. c \in Contents
    BY ViewInContents DEF Contents
  <1>2. WriteAccess(p, c)
    BY DEF WriteValue
  <1> HIDE DEF c
  <1> QED
    BY <1>1, <1>2, WriteAccessType

\* move_page keeps all types.
LEMMA MovePageType ==
  ASSUME TypeOK, NEW p \in Pages, NEW q \in Pages, MovePage(q, p)
  PROVE  TypeOK'
  <1>1. cache[q].data \in Contents
    BY DEF MovePage, TypeOK, PagerTypeOK, Cached, Slots
  <1> QED
    BY <1>1, WriteAccessType DEF MovePage

\* update_db_header keeps all types.
LEMMA UpdateDbHeaderType ==
  ASSUME TypeOK, UpdateDbHeader
  PROVE  TypeOK'
  <1> USE DEF TypeOK, PagerTypeOK
  <1>1. cache' \in [Pages -> Slots] /\ file' \in Files
    <2>1. CASE UNCHANGED <<cache, file>>
      BY <2>1
    <2>2. ASSUME NEW c \in Loaded(1),
                 IF Magic(c[1].data)
                   THEN /\ cache' = [c EXCEPT ![1].data = Patched(@)]
                        /\ file' = PWrite(file, 1, Patched(c[1].data))
                   ELSE cache' = c /\ UNCHANGED file
          PROVE  cache' \in [Pages -> Slots] /\ file' \in Files
      <3>1. 1 \in Pages
        BY PagerConstants DEF Pages
      <3>2. c \in [Pages -> Slots] /\ c[1] \in [data : Contents, dirty : BOOLEAN]
        BY <3>1, LoadedType DEF Slots
      <3>3. Patched(c[1].data) \in Contents
        BY <3>2 DEF Patched, Contents
      <3>4. [c[1] EXCEPT !.data = Patched(c[1].data)] \in Slots
        BY <3>2, <3>3 DEF Slots
      <3>5. CASE Magic(c[1].data)
        <4>1. cache' = [c EXCEPT ![1] = [c[1] EXCEPT !.data = Patched(c[1].data)]]
          BY <2>2, <3>5
        <4>2. cache' \in [Pages -> Slots]
          BY <3>2, <3>4, <4>1
        <4>3. file' \in Files
          BY <2>2, <3>1, <3>3, <3>5, PWriteType
        <4> QED
          BY <4>2, <4>3
      <3>6. CASE ~Magic(c[1].data)
        BY <2>2, <3>2, <3>6
      <3> QED
        BY <3>5, <3>6
    <2> QED
      BY <2>1, <2>2 DEF UpdateDbHeader
  <1>2. call' \in Calls
    BY DEF UpdateDbHeader, Calls
  <1> QED
    BY <1>1, <1>2 DEF UpdateDbHeader

\* Playing a record back keeps all types, even an overwritten record.
LEMMA ReplayRecordType ==
  ASSUME TypeOK, ReplayRecord
  PROVE  TypeOK'
  <1> USE DEF TypeOK, PagerTypeOK
  <1>1. PICK p \in Pages, c \in Contents :
          file' = PWrite(file, p, c) /\ cache' = Restored(p, c)
    BY DEF ReplayRecord
  <1>2. file' \in Files
    BY <1>1, PWriteType
  <1>3. cache' \in [Pages -> Slots]
    BY <1>1, CleanInSlots DEF Restored
  <1>4. call' \in Calls
    BY DEF ReplayRecord, Calls
  <1> QED
    BY <1>2, <1>3, <1>4 DEF ReplayRecord

\* Reopening after a crash keeps all types; the journal keeps a prefix.
LEMMA CrashType ==
  ASSUME TypeOK, Crash
  PROVE  TypeOK'
  <1>1. PICK f \in PowerLoss(file, synced) : ReopenedAs(f, OpenSize(f))
    BY DEF Crash
  <1>2. PagerTypeOK'
    BY <1>1, PowerLossType, OpenSizeType, ReopenedType DEF TypeOK, PagerTypeOK
  <1>3. journal' \in Journals
    <2>1. CASE UNCHANGED journal
      BY <2>1 DEF TypeOK
    <2>2. ASSUME NEW n \in journal.secured..Len(journal.recs),
                 journal' = [journal EXCEPT !.at = "left", !.next = 0, !.torn = FALSE,
                                            !.recs = SubSeq(@, 1, n), !.secured = n]
          PROVE  journal' \in Journals
      <3>1. journal.recs \in Seq(JournalRecs) /\ journal.secured \in Nat
        BY DEF TypeOK, Journals
      <3>2. n \in Nat /\ n <= Len(journal.recs)
        BY <3>1
      <3>3. SubSeq(journal.recs, 1, n) \in Seq(JournalRecs)
        BY <3>1, <3>2, PrefixInSeq
      <3> DEFINE kept == SubSeq(journal.recs, 1, n)
      <3>4. journal' = [journal EXCEPT !.at = "left", !.next = 0, !.torn = FALSE,
                                       !.recs = kept, !.secured = n]
        BY <2>2
      <3> HIDE DEF kept
      <3> QED
        BY <3>2, <3>3, <3>4 DEF TypeOK, Journals, kept
    <2> QED
      BY <2>1, <2>2 DEF Crash
  <1> QED
    BY <1>2, <1>3 DEF TypeOK

\* Sealing the journal keeps its type.
LEMMA SealedType ==
  ASSUME journal \in Journals
  PROVE  Sealed \in Journals
  <1>1. PICK at \in {"absent", "held", "left"}, recs \in Seq(JournalRecs), start \in 0..MaxPage,
             secured \in Nat, next \in Nat, torn \in BOOLEAN :
          journal = [at |-> at, recs |-> recs, start |-> start, secured |-> secured,
                     next |-> next, torn |-> torn]
    BY DEF Journals
  <1> DEFINE n == Len(journal.recs)
  <1>2. n \in Nat
    BY <1>1
  <1>3. Sealed = [journal EXCEPT !.secured = n, !.next = 1]
    BY DEF Sealed
  <1> HIDE DEF n
  <1>4. Sealed = [at |-> at, recs |-> recs, start |-> start, secured |-> n,
                  next |-> 1, torn |-> torn]
    BY <1>1, <1>3
  <1> QED
    BY <1>2, <1>4 DEF Journals

\* A pager that was just opened has its types.
LEMMA TypeInit == Init => TypeOK
  <1> SUFFICES ASSUME Init PROVE TypeOK
    OBVIOUS
  <1>1. PagerTypeOK
    BY OpenedType DEF Init
  <1>2. journal \in Journals
    BY PagerConstants DEF Init, NoJournal, Journals
  <1> QED
    BY <1>1, <1>2 DEF TypeOK

\* Every step, the failing ones and a crash included, keeps all types.
LEMMA TypeStep == TypeOK /\ [FaultNext]_vars => TypeOK'
  <1> SUFFICES ASSUME TypeOK, [FaultNext]_vars PROVE TypeOK'
    OBVIOUS
  <1> USE DEF TypeOK, PagerTypeOK
  <1>1. CASE Read
    <2>1. PICK p \in Pages : Acquire(p)
      BY <1>1 DEF Read
    <2>2. cache' \in [Pages -> Slots]
      BY <2>1, LoadedType DEF Acquire
    <2> QED
      BY <2>1, <2>2 DEF Acquire
  <1>2. CASE BeginWrite
    <2>1. journal' = [at |-> "held", recs |-> <<>>, start |-> dbSize, secured |-> 0,
                      next |-> 0, torn |-> FALSE]
      BY <1>2 DEF BeginWrite, NoJournal
    <2>2. journal' \in Journals
      BY <2>1 DEF Journals
    <2> QED
      BY <1>2, <2>2 DEF BeginWrite, States
  <1>3. CASE Write
    BY <1>3, WriteValueType, MovePageType DEF Write
  <1>4. CASE Nest
    BY <1>4, OpenSavepointType, SavepointRollbackType, SavepointReleaseType DEF Nest
  <1>5. CASE SealJournal
    <2>1. journal' \in Journals
      BY <1>5, SealedType DEF SealJournal
    <2>2. call' \in Calls
      BY <1>5 DEF SealJournal, Calls
    <2> QED
      BY <1>5, <2>1, <2>2 DEF SealJournal
  <1>6. CASE WriteDirtyPage
    <2>1. dirtyOrder[call.at] \in Pages
      BY <1>6, ElementOfSeq DEF WriteDirtyPage
    <2>2. file' \in Files
      BY <1>6, <2>1, PWriteType DEF WriteDirtyPage, Dirty, Cached, Slots
    <2>3. call' \in Calls
      BY <1>6 DEF WriteDirtyPage, Calls
    <2> QED
      BY <1>6, <2>2, <2>3 DEF WriteDirtyPage
  <1>7. CASE UpdateDbHeader
    BY <1>7, UpdateDbHeaderType
  <1>8. CASE SyncFile
    BY <1>8 DEF SyncFile, States, Calls
  <1>9. CASE CommitPhaseTwo
    <2>1. cache' \in [Pages -> Slots]
      BY <1>9, CleanInSlots DEF CommitPhaseTwo, Cached, Slots
    <2>2. committed' \in [Pages -> Vals]
      BY <1>9, ViewInContents DEF CommitPhaseTwo, Contents
    <2>3. journal' \in Journals
      BY <1>9, PagerConstants DEF CommitPhaseTwo, NoJournal, Journals
    <2> QED
      BY <1>9, <2>1, <2>2, <2>3 DEF CommitPhaseTwo, States
  <1>10. CASE StartRollback
    BY <1>10 DEF StartRollback, Journals, Calls
  <1>11. CASE ReplayRecord
    BY <1>11, ReplayRecordType
  <1>12. CASE FinishRollback
    <2>1. dbSize' \in 0..MaxPage
      BY <1>12, PagerConstants DEF FinishRollback, SavedDbSize, Journals
    <2>2. journal' \in Journals
      BY <1>12, PagerConstants DEF FinishRollback, NoJournal, Journals
    <2> QED
      BY <1>12, <2>1, <2>2 DEF FinishRollback, States, Calls
  <1>13. CASE CallFails
    <2>1. CASE CommitPhaseOneFails \/ RollbackFails
      BY <2>1 DEF CommitPhaseOneFails, RollbackFails, Calls
    <2>2. ASSUME NEW p \in Pages, WriteAccessFails(p)
          PROVE  TypeOK'
      BY <2>2, WritableType DEF WriteAccessFails
    <2> QED
      BY <1>13, <2>1, <2>2 DEF CallFails
  <1>14. CASE Crash
    BY <1>14, CrashType
  <1>15. CASE UNCHANGED vars
    BY <1>15 DEF vars, pagerVars
  <1> QED
    BY <1>1, <1>2, <1>3, <1>4, <1>5, <1>6, <1>7, <1>8, <1>9, <1>10, <1>11, <1>12,
       <1>13, <1>14, <1>15 DEF FaultNext, Next, CommitStep, RollbackStep

\* The pager's state keeps its types through every call, I/O error, crash
\* and reopening (Pager, liter-pager/src/pager.rs).
THEOREM TypesHold == FaultSpec => []TypeOK
  BY TypeInit, TypeStep, PTL DEF FaultSpec

-----------------------------------------------------------------------------
\* Dirty pages: what relates the list, the flags, the savepoints and the journal

\* Page p has a usable record in the journal, at position from or later.
Journaled(p, from) ==
  \E i \in DOMAIN journal.recs :
    i >= from /\ journal.recs[i].pgno = p /\ journal.recs[i].intact

\* The record the rollback in progress reads next; before it starts, the first.
Unread == IF call.op = "replay" THEN call.at ELSE 1

\* A rollback has begun, and has not come to its end.
Undoing == call.op \in {"replay", "undone"}

\* A transaction has a journal, and nothing but a transaction keeps a list or
\* savepoints.
TxnHasJournal ==
  /\ call.op \in {"none", "pages", "sync", "replay", "failed", "undone"}
  /\ call.op # "none" => InTxn
  /\ InTxn <=> Held
  /\ ~InTxn => dirtyOrder = <<>> /\ savepoints = <<>>

\* No page is listed twice, and outside of a rollback, which cleans the pages
\* one after the other, the listed pages are the dirty ones.
ListIsExact == NoPageTwice /\ (~Undoing => ListsDirty)

\* Every dirty page has a record that a rollback has still to read, and no
\* record has been written over.
DirtyAreJournaled ==
  InTxn =>
    /\ \A i \in DOMAIN journal.recs : journal.recs[i].intact
    /\ state = "Writer" /\ Idle => journal.next = 0
    /\ \A p \in Pages : Dirty(p) => Journaled(p, Unread)

\* The inductive invariant, of a pager whose calls may fail and whose process
\* may stop: DirtyOrderIsDirtySet and OriginalsAppended follow from it and are
\* not inductive without the other parts.
DirtyInv ==
  TypeOK /\ TxnHasJournal /\ ListIsExact /\ SavepointsNest /\ DirtyAreJournaled

\* The journal knows the size to go back to.  Not so after a crash: the file
\* may be longer than the database was.
SizeInv ==
  /\ InTxn => journal.start = committedSize
  /\ ~InTxn => dbSize = committedSize

-----------------------------------------------------------------------------
\* What loading a page and leaving things alone preserve

\* Bringing a page into the cache, and evicting one for it, changes no dirty
\* flag: a new slot is clean and a victim was.
LEMMA LoadingKeepsDirty ==
  ASSUME TypeOK, NEW p \in Pages, NEW c \in Loaded(p), NEW q \in Pages
  PROVE  c[q] # Absent /\ c[q].dirty <=> Dirty(q)
  <1>1. CASE Cached(p)
    BY <1>1 DEF Loaded, Dirty, Cached
  <1>2. CASE ~Cached(p) /\ FileHolds(p)
    <2>1. c \in Filled(p, file.data[p]) /\ file.data[p] \in Contents
      BY <1>2 DEF Loaded, TypeOK, PagerTypeOK, Files
    <2> QED
      BY <1>2, <2>1, FilledSlots DEF TypeOK
  <1> QED
    BY <1>1, <1>2 DEF Loaded

\* The same for what write_access does before the caller's change.
LEMMA WritableKeepsDirty ==
  ASSUME TypeOK, NEW p \in Pages, NEW c \in Writable(p), NEW q \in Pages
  PROVE  c[q] # Absent /\ c[q].dirty <=> Dirty(q)
  BY LoadingKeepsDirty, MadeUpSlots DEF Writable, TypeOK

\* Outside of a rollback the list is exact.
LEMMA DirtyInvLists ==
  ASSUME DirtyInv, ~Undoing
  PROVE  ListInv
  BY DEF DirtyInv, ListIsExact, ListInv

\* A step that leaves the list, the savepoints and the dirty flags alone
\* keeps what relates them.
LEMMA ListFrame ==
  ASSUME DirtyInv,
         UNCHANGED <<dirtyOrder, savepoints>>,
         Undoing => Undoing',
         ~Undoing' => \A p \in Pages : Dirty(p)' <=> Dirty(p)
  PROVE  ListIsExact' /\ SavepointsNest'
  BY DEF DirtyInv, ListIsExact, NoPageTwice, ListsDirty, SavepointsNest, Front

\* A step that keeps the records and dirties no page keeps every dirty page
\* journaled.
LEMMA JournalFrame ==
  ASSUME DirtyInv, InTxn,
         journal'.recs = journal.recs, Unread' = Unread,
         state' = "Writer" /\ Idle' => journal'.next = 0,
         \A p \in Pages : Dirty(p)' => Dirty(p)
  PROVE  DirtyAreJournaled'
  BY DEF DirtyInv, DirtyAreJournaled, Journaled

\* No page is dirty outside a transaction.
LEMMA NothingDirtyOutsideTxn ==
  ASSUME DirtyInv, ~InTxn, NEW p \in Pages
  PROVE  ~Dirty(p)
  BY DEF DirtyInv, TxnHasJournal, ListIsExact, ListsDirty, Undoing, Front

-----------------------------------------------------------------------------
\* One lemma per operation

\* The first write of a page: the journal grows by the page's content.
LEMMA FirstWriteJournals ==
  ASSUME DirtyInv, Idle, state = "Writer", NEW p \in Pages, NEW c \in Contents,
         \A q \in Pages : Dirty(q)' <=> Dirty(q) \/ q = p,
         JournalPage(p, c), UNCHANGED <<state, call>>
  PROVE  DirtyAreJournaled' /\ UNCHANGED Held
  <1> DEFINE rec == [pgno |-> p, data |-> c, intact |-> TRUE]
  <1>1. journal \in Journals /\ journal.recs \in Seq(JournalRecs)
    BY DEF DirtyInv, TypeOK, Journals
  <1>2. InTxn /\ Held /\ journal.next = 0 /\ call.op = "none"
    BY DEF DirtyInv, TxnHasJournal, DirtyAreJournaled, InTxn, Idle
  <1>3. journal' = [journal EXCEPT !.recs = Append(@, rec)]
    BY <1>1, <1>2 DEF JournalPage
  <1>4. journal'.recs = Append(journal.recs, rec) /\ journal'.at = journal.at
        /\ journal'.next = journal.next
    BY <1>1, <1>3 DEF Journals
  <1>5. DOMAIN journal.recs = 1..Len(journal.recs)
        /\ DOMAIN journal'.recs = 1..(Len(journal.recs) + 1)
        /\ journal'.recs[Len(journal.recs) + 1] = rec
        /\ \A i \in 1..Len(journal.recs) : journal'.recs[i] = journal.recs[i]
    BY <1>1, <1>4
  <1>6. Len(journal.recs) \in Nat
    BY <1>1
  <1>7. \A i \in DOMAIN journal'.recs : journal'.recs[i].intact
    BY <1>2, <1>5, <1>6 DEF DirtyInv, DirtyAreJournaled
  <1>8. Unread = 1 /\ Unread' = 1
    BY <1>2 DEF Unread
  <1>9. \A q \in Pages : Journaled(q, 1) => Journaled(q, 1)'
    BY <1>5, <1>6 DEF Journaled
  <1>10. Journaled(p, 1)'
    BY <1>5, <1>6 DEF Journaled
  <1>11. \A q \in Pages : Dirty(q)' => Journaled(q, 1)'
    BY <1>2, <1>8, <1>9, <1>10 DEF DirtyInv, DirtyAreJournaled
  <1> QED
    BY <1>2, <1>4, <1>7, <1>8, <1>11 DEF DirtyAreJournaled, Held

\* write_access, for a page that is dirty already and for one that is not.
LEMMA WriteAccessKeepsDirtyInv ==
  ASSUME DirtyInv, Idle, state = "Writer", NEW p \in Pages, NEW c \in Contents,
         WriteAccess(p, c)
  PROVE  DirtyInv'
  <1>1. TypeOK /\ TypeOK' /\ PagerTypeOK /\ ~Undoing
    BY WriteAccessType DEF DirtyInv, TypeOK, Idle, Undoing
  <1>2. PICK before \in Writable(p) :
          /\ Modify(before, p, c)
          /\ IF before[p].dirty THEN UNCHANGED journal
                                ELSE JournalPage(p, before[p].data)
    BY DEF WriteAccess
  <1>3. before \in [Pages -> Slots] /\ before[p] # Absent
    BY <1>1, WritableType
  <1>4. \A q \in Pages : before[q] # Absent /\ before[q].dirty <=> Dirty(q)
    BY <1>1, WritableKeepsDirty
  <1>5. \A q \in Pages : Dirty(q)' <=> Dirty(q) \/ q = p
    BY <1>2, <1>3, <1>4, ModifyDirties
  <1>6. ListInv'
    BY <1>1, <1>2, <1>3, <1>4, DirtyInvLists, ModifyKeepsList
  <1>7. UNCHANGED <<state, savepoints, call, committedSize>> /\ InTxn
    BY <1>2 DEF Modify, InTxn
  <1>8. DirtyAreJournaled' /\ UNCHANGED Held
    <2>1. CASE before[p].dirty
      <3>1. Dirty(p) /\ UNCHANGED journal
        BY <1>2, <1>3, <1>4, <2>1
      <3>2. \A q \in Pages : Dirty(q)' => Dirty(q)
        BY <1>5, <3>1
      <3> QED
        BY <1>7, <3>1, <3>2, JournalFrame
           DEF Unread, Idle, DirtyInv, DirtyAreJournaled, Held
    <2>2. CASE ~before[p].dirty
      <3>1. before[p].data \in Contents
        BY <1>3 DEF Slots
      <3> QED
        BY <1>2, <1>5, <1>7, <2>2, <3>1, FirstWriteJournals
    <2> QED
      BY <2>1, <2>2
  <1>9. TxnHasJournal'
    BY <1>7, <1>8 DEF DirtyInv, TxnHasJournal, InTxn
  <1> QED
    BY <1>1, <1>6, <1>8, <1>9 DEF DirtyInv, ListInv, ListIsExact

\* Every write a caller makes.
LEMMA WriteKeepsDirtyInv ==
  ASSUME DirtyInv, Write
  PROVE  DirtyInv'
  <1>1. TypeOK
    BY DEF DirtyInv
  <1>2. PICK p \in Pages :
          (\E v \in Vals : WriteValue(p, v)) \/ (\E q \in Pages : MovePage(q, p))
    BY DEF Write
  <1>3. PICK c \in Contents : WriteAccess(p, c)
    <2>1. CASE \E v \in Vals : WriteValue(p, v)
      BY <1>1, <2>1, ViewInContents DEF WriteValue, Contents
    <2>2. CASE \E q \in Pages : MovePage(q, p)
      BY <2>2, <1>1 DEF MovePage, TypeOK, PagerTypeOK, Cached, Slots
    <2> QED
      BY <1>2, <2>1, <2>2
  <1> QED
    BY <1>3, WriteAccessKeepsDirtyInv DEF Write

\* savepoint.
LEMMA OpenSavepointKeepsDirtyInv ==
  ASSUME DirtyInv, state = "Writer", OpenSavepoint, UNCHANGED journal
  PROVE  DirtyInv'
  <1>1. TypeOK /\ TypeOK' /\ PagerTypeOK /\ ~Undoing
    BY OpenSavepointType DEF DirtyInv, TypeOK, OpenSavepoint, Idle, Undoing
  <1>2. UNCHANGED <<cache, dirtyOrder, dbSize, state, call, committedSize, journal>> /\ InTxn
    BY DEF OpenSavepoint, InTxn
  <1>3. TxnHasJournal' /\ DirtyAreJournaled'
    BY <1>2 DEF DirtyInv, TxnHasJournal, DirtyAreJournaled, InTxn, Held, Idle,
                Dirty, Cached, Journaled, Unread
  <1>4. ListInv'
    BY <1>1, DirtyInvLists, OpenSavepointKeepsList
  <1> QED
    BY <1>1, <1>3, <1>4 DEF DirtyInv, ListInv, ListIsExact

\* savepoint_release.
LEMMA SavepointReleaseKeepsDirtyInv ==
  ASSUME DirtyInv, state = "Writer", NEW k \in DOMAIN savepoints, SavepointRelease(k),
         UNCHANGED journal
  PROVE  DirtyInv'
  <1>1. TypeOK /\ TypeOK' /\ PagerTypeOK /\ ~Undoing
    BY SavepointReleaseType DEF DirtyInv, TypeOK, SavepointRelease, Idle, Undoing
  <1>2. UNCHANGED <<cache, dirtyOrder, dbSize, state, call, committedSize, journal>> /\ InTxn
    BY DEF SavepointRelease, InTxn
  <1>3. TxnHasJournal' /\ DirtyAreJournaled'
    BY <1>2 DEF DirtyInv, TxnHasJournal, DirtyAreJournaled, InTxn, Held, Idle,
                Dirty, Cached, Journaled, Unread
  <1>4. ListInv'
    BY <1>1, DirtyInvLists, SavepointReleaseKeepsList
  <1> QED
    BY <1>1, <1>3, <1>4 DEF DirtyInv, ListInv, ListIsExact

\* savepoint_rollback: the journal keeps the records of pages that are no
\* longer dirty.
LEMMA SavepointRollbackKeepsDirtyInv ==
  ASSUME DirtyInv, state = "Writer", NEW k \in DOMAIN savepoints, SavepointRollback(k),
         UNCHANGED journal
  PROVE  DirtyInv'
  <1>1. TypeOK /\ TypeOK' /\ PagerTypeOK /\ ~Undoing
    BY SavepointRollbackType DEF DirtyInv, TypeOK, SavepointRollback, Idle, Undoing
  <1>2. Idle /\ Idle' /\ InTxn /\ state' = "Writer"
        /\ UNCHANGED <<call, committedSize, journal>>
    BY DEF SavepointRollback, InTxn, Idle
  <1>3. ListInv' /\ \A p \in Pages : Dirty(p)' => Dirty(p)
    BY <1>1, DirtyInvLists, SavepointRollbackKeepsList
  <1>4. TxnHasJournal'
    BY <1>2 DEF DirtyInv, TxnHasJournal, InTxn, Held, Idle
  <1>5. DirtyAreJournaled'
    <2>1. journal'.next = 0
      BY <1>2 DEF DirtyInv, DirtyAreJournaled
    <2> QED
      BY <1>2, <1>3, <2>1, JournalFrame DEF Unread
  <1> QED
    BY <1>1, <1>3, <1>4, <1>5 DEF DirtyInv, ListInv, ListIsExact

\* The invariant holds of a pager that was just opened.
LEMMA DirtyInvInit == Init => DirtyInv
  <1> SUFFICES ASSUME Init PROVE DirtyInv
    OBVIOUS
  <1>1. TypeOK
    BY TypeInit
  <1>2. PICK f \in InitFiles :
          Opened(f) /\ committed = Values(f) /\ committedSize = OpenSize(f)
    BY DEF Init
  <1>3. /\ ~InTxn /\ ~Held /\ call.op = "none"
        /\ dirtyOrder = <<>> /\ savepoints = <<>>
        /\ \A p \in Pages : ~Dirty(p)
    BY <1>2 DEF Init, NoJournal, Held, Opened, InTxn, Dirty, Cached
  <1>4. TxnHasJournal
    BY <1>3 DEF TxnHasJournal
  <1>5. ListIsExact
    BY <1>3 DEF ListIsExact, NoPageTwice, ListsDirty, Front
  <1>6. SavepointsNest
    BY <1>3 DEF SavepointsNest
  <1>7. DirtyAreJournaled
    BY <1>3 DEF DirtyAreJournaled
  <1> QED
    BY <1>1, <1>4, <1>5, <1>6, <1>7 DEF DirtyInv

\* It holds of any pager that has left its transaction, list and savepoints
\* empty and nothing dirty.
LEMMA OutsideTxnKeepsDirtyInv ==
  ASSUME TypeOK', ~InTxn', ~Held', call'.op = "none",
         dirtyOrder' = <<>>, savepoints' = <<>>, \A p \in Pages : ~Dirty(p)'
  PROVE  DirtyInv'
  <1>1. TxnHasJournal'
    BY DEF TxnHasJournal
  <1>2. ListIsExact'
    BY DEF ListIsExact, NoPageTwice, ListsDirty, Front
  <1>3. SavepointsNest'
    BY DEF SavepointsNest
  <1>4. DirtyAreJournaled'
    BY DEF DirtyAreJournaled
  <1> QED
    BY <1>1, <1>2, <1>3, <1>4 DEF DirtyInv

\* It survives the steps of commit_phase_one and their failures: the file
\* position may move (SealJournal), since no caller writes before the commit
\* is done.
LEMMA TxnStepKeepsDirtyInv ==
  ASSUME DirtyInv, TypeOK', InTxn, state' \in {"Writer", "WriterLocked"},
         call'.op \in {"none", "pages", "sync", "failed"}, ~Undoing,
         journal'.at = "held", journal'.recs = journal.recs,
         state' = "Writer" => call'.op # "none",
         UNCHANGED <<dirtyOrder, savepoints>>,
         \A p \in Pages : Dirty(p)' <=> Dirty(p)
  PROVE  DirtyInv'
  <1>1. TxnHasJournal'
    BY DEF DirtyInv, TxnHasJournal, InTxn, Held
  <1>2. ListIsExact' /\ SavepointsNest'
    BY ListFrame
  <1>3. DirtyAreJournaled'
    BY JournalFrame DEF Unread, Idle, Undoing
  <1> QED
    BY <1>1, <1>2, <1>3 DEF DirtyInv

\* Pages may come into the cache and leave it at any time: no dirty flag
\* changes.
LEMMA CachingKeepsDirtyInv ==
  ASSUME DirtyInv, TypeOK', \A p \in Pages : Dirty(p)' <=> Dirty(p),
         UNCHANGED <<dirtyOrder, state, savepoints, call, journal>>
  PROVE  DirtyInv'
  <1>1. TxnHasJournal'
    BY DEF DirtyInv, TxnHasJournal, InTxn, Held
  <1>2. ListIsExact' /\ SavepointsNest'
    BY ListFrame DEF Undoing
  <1>3. DirtyAreJournaled'
    BY DEF DirtyInv, DirtyAreJournaled, Journaled, Unread, Idle, InTxn
  <1> QED
    BY <1>1, <1>2, <1>3 DEF DirtyInv

\* acquire.
LEMMA ReadKeepsDirtyInv ==
  ASSUME DirtyInv, TypeOK', Read
  PROVE  DirtyInv'
  <1>1. PICK p \in Pages : Acquire(p)
    BY DEF Read
  <1>2. \A q \in Pages : Dirty(q)' <=> Dirty(q)
    BY <1>1, LoadingKeepsDirty DEF Acquire, DirtyInv, Dirty, Cached
  <1> QED
    BY <1>1, <1>2, CachingKeepsDirtyInv DEF Acquire

\* A write_access that fails leaves the page in the cache, as it was.
LEMMA WriteAccessFailsKeepsDirtyInv ==
  ASSUME DirtyInv, TypeOK', NEW p \in Pages, WriteAccessFails(p)
  PROVE  DirtyInv'
  <1>1. \A q \in Pages : Dirty(q)' <=> Dirty(q)
    BY WritableKeepsDirty DEF WriteAccessFails, DirtyInv, Dirty, Cached
  <1> QED
    BY <1>1, CachingKeepsDirtyInv DEF WriteAccessFails

\* begin_write: a new journal, empty.
LEMMA BeginWriteKeepsDirtyInv ==
  ASSUME DirtyInv, TypeOK', BeginWrite
  PROVE  DirtyInv'
  <1>1. ~InTxn /\ call.op = "none" /\ dirtyOrder = <<>> /\ savepoints = <<>>
    BY DEF BeginWrite, Idle, DirtyInv, TxnHasJournal
  <1>2. /\ state' = "Writer" /\ journal'.at = "held" /\ journal'.start = dbSize
        /\ journal'.recs = <<>> /\ journal'.next = 0
        /\ UNCHANGED <<cache, dirtyOrder, dbSize, savepoints, call, committedSize>>
    BY DEF BeginWrite, NoJournal
  <1>3. \A p \in Pages : ~Dirty(p)'
    BY <1>1, <1>2, NothingDirtyOutsideTxn DEF Dirty, Cached
  <1>4. TxnHasJournal'
    BY <1>1, <1>2 DEF TxnHasJournal, InTxn, Held
  <1>5. ListIsExact'
    BY <1>1, <1>2, <1>3 DEF ListIsExact, NoPageTwice, ListsDirty, Front
  <1>6. SavepointsNest'
    BY <1>1, <1>2 DEF SavepointsNest
  <1>7. DirtyAreJournaled'
    BY <1>2, <1>3 DEF DirtyAreJournaled
  <1> QED
    BY <1>4, <1>5, <1>6, <1>7 DEF DirtyInv

\* Each step of commit_phase_one; update_db_header changes page 1 and leaves
\* its dirty flag as it is.
LEMMA CommitPhaseOneKeepsDirtyInv ==
  ASSUME DirtyInv, TypeOK',
         SealJournal \/ WriteDirtyPage \/ UpdateDbHeader \/ SyncFile \/ CommitPhaseOneFails
  PROVE  DirtyInv'
  <1>1. journal \in Journals /\ TypeOK
    BY DEF DirtyInv, TypeOK
  <1>2. CASE SealJournal
    <2>1. ~Undoing /\ InTxn /\ Held
      BY <1>2 DEF SealJournal, Idle, DirtyInv, TxnHasJournal, Undoing
    <2>2. journal'.at = "held" /\ journal'.recs = journal.recs
      BY <1>1, <1>2, <2>1 DEF SealJournal, Sealed, Held, Journals
    <2>3. call'.op = "pages" /\ UNCHANGED <<cache, state, dirtyOrder, savepoints, committedSize>>
      BY <1>2 DEF SealJournal
    <2>4. \A p \in Pages : Dirty(p)' <=> Dirty(p)
      BY <2>3 DEF Dirty, Cached
    <2> QED
      BY <2>1, <2>2, <2>3, <2>4, TxnStepKeepsDirtyInv DEF InTxn
  <1>3. CASE WriteDirtyPage
    <2>1. ~Undoing /\ InTxn /\ Held
      BY <1>3 DEF WriteDirtyPage, DirtyInv, TxnHasJournal, Undoing
    <2>2. call'.op = "pages"
          /\ UNCHANGED <<cache, state, dirtyOrder, savepoints, committedSize, journal>>
      BY <1>1, <1>3 DEF WriteDirtyPage, TypeOK, PagerTypeOK, Calls
    <2>3. \A p \in Pages : Dirty(p)' <=> Dirty(p)
      BY <2>2 DEF Dirty, Cached
    <2> QED
      BY <2>1, <2>2, <2>3, TxnStepKeepsDirtyInv DEF InTxn, Held
  <1>4. CASE UpdateDbHeader
    <2>1. ~Undoing /\ InTxn /\ Held
      BY <1>4 DEF UpdateDbHeader, DirtyInv, TxnHasJournal, Undoing
    <2>2. call'.op = "sync"
          /\ UNCHANGED <<state, dirtyOrder, savepoints, committedSize, journal>>
      BY <1>1, <1>4 DEF UpdateDbHeader, TypeOK, PagerTypeOK, Calls
    <2>3. ASSUME NEW p \in Pages
          PROVE  Dirty(p)' <=> Dirty(p)
      <3>1. CASE UNCHANGED cache
        BY <3>1 DEF Dirty, Cached
      <3>2. ASSUME NEW c \in Loaded(1),
                   \/ cache' = c
                   \/ cache' = [c EXCEPT ![1].data = Patched(@)]
            PROVE  Dirty(p)' <=> Dirty(p)
        <4>1. 1 \in Pages
          BY PagerConstants DEF Pages
        <4>2. c \in [Pages -> Slots] /\ c[1] \in [data : Contents, dirty : BOOLEAN]
          BY <1>1, <4>1, LoadedType DEF Slots
        <4>3. c[p] # Absent /\ c[p].dirty <=> Dirty(p)
          BY <1>1, <4>1, LoadingKeepsDirty
        <4>4. CASE cache' = c
          BY <4>3, <4>4 DEF Dirty, Cached
        <4>5. CASE cache' = [c EXCEPT ![1].data = Patched(@)] /\ p # 1
          BY <4>2, <4>3, <4>5 DEF Dirty, Cached
        <4>6. CASE cache' = [c EXCEPT ![1].data = Patched(@)] /\ p = 1
          <5>1. Patched(c[1].data) \in Contents
            BY <1>1, <4>2 DEF Patched, Contents, TypeOK, PagerTypeOK
          <5>2. cache'[1] = [c[1] EXCEPT !.data = Patched(c[1].data)]
            BY <4>1, <4>2, <4>6
          <5>3. cache'[1] \in [data : Contents, dirty : BOOLEAN]
                /\ cache'[1].dirty = c[1].dirty
            BY <4>2, <5>1, <5>2
          <5>4. cache'[1] # Absent /\ c[1] # Absent
            BY <4>2, <5>3, PagerConstants
          <5> QED
            BY <4>3, <4>6, <5>3, <5>4 DEF Dirty, Cached
        <4> QED
          BY <3>2, <4>4, <4>5, <4>6
      <3> QED
        BY <1>4, <3>1, <3>2 DEF UpdateDbHeader
    <2> QED
      BY <2>1, <2>2, <2>3, TxnStepKeepsDirtyInv DEF InTxn, Held
  <1>5. CASE SyncFile
    <2>1. ~Undoing /\ InTxn /\ Held
      BY <1>5 DEF SyncFile, DirtyInv, TxnHasJournal, Undoing
    <2>2. call'.op = "none" /\ state' = "WriterLocked"
          /\ UNCHANGED <<cache, dirtyOrder, savepoints, committedSize, journal>>
      BY <1>5 DEF SyncFile
    <2>3. \A p \in Pages : Dirty(p)' <=> Dirty(p)
      BY <2>2 DEF Dirty, Cached
    <2> QED
      BY <2>1, <2>2, <2>3, TxnStepKeepsDirtyInv DEF InTxn, Held
  <1>6. CASE CommitPhaseOneFails
    <2>1. ~Undoing /\ InTxn /\ Held
      BY <1>6 DEF CommitPhaseOneFails, DirtyInv, TxnHasJournal, Undoing
    <2>2. call'.op = "failed"
          /\ UNCHANGED <<cache, state, dirtyOrder, savepoints, committedSize, journal>>
      BY <1>6 DEF CommitPhaseOneFails
    <2>3. \A p \in Pages : Dirty(p)' <=> Dirty(p)
      BY <2>2 DEF Dirty, Cached
    <2> QED
      BY <2>1, <2>2, <2>3, TxnStepKeepsDirtyInv DEF InTxn, Held
  <1> QED
    BY <1>2, <1>3, <1>4, <1>5, <1>6

\* commit_phase_two cleans every page.
LEMMA CommitPhaseTwoKeepsDirtyInv ==
  ASSUME DirtyInv, TypeOK', CommitPhaseTwo
  PROVE  DirtyInv'
  <1>1. /\ ~InTxn' /\ ~Held' /\ call'.op = "none"
        /\ dirtyOrder' = <<>> /\ savepoints' = <<>>
    BY DEF CommitPhaseTwo, InTxn, Idle, Held, NoJournal
  <1>2. \A p \in Pages : ~Dirty(p)'
    BY DEF CommitPhaseTwo, Clean, Dirty, Cached
  <1> QED
    BY <1>1, <1>2, OutsideTxnKeepsDirtyInv

\* rollback starts with the whole journal unread.
LEMMA StartRollbackKeepsDirtyInv ==
  ASSUME DirtyInv, TypeOK', StartRollback
  PROVE  DirtyInv'
  <1>1. call.op \in {"none", "failed", "undone"} /\ InTxn /\ Held /\ journal \in Journals
    BY DEF StartRollback, Idle, DirtyInv, TxnHasJournal, TypeOK
  <1>2. /\ call' = [op |-> "replay", at |-> 1]
        /\ UNCHANGED <<cache, state, dbSize, dirtyOrder, savepoints, committedSize>>
        /\ journal'.at = journal.at /\ journal'.recs = journal.recs
        /\ journal'.start = journal.start /\ journal'.next = 0
    BY <1>1 DEF StartRollback, Journals
  <1>3. \A p \in Pages : Dirty(p)' <=> Dirty(p)
    BY <1>2 DEF Dirty, Cached
  <1>4. Unread = 1 /\ Unread' = 1
    BY <1>1, <1>2 DEF Unread
  <1>5. TxnHasJournal'
    BY <1>1, <1>2 DEF DirtyInv, TxnHasJournal, InTxn, Held
  <1>6. ListIsExact' /\ SavepointsNest'
    BY <1>1, <1>2, <1>3, ListFrame DEF Undoing
  <1>7. DirtyAreJournaled'
    BY <1>1, <1>2, <1>3, <1>4, JournalFrame
  <1> QED
    BY <1>5, <1>6, <1>7 DEF DirtyInv

\* A record played back cleans its page, so that the pages still dirty have a
\* record further on.
LEMMA ReplayRecordKeepsDirtyInv ==
  ASSUME DirtyInv, TypeOK', ReplayRecord
  PROVE  DirtyInv'
  <1>1. TypeOK /\ InTxn /\ Held /\ call.op = "replay" /\ call.at \in DOMAIN journal.recs
    BY DEF ReplayRecord, DirtyInv, TxnHasJournal
  <1>2. PICK at \in Nat : at = call.at
    BY <1>1 DEF TypeOK, PagerTypeOK, Calls
  <1>3. journal.recs[at].intact
    BY <1>1, <1>2 DEF DirtyInv, DirtyAreJournaled
  <1>4. PICK p \in Pages, c \in Contents :
          p = journal.recs[at].pgno /\ cache' = Restored(p, c)
    BY <1>2, <1>3 DEF ReplayRecord
  <1>5. call' = [op |-> "replay", at |-> at + 1]
        /\ UNCHANGED <<dirtyOrder, dbSize, state, savepoints, committedSize, journal>>
    BY <1>1, <1>2 DEF ReplayRecord, TypeOK, PagerTypeOK, Calls
  <1>6. \A q \in Pages : Dirty(q)' => Dirty(q) /\ q # p
    BY <1>1, <1>4 DEF Restored, Clean, Dirty, Cached, TypeOK, PagerTypeOK
  <1>7. Unread = at /\ Unread' = at + 1
    BY <1>1, <1>2, <1>5 DEF Unread
  <1>8. \A q \in Pages : Dirty(q)' => Journaled(q, at + 1)'
    <2> SUFFICES ASSUME NEW q \in Pages, Dirty(q)'
                 PROVE  Journaled(q, at + 1)
      BY <1>5 DEF Journaled
    <2>1. Dirty(q) /\ q # p
      BY <1>6
    <2>2. PICK i \in DOMAIN journal.recs :
            i >= at /\ journal.recs[i].pgno = q /\ journal.recs[i].intact
      BY <1>1, <1>7, <2>1 DEF DirtyInv, DirtyAreJournaled, Journaled
    <2>3. i # at /\ i \in Nat
      BY <1>1, <1>4, <2>1, <2>2 DEF TypeOK, Journals
    <2>4. i >= at + 1
      BY <1>2, <2>2, <2>3
    <2> QED
      BY <2>2, <2>4 DEF Journaled
  <1>9. TxnHasJournal'
    BY <1>1, <1>5 DEF DirtyInv, TxnHasJournal, InTxn, Held
  <1>10. ListIsExact' /\ SavepointsNest'
    BY <1>5, ListFrame DEF Undoing
  <1>11. DirtyAreJournaled'
    BY <1>1, <1>5, <1>7, <1>8 DEF DirtyInv, DirtyAreJournaled, Idle
  <1> QED
    BY <1>9, <1>10, <1>11 DEF DirtyInv

\* Once every record is played back nothing is dirty, and the size is the one
\* the transaction started from.
LEMMA FinishRollbackKeepsDirtyInv ==
  ASSUME DirtyInv, TypeOK', FinishRollback
  PROVE  DirtyInv'
  <1>1. TypeOK /\ InTxn /\ Held /\ call.op = "replay" /\ call.at = Len(journal.recs) + 1
    BY DEF FinishRollback, DirtyInv, TxnHasJournal
  <1>2. PICK n \in Nat : n = Len(journal.recs) /\ DOMAIN journal.recs = 1..n
    BY <1>1 DEF TypeOK, Journals
  <1>3. \A p \in Pages : ~Dirty(p)
    BY <1>1, <1>2 DEF DirtyInv, DirtyAreJournaled, Journaled, Unread
  <1>4. /\ ~InTxn' /\ ~Held' /\ call'.op = "none"
        /\ dirtyOrder' = <<>> /\ savepoints' = <<>> /\ UNCHANGED cache
    BY DEF FinishRollback, InTxn, Held, NoJournal
  <1>6. \A p \in Pages : ~Dirty(p)'
    BY <1>3, <1>4 DEF Dirty, Cached
  <1> QED
    BY <1>4, <1>6, OutsideTxnKeepsDirtyInv

\* A rollback that fails half-way: the next one reads the whole journal again.
LEMMA RollbackFailsKeepsDirtyInv ==
  ASSUME DirtyInv, TypeOK', RollbackFails
  PROVE  DirtyInv'
  <1>1. TypeOK /\ InTxn /\ Held /\ call.op = "replay" /\ call'.op = "undone"
        /\ UNCHANGED <<cache, state, dirtyOrder, savepoints, journal>>
    BY DEF RollbackFails, DirtyInv, TxnHasJournal
  <1>2. \A p \in Pages : Dirty(p)' <=> Dirty(p)
    BY <1>1 DEF Dirty, Cached
  <1>3. TxnHasJournal'
    BY <1>1 DEF DirtyInv, TxnHasJournal, InTxn, Held
  <1>4. ListIsExact' /\ SavepointsNest'
    BY <1>1, <1>2, ListFrame DEF Undoing
  <1>5. \A p \in Pages : Journaled(p, Unread) => Journaled(p, 1)'
    BY <1>1 DEF Journaled, TypeOK, Journals
  <1>6. DirtyAreJournaled'
    BY <1>1, <1>2, <1>5 DEF DirtyInv, DirtyAreJournaled, Unread, Idle, InTxn
  <1> QED
    BY <1>3, <1>4, <1>6 DEF DirtyInv

\* After a crash the transaction is gone, and its journal is nobody's.
LEMMA CrashKeepsDirtyInv ==
  ASSUME DirtyInv, TypeOK', Crash
  PROVE  DirtyInv'
  <1>1. /\ state' = "Unlocked" /\ call' = [op |-> "none", at |-> 0]
        /\ cache' = [p \in Pages |-> Absent] /\ dirtyOrder' = <<>> /\ savepoints' = <<>>
    BY DEF Crash, ReopenedAs
  <1>2. ~InTxn' /\ call'.op = "none" /\ \A p \in Pages : ~Dirty(p)'
    BY <1>1 DEF InTxn, Dirty, Cached
  <1>3. ~Held'
    BY DEF Crash, Held, DirtyInv, TypeOK, Journals
  <1> QED
    BY <1>1, <1>2, <1>3, OutsideTxnKeepsDirtyInv

-----------------------------------------------------------------------------
\* The results

\* Every step keeps the invariant.
LEMMA DirtyInvStep == DirtyInv /\ [FaultNext]_vars => DirtyInv'
  <1> SUFFICES ASSUME DirtyInv, [FaultNext]_vars PROVE DirtyInv'
    OBVIOUS
  <1>1. TypeOK'
    BY TypeStep DEF DirtyInv
  <1>2. CASE Read
    BY <1>1, <1>2, ReadKeepsDirtyInv
  <1>3. CASE BeginWrite
    BY <1>1, <1>3, BeginWriteKeepsDirtyInv
  <1>4. CASE Write
    BY <1>4, WriteKeepsDirtyInv
  <1>5. CASE Nest
    BY <1>5, OpenSavepointKeepsDirtyInv, SavepointReleaseKeepsDirtyInv,
       SavepointRollbackKeepsDirtyInv DEF Nest
  <1>6. CASE CommitStep
    BY <1>1, <1>6, CommitPhaseOneKeepsDirtyInv, CommitPhaseTwoKeepsDirtyInv DEF CommitStep
  <1>7. CASE RollbackStep
    BY <1>1, <1>7, StartRollbackKeepsDirtyInv, ReplayRecordKeepsDirtyInv,
       FinishRollbackKeepsDirtyInv DEF RollbackStep
  <1>8. CASE CallFails
    BY <1>1, <1>8, WriteAccessFailsKeepsDirtyInv, CommitPhaseOneKeepsDirtyInv,
       RollbackFailsKeepsDirtyInv DEF CallFails
  <1>9. CASE Crash
    BY <1>1, <1>9, CrashKeepsDirtyInv
  <1>10. CASE UNCHANGED vars
    <2>1. \A p \in Pages : Dirty(p)' <=> Dirty(p)
      BY <1>10 DEF vars, pagerVars, Dirty, Cached
    <2> QED
      BY <1>1, <1>10, <2>1, CachingKeepsDirtyInv DEF vars, pagerVars
  <1> QED
    BY <1>2, <1>3, <1>4, <1>5, <1>6, <1>7, <1>8, <1>9, <1>10 DEF FaultNext, Next

\* The inductive invariant holds of a pager whose calls fail and whose process
\* stops between calls, whatever the caller does between the phases of a
\* commit.
THEOREM DirtyInvariant == FaultSpec => []DirtyInv
  BY DirtyInvInit, DirtyInvStep, PTL DEF FaultSpec

\* A pager that meets no fault takes some of the same steps, and so does a
\* caller that commits in one call.
LEMMA NextIsFaultNext ==
  ([Next]_vars => [FaultNext]_vars) /\ ([CommitNext]_vars => [Next]_vars)
  BY DEF FaultNext, CommitNext, Next, CommitStep

\* It holds when every commit is one call, as Pager::commit makes it.
THEOREM CommittingDirtyInvariant == CommitSpec => []DirtyInv
  BY DirtyInvInit, DirtyInvStep, NextIsFaultNext, PTL DEF CommitSpec

\* Outside the pager's calls the list is the set of dirty pages.
LEMMA DirtyInvListsDirty == DirtyInv => DirtyOrderIsDirtySet
  <1> SUFFICES ASSUME DirtyInv, Idle PROVE DirtyOrderIsDirtySet
    BY DEF DirtyOrderIsDirtySet
  <1>1. dirtyOrder \in Seq(Pages) /\ DOMAIN dirtyOrder = 1..Len(dirtyOrder)
    BY DEF DirtyInv, TypeOK, PagerTypeOK
  <1>2. \A p \in Pages : Dirty(p) <=> p \in Front(Len(dirtyOrder))
    BY DEF DirtyInv, ListIsExact, ListsDirty, Idle, Undoing
  <1>3. \A i \in DOMAIN dirtyOrder : dirtyOrder[i] \in Pages
    BY <1>1
  <1> QED
    BY <1>1, <1>2, <1>3 DEF DirtyOrderIsDirtySet, DirtyInv, ListIsExact, NoPageTwice, Front

\* The pages commit_phase_one walks are exactly the dirty ones, each once:
\* write_access, savepoint_rollback and rollback keep dirty_order and the
\* cache's dirty flags in step, whatever call fails.
THEOREM DirtyListIsExact == FaultSpec => []DirtyOrderIsDirtySet
  BY DirtyInvariant, DirtyInvListsDirty, PTL

\* The same, of the caller whose commit is one call.
THEOREM CommitWalksDirtyPages == CommitSpec => []DirtyOrderIsDirtySet
  BY CommittingDirtyInvariant, DirtyInvListsDirty, PTL

\* Until the process stops the journal knows the committed size.
LEMMA SizeInvStep ==
  ASSUME DirtyInv, SizeInv, [Next]_vars
  PROVE  SizeInv'
  <1> USE DEF DirtyInv, SizeInv
  <1>1. TypeOK /\ journal \in Journals
    BY DEF TypeOK
  <1>2. CASE Read
    BY <1>2 DEF Read, Acquire, InTxn
  <1>3. CASE BeginWrite
    BY <1>1, <1>3 DEF BeginWrite, NoJournal, InTxn
  <1>4. CASE Write
    <2>1. PICK p, c, before :
            /\ p \in Pages /\ InTxn
            /\ Modify(before, p, c)
            /\ IF before[p].dirty THEN UNCHANGED journal
                                  ELSE JournalPage(p, before[p].data)
      BY <1>4 DEF Write, WriteValue, MovePage, WriteAccess
    <2>2. journal'.start = journal.start
      BY <1>1, <2>1 DEF JournalPage, Journals
    <2> QED
      BY <2>1, <2>2 DEF Modify, InTxn
  <1>5. CASE Nest
    BY <1>5 DEF Nest, OpenSavepoint, SavepointRollback, SavepointRelease, InTxn
  <1>6. CASE SealJournal \/ WriteDirtyPage \/ UpdateDbHeader \/ SyncFile
    <2>1. journal'.start = journal.start
      BY <1>1, <1>6 DEF SealJournal, Sealed, WriteDirtyPage, UpdateDbHeader, SyncFile, Journals
    <2>2. InTxn
      BY <1>6 DEF SealJournal, WriteDirtyPage, UpdateDbHeader, SyncFile, TxnHasJournal
    <2>3. InTxn' /\ UNCHANGED committedSize
      BY <1>6, <2>2 DEF SealJournal, WriteDirtyPage, UpdateDbHeader, SyncFile, InTxn
    <2> QED
      BY <2>1, <2>2, <2>3
  <1>7. CASE CommitPhaseTwo
    BY <1>7 DEF CommitPhaseTwo, InTxn
  <1>8. CASE StartRollback \/ ReplayRecord
    <2>1. journal'.start = journal.start /\ InTxn
      BY <1>1, <1>8 DEF StartRollback, ReplayRecord, Journals, TxnHasJournal
    <2> QED
      BY <1>8, <2>1 DEF StartRollback, ReplayRecord, InTxn
  <1>9. CASE FinishRollback
    <2>1. Held /\ InTxn
      BY <1>9 DEF FinishRollback, TxnHasJournal
    <2> QED
      BY <1>9, <2>1 DEF FinishRollback, SavedDbSize, InTxn
  <1>10. CASE UNCHANGED vars
    BY <1>10 DEF vars, pagerVars, InTxn
  <1> QED
    BY <1>2, <1>3, <1>4, <1>5, <1>6, <1>7, <1>8, <1>9, <1>10 DEF Next, CommitStep, RollbackStep

\* Outside a transaction db_size is what the last commit made it, although
\* the journal's header is all a rollback has to restore it from.
THEOREM RollbackGivesBackSize == CommitSpec => []SizeAsCommitted
  <1>1. Init => SizeInv
    BY DEF Init, Opened, SizeInv, InTxn
  <1>2. DirtyInv /\ DirtyInv' /\ SizeInv /\ [CommitNext]_vars => SizeInv'
    BY SizeInvStep, NextIsFaultNext
  <1>3. SizeInv => SizeAsCommitted
    BY DEF SizeInv, SizeAsCommitted
  <1> QED
    BY <1>1, <1>2, <1>3, CommittingDirtyInvariant, PTL DEF CommitSpec

\* Every page a transaction dirties is journaled as it was.
LEMMA DirtyInvAppends == DirtyInv => OriginalsAppended
  <1> SUFFICES ASSUME DirtyInv, Held, NEW p \in Pages, Dirty(p)
               PROVE  \E i \in DOMAIN journal.recs :
                        journal.recs[i].pgno = p /\ journal.recs[i].intact
    BY DEF OriginalsAppended
  <1>1. InTxn
    BY NothingDirtyOutsideTxn
  <1> QED
    BY <1>1 DEF DirtyInv, DirtyAreJournaled, Journaled

\* Every dirty page has its original content in the journal, in a record
\* that nothing has written over, although calls fail and commits are tried
\* again (a caller that goes on writing after a failed commit loses it).
THEOREM OriginalsAreJournaled == FaultSpec => []OriginalsAppended
  BY DirtyInvAppends, DirtyInvariant, PTL

-----------------------------------------------------------------------------
\* Values: what relates the cache, the file, the journal and the last commit

\* The value of page p in the file, in what a power loss leaves of it, in the
\* cache, and to the connection.
OnDisk(p) == file.data[p].val
Safe(p) == synced.data[p].val
InCache(p) == cache[p].data.val
Seen(p) == View(p).val

\* A clean page in the cache has the value it has in the file.
CleanAgree == \A p \in Pages : Cached(p) /\ ~Dirty(p) => InCache(p) = OnDisk(p)

\* Every record of the journal is of a committed value.
RecordsAreCommitted ==
  Held => \A i \in DOMAIN journal.recs :
            journal.recs[i].data.val = committed[journal.recs[i].pgno]

\* Unless a commit or a rollback is under way the file is as committed.
SettledFile ==
  Settled => \A p \in Pages : OnDisk(p) = committed[p] /\ Safe(p) = committed[p]

\* The file differs from the last commit in journaled pages only, the journal
\* having been synced before, and a rollback has still to read their records.
ChangesAreJournaled ==
  \A p \in Pages :
    /\ OnDisk(p) # committed[p] \/ Safe(p) # committed[p] =>
         Held /\ journal.secured = Len(journal.recs) /\ Journaled(p, 1)
    /\ OnDisk(p) # committed[p] =>
         Journaled(p, Unread) /\ (~Undoing => Dirty(p))

\* commit_phase_one has written the pages it has walked over, and once it has
\* walked over all of them the file is what the connection sees.
WrittenSoFar ==
  /\ call.op = "pages" =>
       \A i \in DOMAIN dirtyOrder :
         i < call.at /\ Dirty(dirtyOrder[i]) =>
           InCache(dirtyOrder[i]) = OnDisk(dirtyOrder[i])
  /\ call.op = "sync" \/ (state = "WriterLocked" /\ Idle) =>
       \A p \in Pages : Cached(p) => InCache(p) = OnDisk(p)
  /\ state = "WriterLocked" /\ Idle => \A p \in Pages : Safe(p) = OnDisk(p)

\* Past every size that db_size has been given, or can be given back, nothing
\* is committed; no dirty page is past it.
SizesCoverPages ==
  \A p \in Pages :
    /\ p > dbSize => committed[p] = Zero
    /\ Held /\ p > journal.start => committed[p] = Zero
    /\ Dirty(p) => p <= dbSize
    /\ \A k \in DOMAIN savepoints :
         /\ p > savepoints[k].size => committed[p] = Zero
         /\ savepoints[k].dirty[p] # Absent => p <= savepoints[k].size

\* Past its end a file is zero.
FilesEndInZero ==
  \A p \in Pages : /\ p > file.len => OnDisk(p) = Zero
                   /\ p > synced.len => Safe(p) = Zero

\* The journal is synced before the file is written.
SealedFirst ==
  call.op \in {"pages", "sync", "failed"} \/ state = "WriterLocked" =>
    journal.secured = Len(journal.recs)

\* The inductive invariant, together with DirtyInv.
StoreInv ==
  /\ CleanAgree
  /\ RecordsAreCommitted
  /\ SettledFile
  /\ ChangesAreJournaled
  /\ WrittenSoFar
  /\ SizesCoverPages
  /\ FilesEndInZero
  /\ SealedFirst

\* What the abstract store may do in one step.
StoreStep == [Store!Next]_(Store!vars)

-----------------------------------------------------------------------------
\* Reading

\* What ensure_cached(p) does to one slot: nothing, an eviction of a clean
\* page, or the page's content from the file.
LEMMA LoadedSlots ==
  ASSUME TypeOK, NEW p \in Pages, NEW c \in Loaded(p), NEW q \in Pages
  PROVE  \/ c[q] = cache[q]
         \/ c[q] = Absent /\ ~Dirty(q)
         \/ ~Cached(q) /\ c[q] = Clean(file.data[q])
  <1>1. CASE Cached(p)
    BY <1>1 DEF Loaded
  <1>2. CASE ~Cached(p) /\ FileHolds(p)
    <2>1. c \in Filled(p, file.data[p]) /\ file.data[p] \in Contents
      BY <1>2 DEF Loaded, TypeOK, PagerTypeOK, Files
    <2> QED
      BY <1>2, <2>1, FilledSlots DEF TypeOK
  <1> QED
    BY <1>1, <1>2 DEF Loaded

\* A page that is loaded is what was seen of it.
LEMMA LoadedIsView ==
  ASSUME TypeOK, NEW p \in Pages, NEW c \in Loaded(p)
  PROVE  c[p] # Absent /\ c[p].data = View(p)
  <1>1. CASE Cached(p)
    BY <1>1 DEF Loaded, View, Cached
  <1>2. CASE ~Cached(p) /\ FileHolds(p)
    <2>1. c \in Filled(p, file.data[p]) /\ file.data[p] \in Contents
      BY <1>2 DEF Loaded, TypeOK, PagerTypeOK, Files
    <2>2. c[p] = Clean(file.data[p])
      BY <1>2, <2>1, FilledSlots DEF TypeOK
    <2>3. c[p] # Absent
      BY LoadedType
    <2>4. c[p].data = file.data[p]
      BY <2>2 DEF Clean
    <2> QED
      BY <1>2, <2>3, <2>4 DEF View
  <1> QED
    BY <1>1, <1>2 DEF Loaded

\* In cache c the slot of page q is as it is now, or holds q as it is in the
\* file, or is empty, q not being dirty.
SlotKept(c, q) ==
  \/ c[q] = cache[q]
  \/ c[q] = Absent /\ ~Dirty(q)
  \/ ~Cached(q) /\ c[q] # Absent /\ ~c[q].dirty /\ c[q].data.val = OnDisk(q)

\* A cache that ensure_cached leaves.
LEMMA LoadedKeepsSlots ==
  ASSUME TypeOK, NEW p \in Pages, NEW c \in Loaded(p), NEW q \in Pages
  PROVE  SlotKept(c, q)
  <1>1. file.data[q] \in Contents
    BY DEF TypeOK, PagerTypeOK, Files
  <1>2. Clean(file.data[q]) # Absent
    BY <1>1, CleanInSlots
  <1>3. Clean(file.data[q]).data.val = OnDisk(q) /\ ~Clean(file.data[q]).dirty
    BY DEF Clean, OnDisk
  <1> QED
    BY <1>2, <1>3, LoadedSlots DEF SlotKept

\* Outside of commits and rollbacks the page that write_access makes up is
\* what the file holds there, if anything: zero.
LEMMA WritableKeepsSlots ==
  ASSUME TypeOK, StoreInv, Settled, NEW p \in Pages, NEW c \in Writable(p), NEW q \in Pages
  PROVE  SlotKept(c, q)
  <1>1. CASE c \in Loaded(p)
    BY <1>1, LoadedKeepsSlots
  <1>2. CASE p > dbSize /\ c = MadeUp(p)
    <2>1. CASE Cached(p) \/ q # p
      BY <1>2, <2>1 DEF MadeUp, SlotKept, TypeOK, PagerTypeOK
    <2>2. CASE ~Cached(p) /\ q = p
      <3>1. c[q] = Clean(Blank)
        BY <1>2, <2>2 DEF MadeUp, TypeOK, PagerTypeOK
      <3>2. Clean(Blank) # Absent
        BY BlankInContents, CleanInSlots
      <3>3. ~Clean(Blank).dirty /\ Clean(Blank).data.val = Zero
        BY DEF Clean, Blank
      <3>4. OnDisk(q) = Zero
        BY <1>2, <2>2 DEF StoreInv, SettledFile, SizesCoverPages
      <3> QED
        BY <2>2, <3>1, <3>2, <3>3, <3>4 DEF SlotKept
    <2> QED
      BY <2>1, <2>2
  <1>3. dbSize \in Int
    BY PagerConstants DEF TypeOK, PagerTypeOK
  <1> QED
    BY <1>1, <1>2, <1>3 DEF Writable, Pages

\* Pages may come into the cache as they are in the file, and clean pages may
\* leave it, unnoticed.
LEMMA CachingKeepsStore ==
  ASSUME DirtyInv, StoreInv,
         \A q \in Pages : SlotKept(cache', q),
         UNCHANGED <<file, synced, dirtyOrder, dbSize, state, savepoints, call,
                     committed, committedSize, journal>>
  PROVE  StoreInv' /\ \A q \in Pages : Seen(q)' = Seen(q)
  <1>1. \A q \in Pages : Dirty(q)' <=> Dirty(q)
    BY DEF SlotKept, Dirty, Cached
  <1>2. \A q \in Pages : Dirty(q) => cache'[q] = cache[q]
    BY DEF SlotKept, Dirty, Cached
  <1>3. \A q \in Pages : OnDisk(q)' = OnDisk(q) /\ Safe(q)' = Safe(q)
    BY DEF OnDisk, Safe
  <1>4. \A q \in Pages : Cached(q)' /\ ~Dirty(q)' => InCache(q)' = OnDisk(q)
    BY <1>1 DEF StoreInv, CleanAgree, SlotKept, InCache, Dirty, Cached
  <1>5. \A q \in Pages : Dirty(q) => InCache(q)' = InCache(q)
    BY <1>2 DEF InCache
  <1>6. \A i \in DOMAIN dirtyOrder : dirtyOrder[i] \in Pages
    BY ElementOfSeq DEF DirtyInv, TypeOK, PagerTypeOK
  <1>7. CleanAgree'
    BY <1>3, <1>4 DEF CleanAgree
  <1>8. RecordsAreCommitted' /\ SealedFirst'
    BY DEF StoreInv, RecordsAreCommitted, SealedFirst, Held
  <1>9. SettledFile' /\ FilesEndInZero'
    BY <1>3 DEF StoreInv, SettledFile, FilesEndInZero, Settled, Idle
  <1>10. ChangesAreJournaled'
    BY <1>1, <1>3 DEF StoreInv, ChangesAreJournaled, Held, Journaled, Unread, Undoing
  <1>11. WrittenSoFar'
    <2>1. call.op = "pages" => \A i \in DOMAIN dirtyOrder :
            i < call.at /\ Dirty(dirtyOrder[i])' =>
              InCache(dirtyOrder[i])' = OnDisk(dirtyOrder[i])
      BY <1>1, <1>5, <1>6 DEF StoreInv, WrittenSoFar
    <2>2. call.op = "sync" \/ (state = "WriterLocked" /\ Idle) =>
            \A q \in Pages : Cached(q)' => InCache(q)' = OnDisk(q)
      BY <1>1, <1>4, <1>5 DEF StoreInv, WrittenSoFar, Dirty
    <2> QED
      BY <1>3, <1>6, <2>1, <2>2 DEF StoreInv, WrittenSoFar, Idle
  <1>12. SizesCoverPages'
    BY <1>1 DEF StoreInv, SizesCoverPages, Held
  <1>13. ASSUME NEW q \in Pages PROVE Seen(q)' = Seen(q)
    <2>1. CASE Dirty(q)
      BY <1>1, <1>5, <2>1 DEF Seen, View, Dirty, InCache
    <2>2. CASE ~Dirty(q)
      BY <1>1, <1>3, <1>4, <2>2 DEF Seen, View, InCache, OnDisk, StoreInv, CleanAgree
    <2> QED
      BY <2>1, <2>2
  <1> QED
    BY <1>7, <1>8, <1>9, <1>10, <1>11, <1>12, <1>13 DEF StoreInv

\* A step that the connection does not notice.
LEMMA StoreStutters ==
  ASSUME \A p \in Pages : Seen(p)' = Seen(p), InTxn' = InTxn,
         UNCHANGED <<committed, savepoints>>
  PROVE  StoreStep
  <1>1. [p \in Pages |-> View(p).val]' = [p \in Pages |-> View(p).val]
    BY DEF Seen
  <1>2. ASSUME NEW sp
        PROVE  SavedValues(sp)' = SavedValues(sp)
    BY DEF SavedValues
  <1>3. [k \in DOMAIN savepoints |-> SavedValues(savepoints[k])]'
          = [k \in DOMAIN savepoints |-> SavedValues(savepoints[k])]
    BY <1>2
  <1> QED
    BY <1>1, <1>3 DEF StoreStep, Store!vars

\* acquire is not noticed.
LEMMA ReadKeepsStore ==
  ASSUME DirtyInv, StoreInv, Read
  PROVE  StoreInv' /\ StoreStep
  <1>1. PICK p \in Pages : Acquire(p)
    BY DEF Read
  <1>2. \A q \in Pages : SlotKept(cache', q)
    BY <1>1, LoadedKeepsSlots DEF Acquire, DirtyInv
  <1>3. StoreInv' /\ \A q \in Pages : Seen(q)' = Seen(q)
    BY <1>1, <1>2, CachingKeepsStore DEF Acquire
  <1> QED
    BY <1>1, <1>3, StoreStutters DEF Acquire, InTxn

\* Nor is a write_access that fails.
LEMMA WriteAccessFailsKeepsStore ==
  ASSUME DirtyInv, StoreInv, state = "Writer", NEW p \in Pages, WriteAccessFails(p)
  PROVE  StoreInv' /\ StoreStep
  <1>1. \A q \in Pages : SlotKept(cache', q)
    BY WritableKeepsSlots DEF WriteAccessFails, DirtyInv, Settled
  <1>2. StoreInv' /\ \A q \in Pages : Seen(q)' = Seen(q)
    BY <1>1, CachingKeepsStore DEF WriteAccessFails
  <1> QED
    BY <1>2, StoreStutters DEF WriteAccessFails, InTxn

-----------------------------------------------------------------------------
\* Writing

\* begin_write: the store's Begin.
LEMMA BeginWriteKeepsStore ==
  ASSUME DirtyInv, StoreInv, BeginWrite
  PROVE  StoreInv' /\ StoreStep
  <1>1. /\ Idle /\ ~InTxn /\ Settled /\ state' = "Writer"
        /\ journal'.at = "held" /\ journal'.start = dbSize /\ journal'.recs = <<>>
        /\ UNCHANGED <<file, synced, cache, dirtyOrder, dbSize, savepoints, call,
                       committed, committedSize>>
    BY DEF BeginWrite, NoJournal, Settled, InTxn
  <1>2. \A p \in Pages : /\ Dirty(p)' <=> Dirty(p)
                         /\ Cached(p)' <=> Cached(p)
                         /\ InCache(p)' = InCache(p)
                         /\ OnDisk(p)' = OnDisk(p) /\ Safe(p)' = Safe(p)
                         /\ Seen(p)' = Seen(p)
    BY <1>1 DEF Dirty, Cached, InCache, OnDisk, Safe, Seen, View
  <1>3. CleanAgree' /\ RecordsAreCommitted' /\ FilesEndInZero' /\ SettledFile'
    BY <1>1, <1>2 DEF StoreInv, CleanAgree, RecordsAreCommitted, FilesEndInZero, SettledFile
  <1>4. ChangesAreJournaled' /\ WrittenSoFar' /\ SealedFirst'
    BY <1>1, <1>2 DEF StoreInv, ChangesAreJournaled, SettledFile, WrittenSoFar, SealedFirst, Idle
  <1>5. SizesCoverPages'
    BY <1>1, <1>2 DEF StoreInv, SizesCoverPages
  <1>6. Store!Begin
    BY <1>1, <1>2 DEF Store!Begin, InTxn, Seen, SavedValues
  <1> QED
    BY <1>3, <1>4, <1>5, <1>6 DEF StoreInv, StoreStep, Store!Next

\* write_access: the record it appends, if any, is of the committed value, and
\* the page written is the only one seen to change.
LEMMA WriteAccessKeepsStore ==
  ASSUME DirtyInv, DirtyInv', StoreInv, Idle, state = "Writer", NEW p \in Pages,
         NEW c \in Contents, WriteAccess(p, c)
  PROVE  /\ StoreInv'
         /\ Seen(p)' = c.val
         /\ \A q \in Pages \ {p} : Seen(q)' = Seen(q)
         /\ UNCHANGED <<committed, savepoints, state>>
  <1>1. PICK before \in Writable(p) :
          /\ Modify(before, p, c)
          /\ IF before[p].dirty THEN UNCHANGED journal
                                ELSE JournalPage(p, before[p].data)
    BY DEF WriteAccess
  <1>2. TypeOK /\ before \in [Pages -> Slots] /\ before[p] # Absent /\ journal \in Journals
    BY WritableType DEF DirtyInv, TypeOK
  <1>3. Settled /\ InTxn /\ Held /\ journal.next = 0 /\ dbSize \in 0..MaxPage
    BY <1>2 DEF Settled, InTxn, DirtyInv, TxnHasJournal, DirtyAreJournaled, TypeOK, PagerTypeOK
  <1>4. \A q \in Pages : SlotKept(before, q)
    BY <1>2, <1>3, WritableKeepsSlots
  <1>5. /\ cache' = [before EXCEPT ![p] = [data |-> c, dirty |-> TRUE]]
        /\ UNCHANGED <<file, synced, state, savepoints, call, committed, committedSize>>
    BY <1>1 DEF Modify
  <1>6. cache'[p] = [data |-> c, dirty |-> TRUE] /\ \A q \in Pages \ {p} : cache'[q] = before[q]
    BY <1>2, <1>5
  <1>7. cache'[p] # Absent
    <2>1. cache'[p] \in [data : Contents, dirty : BOOLEAN]
      BY <1>6
    <2> QED
      BY <2>1, PagerConstants
  <1>8. Dirty(p)' /\ Cached(p)' /\ Seen(p)' = c.val
    BY <1>6, <1>7 DEF Dirty, Cached, Seen, View
  <1>9. \A q \in Pages : OnDisk(q)' = OnDisk(q) /\ Safe(q)' = Safe(q)
    BY <1>5 DEF OnDisk, Safe
  <1>10. ASSUME NEW q \in Pages \ {p}
         PROVE  /\ Dirty(q)' <=> Dirty(q)
                /\ Cached(q)' /\ ~Dirty(q)' => InCache(q)' = OnDisk(q)
                /\ Seen(q)' = Seen(q)
    <2>1. cache'[q] = before[q] /\ SlotKept(before, q)
      BY <1>4, <1>6
    <2>2. CASE cache'[q] = cache[q]
      BY <1>5, <2>2 DEF Dirty, Cached, InCache, Seen, View, StoreInv, CleanAgree, OnDisk
    <2>3. CASE cache'[q] = Absent /\ ~Dirty(q)
      BY <1>5, <2>3 DEF Dirty, Cached, Seen, View, StoreInv, CleanAgree, OnDisk, InCache
    <2>4. CASE ~Cached(q) /\ cache'[q] # Absent /\ ~cache'[q].dirty
               /\ cache'[q].data.val = OnDisk(q)
      BY <2>4 DEF Dirty, Cached, Seen, View, OnDisk, InCache
    <2> QED
      BY <2>1, <2>2, <2>3, <2>4 DEF SlotKept
  <1>11. ASSUME ~before[p].dirty
         PROVE  before[p].data.val = committed[p]
    <2>1. SlotKept(before, p)
      BY <1>4
    <2>2. before[p].data.val = OnDisk(p)
      BY <1>2, <1>11, <2>1 DEF SlotKept, StoreInv, CleanAgree, InCache, Cached, Dirty
    <2> QED
      BY <1>3, <2>2 DEF StoreInv, SettledFile
  <1>12. CleanAgree'
    BY <1>8, <1>9, <1>10 DEF CleanAgree
  <1>13. RecordsAreCommitted' /\ journal'.start = journal.start
    <2>1. CASE before[p].dirty
      BY <1>1, <1>3, <1>5, <2>1 DEF StoreInv, RecordsAreCommitted, Held
    <2>2. CASE ~before[p].dirty
      <3> DEFINE rec == [pgno |-> p, data |-> before[p].data, intact |-> TRUE]
      <3>1. journal' = [journal EXCEPT !.recs = Append(@, rec)]
        BY <1>1, <1>2, <1>3, <2>2 DEF JournalPage, Journals
      <3>2. journal'.recs = Append(journal.recs, rec) /\ journal'.start = journal.start
        BY <1>2, <3>1 DEF Journals
      <3>3. rec.pgno = p /\ rec.data.val = committed[p]
        BY <1>11, <2>2
      <3>4. journal.recs \in Seq(JournalRecs)
        BY <1>2 DEF Journals
      <3> HIDE DEF rec
      <3>5. ASSUME NEW i \in DOMAIN journal'.recs
            PROVE  journal'.recs[i].data.val = committed[journal'.recs[i].pgno]
        <4>1. CASE i \in DOMAIN journal.recs
          BY <1>3, <3>2, <3>4, <4>1 DEF StoreInv, RecordsAreCommitted
        <4>2. CASE i = Len(journal.recs) + 1
          BY <3>2, <3>3, <3>4, <4>2
        <4> QED
          BY <3>2, <3>4, <4>1, <4>2
      <3> QED
        BY <1>5, <3>2, <3>5 DEF RecordsAreCommitted
    <2> QED
      BY <2>1, <2>2
  <1>14. SettledFile' /\ FilesEndInZero' /\ Settled'
    BY <1>3, <1>5, <1>9 DEF StoreInv, SettledFile, FilesEndInZero, Settled, Idle
  <1>15. ChangesAreJournaled' /\ WrittenSoFar' /\ SealedFirst'
    BY <1>5, <1>14 DEF SettledFile, ChangesAreJournaled, WrittenSoFar, SealedFirst, Idle
  <1>16. SizesCoverPages'
    <2>1. dbSize' = IF before[p].dirty THEN dbSize ELSE Larger(dbSize, p)
      BY <1>1 DEF Modify
    <2>2. dbSize <= dbSize' /\ dbSize' \in Int
      BY <1>3, <2>1 DEF Larger, Pages
    <2>3. p <= dbSize'
      <3>1. CASE before[p].dirty
        <4>1. Dirty(p)
          BY <1>2, <1>4, <3>1 DEF SlotKept, Dirty, Cached
        <4> QED
          BY <2>1, <3>1, <4>1 DEF StoreInv, SizesCoverPages
      <3>2. CASE ~before[p].dirty
        BY <1>3, <2>1, <3>2 DEF Larger, Pages
      <3> QED
        BY <3>1, <3>2
    <2>4. \A q \in Pages : Dirty(q)' => q <= dbSize'
      BY <1>3, <1>10, <2>2, <2>3 DEF StoreInv, SizesCoverPages, Pages
    <2>5. \A q \in Pages : q > dbSize' => committed[q] = Zero
      BY <1>3, <2>2 DEF StoreInv, SizesCoverPages, Pages
    <2> QED
      BY <1>3, <1>5, <1>13, <2>4, <2>5 DEF StoreInv, SizesCoverPages
  <1> QED
    BY <1>5, <1>8, <1>10, <1>12, <1>13, <1>14, <1>15, <1>16 DEF StoreInv

\* A caller's write is the store's Write, be it of a new value or of the
\* content of another page.
LEMMA WriteKeepsStore ==
  ASSUME DirtyInv, DirtyInv', StoreInv, Write
  PROVE  StoreInv' /\ StoreStep
  <1>1. TypeOK /\ Idle /\ state = "Writer"
    BY DEF DirtyInv, Write
  <1>2. PICK p \in Pages :
          (\E v \in Vals : WriteValue(p, v)) \/ (\E q \in Pages : MovePage(q, p))
    BY DEF Write
  <1>3. PICK c \in Contents : WriteAccess(p, c)
    <2>1. CASE \E v \in Vals : WriteValue(p, v)
      BY <1>1, <2>1, ViewInContents DEF WriteValue, Contents
    <2>2. CASE \E q \in Pages : MovePage(q, p)
      BY <2>2, <1>1 DEF MovePage, TypeOK, PagerTypeOK, Cached, Slots
    <2> QED
      BY <1>2, <2>1, <2>2
  <1>4. /\ StoreInv' /\ Seen(p)' = c.val
        /\ \A q \in Pages \ {p} : Seen(q)' = Seen(q)
        /\ UNCHANGED <<committed, savepoints, state>>
    BY <1>1, <1>3, WriteAccessKeepsStore
  <1>5. Store!Write(p, c.val)
    <2>1. [q \in Pages |-> View(q).val]' = [[q \in Pages |-> View(q).val] EXCEPT ![p] = c.val]
      BY <1>4 DEF Seen
    <2> QED
      BY <1>1, <1>4, <2>1 DEF Store!Write, InTxn, SavedValues
  <1>6. c.val \in Vals
    BY DEF Contents
  <1> QED
    BY <1>4, <1>5, <1>6 DEF StoreStep, Store!Next

-----------------------------------------------------------------------------
\* Savepoints

\* Between calls a page that is not dirty is seen as committed.
LEMMA CleanIsCommitted ==
  ASSUME StoreInv, Settled, NEW p \in Pages, ~Dirty(p)
  PROVE  Seen(p) = committed[p]
  BY DEF StoreInv, CleanAgree, SettledFile, Seen, View, InCache, OnDisk

\* savepoint: the store's Savepoint; the snapshot and the committed values
\* together are all that is seen.
LEMMA OpenSavepointKeepsStore ==
  ASSUME DirtyInv, StoreInv, state = "Writer", OpenSavepoint, UNCHANGED journal
  PROVE  StoreInv' /\ StoreStep
  <1>1. TypeOK /\ PagerTypeOK /\ Idle /\ Settled /\ InTxn /\ savepoints \in Seq(Snapshots)
    BY DEF DirtyInv, TypeOK, PagerTypeOK, OpenSavepoint, Settled, InTxn
  <1>2. UNCHANGED <<file, synced, cache, dirtyOrder, dbSize, state, call,
                    committed, committedSize, journal>>
    BY DEF OpenSavepoint
  <1>3. ListInv
    BY <1>1, DirtyInvLists DEF Idle, Undoing
  <1>4. PICK sp \in Snapshots :
          /\ savepoints' = Append(savepoints, sp)
          /\ sp.size = dbSize
          /\ \A p \in Pages : sp.dirty[p] = IF Dirty(p) THEN cache[p].data ELSE Absent
          /\ \A p \in Pages : sp.dirty[p] # Absent <=> Dirty(p)
    BY <1>1, <1>3, SnapshotOfDirty DEF ListInv
  <1>5. \A p \in Pages : SavedValues(sp)[p] = Seen(p)
    <2> SUFFICES ASSUME NEW p \in Pages PROVE SavedValues(sp)[p] = Seen(p)
      OBVIOUS
    <2>1. SavedValues(sp)[p] = IF sp.dirty[p] = Absent THEN committed[p] ELSE sp.dirty[p].val
      BY DEF SavedValues
    <2>2. CASE Dirty(p)
      BY <1>4, <2>1, <2>2 DEF Seen, View, Dirty
    <2>3. CASE ~Dirty(p)
      BY <1>1, <1>4, <2>1, <2>3, CleanIsCommitted
    <2> QED
      BY <2>2, <2>3
  <1>6. SavedValues(sp) = [p \in Pages |-> View(p).val]
    <2>1. SavedValues(sp) = [p \in Pages |-> Seen(p)]
      BY <1>5 DEF SavedValues
    <2> QED
      BY <2>1 DEF Seen
  <1>7. Store!Savepoint
    <2>1. Saves(savepoints') = Append(Saves(savepoints), SavedValues(sp))
      BY <1>1, <1>4, SavesAppend
    <2>2. UNCHANGED <<committed, InTxn, [p \in Pages |-> View(p).val]>>
      BY <1>2 DEF InTxn, View, Cached
    <2> QED
      BY <1>1, <1>2, <1>6, <2>1, <2>2, SavesFrame DEF Store!Savepoint, Saves
  <1>8. /\ \A k \in DOMAIN savepoints' : k \notin DOMAIN savepoints => savepoints'[k] = sp
        /\ \A k \in DOMAIN savepoints : savepoints'[k] = savepoints[k]
    BY <1>1, <1>4
  <1>9. SizesCoverPages'
    <2> SUFFICES ASSUME NEW p \in Pages, NEW k \in DOMAIN savepoints'
                 PROVE  /\ p > savepoints'[k].size => committed[p] = Zero
                        /\ savepoints'[k].dirty[p] # Absent => p <= savepoints'[k].size
      BY <1>2 DEF StoreInv, SizesCoverPages, Held, Dirty, Cached
    <2>1. CASE k \in DOMAIN savepoints
      <3>1. savepoints'[k] = savepoints[k]
        BY <1>8, <2>1
      <3> QED
        BY <2>1, <3>1 DEF StoreInv, SizesCoverPages
    <2>2. CASE k \notin DOMAIN savepoints
      <3>1. savepoints'[k] = sp
        BY <1>8, <2>2
      <3> QED
        BY <1>4, <3>1 DEF StoreInv, SizesCoverPages
    <2> QED
      BY <2>1, <2>2
  <1>10. CleanAgree' /\ RecordsAreCommitted' /\ SettledFile' /\ ChangesAreJournaled'
         /\ WrittenSoFar' /\ FilesEndInZero' /\ SealedFirst'
    BY <1>2 DEF StoreInv, CleanAgree, RecordsAreCommitted, SettledFile, ChangesAreJournaled,
                WrittenSoFar, FilesEndInZero, SealedFirst, Cached, Dirty, InCache, OnDisk,
                Safe, Held, Settled, Idle, Undoing, Journaled, Unread
  <1> QED
    BY <1>7, <1>9, <1>10 DEF StoreInv, StoreStep, Store!Next

\* savepoint_release: the store's Release.
LEMMA SavepointReleaseKeepsStore ==
  ASSUME DirtyInv, StoreInv, state = "Writer", NEW k \in DOMAIN savepoints,
         SavepointRelease(k), UNCHANGED journal
  PROVE  StoreInv' /\ StoreStep
  <1>1. TypeOK /\ InTxn /\ savepoints \in Seq(Snapshots) /\ k \in 1..Len(savepoints)
    BY DEF DirtyInv, TypeOK, PagerTypeOK, InTxn
  <1>2. /\ savepoints' = SubSeq(savepoints, 1, k - 1)
        /\ UNCHANGED <<file, synced, cache, dirtyOrder, dbSize, state, call,
                       committed, committedSize, journal>>
    BY DEF SavepointRelease
  <1>3. k - 1 \in 0..Len(savepoints)
    BY <1>1
  <1>4. DOMAIN savepoints' = 1..(k - 1) /\ \A j \in 1..(k - 1) : savepoints'[j] = savepoints[j]
    BY <1>1, <1>2, SubSeqProperties
  <1>5. DOMAIN savepoints' \subseteq DOMAIN savepoints
    BY <1>1, <1>4
  <1>6. Store!Release(k)
    <2>1. Saves(savepoints') = SubSeq(Saves(savepoints), 1, k - 1)
      BY <1>1, <1>2, <1>3, SavesCut DEF TypeOK
    <2>2. UNCHANGED <<committed, InTxn, [p \in Pages |-> View(p).val]>>
      BY <1>2 DEF InTxn, View, Cached
    <2>3. k \in 1..Len(Saves(savepoints))
      BY <1>1, SavesType DEF TypeOK
    <2> QED
      BY <1>1, <1>2, <2>1, <2>2, <2>3, SavesFrame DEF Store!Release, Saves
  <1>7. k \in 1..Len([j \in DOMAIN savepoints |-> SavedValues(savepoints[j])])
    BY <1>1, SavesType DEF Saves
  <1>8. SizesCoverPages'
    BY <1>2, <1>4, <1>5 DEF StoreInv, SizesCoverPages, Held, Dirty, Cached
  <1>9. CleanAgree' /\ RecordsAreCommitted' /\ SettledFile' /\ ChangesAreJournaled'
        /\ WrittenSoFar' /\ FilesEndInZero' /\ SealedFirst'
    BY <1>2 DEF StoreInv, CleanAgree, RecordsAreCommitted, SettledFile, ChangesAreJournaled,
                WrittenSoFar, FilesEndInZero, SealedFirst, Cached, Dirty, InCache, OnDisk,
                Safe, Held, Settled, Idle, Undoing, Journaled, Unread
  <1> QED
    BY <1>6, <1>7, <1>8, <1>9 DEF StoreInv, StoreStep, Store!Next

\* savepoint_rollback: the store's RollbackTo.  What leaves the cache was
\* clean when the savepoint was opened, and so as committed; so is what the
\* snapshot does not hold.
LEMMA SavepointRollbackKeepsStore ==
  ASSUME DirtyInv, DirtyInv', StoreInv, state = "Writer", NEW k \in DOMAIN savepoints,
         SavepointRollback(k), UNCHANGED journal
  PROVE  StoreInv' /\ StoreStep
  <1> DEFINE sp == savepoints[k]
  <1>1. TypeOK /\ Idle /\ Settled /\ InTxn /\ savepoints \in Seq(Snapshots)
        /\ k \in 1..Len(savepoints) /\ dirtyOrder \in Seq(Pages)
    BY DEF DirtyInv, TypeOK, PagerTypeOK, SavepointRollback, Settled, InTxn
  <1>2. /\ savepoints' = SubSeq(savepoints, 1, k)
        /\ dbSize' = sp.size /\ state' = "Writer"
        /\ UNCHANGED <<file, synced, call, committed, committedSize, journal>>
    BY DEF SavepointRollback
  <1>3. DOMAIN savepoints' = 1..k /\ \A j \in 1..k : savepoints'[j] = savepoints[j]
    BY <1>1, <1>2, SubSeqProperties
  <1>4. DOMAIN savepoints' \subseteq DOMAIN savepoints
    BY <1>1, <1>3
  <1>5. ListInv /\ PagerTypeOK
    BY <1>1, DirtyInvLists DEF Idle, Undoing, TypeOK
  <1>6. ASSUME NEW p \in Pages
        PROVE  /\ Seen(p)' = SavedValues(sp)[p]
               /\ Dirty(p)' => sp.dirty[p] # Absent
               /\ Cached(p)' /\ ~Dirty(p)' => InCache(p)' = OnDisk(p)
    <2>1. SavedValues(sp)[p] = IF sp.dirty[p] = Absent THEN committed[p] ELSE sp.dirty[p].val
      BY DEF SavedValues
    <2>2. IF sp.dirty[p] = Absent
            THEN cache'[p] = Absent \/ (Cached(p) /\ ~Dirty(p) /\ cache'[p] = cache[p])
            ELSE cache'[p] # Absent /\ cache'[p].dirty /\ cache'[p].data = sp.dirty[p]
      BY <1>5, RolledBackSlot
    <2>3. OnDisk(p) = committed[p] /\ OnDisk(p)' = OnDisk(p)
      BY <1>1, <1>2 DEF StoreInv, SettledFile, OnDisk
    <2>4. Cached(p) /\ ~Dirty(p) => InCache(p) = OnDisk(p)
      BY DEF StoreInv, CleanAgree
    <2> HIDE DEF sp
    <2> QED
      BY <2>1, <2>2, <2>3, <2>4 DEF Seen, View, Cached, Dirty, InCache, OnDisk
  <1>7. Store!RollbackTo(k)
    <2>1. Saves(savepoints') = SubSeq(Saves(savepoints), 1, k)
      BY <1>1, <1>2, SavesCut DEF TypeOK
    <2>2. Saves(savepoints)[k] = SavedValues(sp) /\ k \in 1..Len(Saves(savepoints))
      BY <1>1, SavesType DEF TypeOK
    <2>3. [p \in Pages |-> View(p).val]' = SavedValues(sp)
      <3>1. [p \in Pages |-> View(p).val]' = [p \in Pages |-> Seen(p)']
        BY DEF Seen
      <3>2. SavedValues(sp) = [p \in Pages |-> SavedValues(sp)[p]]
        BY DEF SavedValues
      <3> HIDE DEF sp
      <3> QED
        BY <1>6, <3>1, <3>2
    <2>4. InTxn'
      BY <1>2 DEF InTxn
    <2> HIDE DEF sp
    <2> QED
      BY <1>1, <1>2, <2>1, <2>2, <2>3, <2>4, SavesFrame DEF Store!RollbackTo, Saves
  <1>8. k \in 1..Len([j \in DOMAIN savepoints |-> SavedValues(savepoints[j])])
    BY <1>1, SavesType DEF Saves
  <1>9. Settled' /\ Idle' /\ \A p \in Pages : OnDisk(p)' = OnDisk(p) /\ Safe(p)' = Safe(p)
    BY <1>1, <1>2 DEF Settled, Idle, OnDisk, Safe
  <1>10. CleanAgree' /\ RecordsAreCommitted' /\ SettledFile' /\ FilesEndInZero'
    BY <1>1, <1>2, <1>6, <1>9 DEF StoreInv, CleanAgree, RecordsAreCommitted, SettledFile,
                                   FilesEndInZero, Held
  <1>11. ChangesAreJournaled' /\ WrittenSoFar' /\ SealedFirst'
    BY <1>2, <1>9, <1>10 DEF SettledFile, ChangesAreJournaled, WrittenSoFar, SealedFirst, Idle
  <1>12. SizesCoverPages'
    BY <1>2, <1>3, <1>4, <1>6 DEF StoreInv, SizesCoverPages, Held
  <1> QED
    BY <1>7, <1>8, <1>10, <1>11, <1>12 DEF StoreInv, StoreStep, Store!Next

-----------------------------------------------------------------------------
\* Committing

\* Sealing the journal is what allows the file to change.
LEMMA SealJournalKeepsStore ==
  ASSUME DirtyInv, StoreInv, SealJournal
  PROVE  StoreInv' /\ StoreStep
  <1>1. TypeOK /\ InTxn /\ Held /\ ~Undoing /\ journal \in Journals
        /\ dirtyOrder \in Seq(Pages)
    BY DEF SealJournal, Idle, DirtyInv, TxnHasJournal, Undoing, TypeOK, PagerTypeOK
  <1>2. /\ call' = [op |-> "pages", at |-> 1]
        /\ UNCHANGED <<file, synced, cache, dirtyOrder, dbSize, state, savepoints,
                       committed, committedSize>>
    BY DEF SealJournal
  <1>3. /\ journal'.at = "held" /\ journal'.recs = journal.recs
        /\ journal'.start = journal.start /\ journal'.secured = Len(journal.recs)
    <2>1. PICK n \in Nat : n = Len(journal.recs)
      BY <1>1 DEF Journals
    <2>2. journal' = [journal EXCEPT !.secured = n, !.next = 1]
      BY <1>1, <2>1 DEF SealJournal, Sealed
    <2> QED
      BY <1>1, <2>1, <2>2 DEF Journals, Held
  <1>4. \A p \in Pages : /\ Dirty(p)' <=> Dirty(p)
                         /\ Cached(p)' <=> Cached(p)
                         /\ InCache(p)' = InCache(p)
                         /\ OnDisk(p)' = OnDisk(p) /\ Safe(p)' = Safe(p)
                         /\ Seen(p)' = Seen(p)
                         /\ Journaled(p, 1)' <=> Journaled(p, 1)
    BY <1>2, <1>3 DEF Dirty, Cached, InCache, OnDisk, Safe, Seen, View, Journaled
  <1>5. Unread = 1 /\ Unread' = 1
    BY <1>1, <1>2 DEF Unread, Undoing
  <1>6. CleanAgree' /\ RecordsAreCommitted' /\ FilesEndInZero'
    BY <1>1, <1>2, <1>3, <1>4
       DEF StoreInv, CleanAgree, RecordsAreCommitted, FilesEndInZero
  <1>7. SettledFile' /\ SealedFirst'
    BY <1>2, <1>3 DEF SettledFile, SealedFirst, Settled, Idle
  <1>8. ChangesAreJournaled'
    BY <1>1, <1>2, <1>3, <1>4, <1>5 DEF StoreInv, ChangesAreJournaled, Undoing, Held
  <1>9. WrittenSoFar'
    BY <1>1, <1>2 DEF WrittenSoFar, Idle
  <1>10. SizesCoverPages'
    BY <1>1, <1>2, <1>3, <1>4 DEF StoreInv, SizesCoverPages
  <1>11. StoreStep
    BY <1>2, <1>4, StoreStutters DEF InTxn
  <1> QED
    BY <1>6, <1>7, <1>8, <1>9, <1>10, <1>11 DEF StoreInv

\* Each dirty page is written after its record has been synced.
LEMMA WriteDirtyPageKeepsStore ==
  ASSUME DirtyInv, StoreInv, WriteDirtyPage
  PROVE  StoreInv' /\ StoreStep
  <1>1. TypeOK /\ InTxn /\ Held /\ ~Undoing /\ ~Idle /\ dirtyOrder \in Seq(Pages)
        /\ call.op = "pages" /\ journal.secured = Len(journal.recs)
    BY DEF WriteDirtyPage, DirtyInv, TxnHasJournal, Undoing, Idle, StoreInv, SealedFirst,
           TypeOK, PagerTypeOK
  <1>2. PICK at \in Nat : at = call.at /\ at \in DOMAIN dirtyOrder
    BY <1>1 DEF WriteDirtyPage
  <1>3. PICK p \in Pages :
          p = dirtyOrder[at] /\ file' = IF Dirty(p) THEN PWrite(file, p, cache[p].data) ELSE file
    BY <1>1, <1>2 DEF WriteDirtyPage
  <1>4. /\ call' = [op |-> "pages", at |-> at + 1]
        /\ UNCHANGED <<synced, cache, dirtyOrder, dbSize, state, savepoints,
                       committed, committedSize, journal>>
    BY <1>1, <1>2 DEF WriteDirtyPage, TypeOK, PagerTypeOK, Calls
  <1>5. \A q \in Pages : /\ Dirty(q)' <=> Dirty(q)
                         /\ Cached(q)' <=> Cached(q)
                         /\ InCache(q)' = InCache(q)
                         /\ Safe(q)' = Safe(q)
                         /\ Journaled(q, 1)' <=> Journaled(q, 1)
    BY <1>4 DEF Dirty, Cached, InCache, Safe, Journaled
  <1>6. ASSUME NEW q \in Pages
        PROVE  /\ OnDisk(q)' = IF q = p /\ Dirty(p) THEN InCache(p) ELSE OnDisk(q)
               /\ q > file'.len => OnDisk(q)' = Zero
    <2>1. CASE Dirty(p)
      <3>1. cache[p].data \in Contents
        BY <1>1, <2>1 DEF TypeOK, PagerTypeOK, Slots, Dirty, Cached
      <3> QED
        BY <1>1, <1>3, <2>1, <3>1, PWriteValues
           DEF TypeOK, PagerTypeOK, OnDisk, InCache, StoreInv, FilesEndInZero
    <2>2. CASE ~Dirty(p)
      BY <1>3, <2>2 DEF OnDisk, StoreInv, FilesEndInZero
    <2> QED
      BY <2>1, <2>2
  <1>7. \A q \in Pages : Seen(q)' = Seen(q)
    BY <1>4, <1>6 DEF Seen, View, Cached, Dirty, OnDisk, InCache
  <1>8. Unread = 1 /\ Unread' = 1
    BY <1>1, <1>4 DEF Unread
  <1>9. CleanAgree'
    BY <1>5, <1>6 DEF StoreInv, CleanAgree
  <1>10. RecordsAreCommitted' /\ SealedFirst' /\ SettledFile'
    BY <1>1, <1>4 DEF StoreInv, RecordsAreCommitted, SealedFirst, SettledFile, Settled, Idle, Held
  <1>11. ChangesAreJournaled'
    <2>1. Dirty(p) => Journaled(p, 1)
      BY <1>1, <1>8 DEF DirtyInv, DirtyAreJournaled
    <2> QED
      BY <1>1, <1>4, <1>5, <1>6, <1>8, <2>1 DEF StoreInv, ChangesAreJournaled, Undoing, Held
  <1>12. WrittenSoFar'
    <2> SUFFICES ASSUME NEW i \in DOMAIN dirtyOrder, i < at + 1, NEW q \in Pages,
                        q = dirtyOrder[i], Dirty(q)
                 PROVE  InCache(q) = OnDisk(q)'
      <3>1. \A i \in DOMAIN dirtyOrder : dirtyOrder[i] \in Pages
        BY <1>1
      <3> QED
        BY <1>4, <1>5, <3>1 DEF WrittenSoFar, Idle
    <2>1. i \in Nat
      BY <1>1
    <2>2. CASE i = at
      BY <1>3, <1>6, <2>1, <2>2
    <2>3. CASE i < at
      BY <1>1, <1>2, <1>6, <2>1, <2>3 DEF StoreInv, WrittenSoFar
    <2> QED
      BY <1>2, <2>1, <2>2, <2>3
  <1>13. SizesCoverPages'
    BY <1>4, <1>5 DEF StoreInv, SizesCoverPages, Held
  <1>14. FilesEndInZero'
    BY <1>4, <1>5, <1>6 DEF StoreInv, FilesEndInZero
  <1>15. StoreStep
    BY <1>4, <1>7, StoreStutters DEF InTxn
  <1> QED
    BY <1>9, <1>10, <1>11, <1>12, <1>13, <1>14, <1>15 DEF StoreInv

\* Once all dirty pages are written, whatever ensure_cached(1) does, the cache
\* holds the values of the file; patching the header changes no value.
LEMMA HeaderKeepsValues ==
  ASSUME DirtyInv, UpdateDbHeader, \A q \in Pages : Cached(q) => InCache(q) = OnDisk(q),
         FilesEndInZero, NEW q \in Pages
  PROVE  /\ Dirty(q)' <=> Dirty(q)
         /\ OnDisk(q)' = OnDisk(q)
         /\ Cached(q)' => InCache(q)' = OnDisk(q)
         /\ q > file'.len => OnDisk(q)' = Zero
  <1>1. TypeOK
    BY DEF DirtyInv
  <1>2. CASE UNCHANGED <<cache, file>>
    BY <1>2 DEF Dirty, Cached, OnDisk, InCache, FilesEndInZero
  <1>3. ASSUME NEW c \in Loaded(1),
               IF Magic(c[1].data)
                 THEN /\ cache' = [c EXCEPT ![1].data = Patched(@)]
                      /\ file' = PWrite(file, 1, Patched(c[1].data))
                 ELSE cache' = c /\ UNCHANGED file
        PROVE  /\ Dirty(q)' <=> Dirty(q)
               /\ OnDisk(q)' = OnDisk(q)
               /\ Cached(q)' => InCache(q)' = OnDisk(q)
               /\ q > file'.len => OnDisk(q)' = Zero
    <2>1. 1 \in Pages
      BY PagerConstants DEF Pages
    <2>2. c \in [Pages -> Slots] /\ c[1] # Absent
      BY <1>1, <2>1, LoadedType
    <2>3. ASSUME NEW r \in Pages
          PROVE  /\ c[r] # Absent => c[r].data.val = OnDisk(r)
                 /\ c[r] # Absent /\ c[r].dirty <=> Dirty(r)
      <3>1. SlotKept(c, r)
        BY <1>1, <2>1, LoadedKeepsSlots
      <3> QED
        BY <3>1 DEF SlotKept, Cached, InCache, Dirty
    <2>4. CASE Magic(c[1].data)
      <3>1. c[1] \in [data : Contents, dirty : BOOLEAN]
        BY <2>1, <2>2 DEF Slots
      <3>2. Patched(c[1].data) \in Contents /\ Patched(c[1].data).val = OnDisk(1)
        BY <1>1, <2>1, <2>2, <2>3, <3>1 DEF Patched, Contents, TypeOK, PagerTypeOK
      <3>3. /\ cache' = [c EXCEPT ![1] = [c[1] EXCEPT !.data = Patched(c[1].data)]]
            /\ file' = PWrite(file, 1, Patched(c[1].data))
        BY <1>3, <2>4
      <3>4. file \in Files
        BY <1>1 DEF TypeOK, PagerTypeOK
      <3>5. OnDisk(q)' = OnDisk(q) /\ (q > file'.len => OnDisk(q)' = Zero)
        BY <2>1, <3>2, <3>3, <3>4, PWriteValues DEF OnDisk, FilesEndInZero
      <3>6. CASE q # 1
        BY <2>2, <2>3, <3>3, <3>5, <3>6 DEF Dirty, Cached, InCache
      <3>7. CASE q = 1
        <4>1. cache'[1] = [c[1] EXCEPT !.data = Patched(c[1].data)]
          BY <2>1, <2>2, <3>3
        <4>2. cache'[1] \in [data : Contents, dirty : BOOLEAN]
              /\ cache'[1].data = Patched(c[1].data) /\ cache'[1].dirty = c[1].dirty
          BY <3>1, <3>2, <4>1
        <4>3. cache'[1] # Absent
          BY <4>2, PagerConstants
        <4> QED
          BY <2>1, <2>2, <2>3, <3>2, <3>5, <3>7, <4>2, <4>3 DEF Dirty, Cached, InCache
      <3> QED
        BY <3>5, <3>6, <3>7
    <2>5. CASE ~Magic(c[1].data)
      BY <1>3, <2>3, <2>5 DEF Dirty, Cached, InCache, OnDisk, FilesEndInZero
    <2> QED
      BY <2>4, <2>5
  <1> QED
    BY <1>2, <1>3 DEF UpdateDbHeader

\* update_db_header: the file is now what the connection sees.
LEMMA UpdateDbHeaderKeepsStore ==
  ASSUME DirtyInv, DirtyInv', StoreInv, UpdateDbHeader
  PROVE  StoreInv' /\ StoreStep
  <1>1. TypeOK /\ InTxn /\ Held /\ ~Undoing /\ ~Idle /\ dirtyOrder \in Seq(Pages)
        /\ call.op = "pages" /\ journal.secured = Len(journal.recs)
    BY DEF UpdateDbHeader, DirtyInv, TxnHasJournal, Undoing, Idle, StoreInv, SealedFirst,
           TypeOK, PagerTypeOK
  <1>2. /\ call'.op = "sync"
        /\ UNCHANGED <<synced, dirtyOrder, dbSize, state, savepoints,
                       committed, committedSize, journal>>
    BY <1>1 DEF UpdateDbHeader, TypeOK, PagerTypeOK, Calls
  <1>3. ASSUME NEW q \in Pages, Cached(q)
        PROVE  InCache(q) = OnDisk(q)
    <2>1. CASE ~Dirty(q)
      BY <1>3, <2>1 DEF StoreInv, CleanAgree
    <2>2. CASE Dirty(q)
      <3>1. PICK i \in 1..Len(dirtyOrder) : dirtyOrder[i] = q
        BY <1>1, <2>2 DEF DirtyInv, ListIsExact, ListsDirty, Front
      <3>2. i \in DOMAIN dirtyOrder /\ i < call.at
        BY <1>1, <3>1 DEF UpdateDbHeader, PagesDone, TypeOK, PagerTypeOK, Calls
      <3> QED
        BY <1>1, <2>2, <3>1, <3>2 DEF StoreInv, WrittenSoFar
    <2> QED
      BY <2>1, <2>2
  <1>4. FilesEndInZero
    BY DEF StoreInv
  <1>5. ASSUME NEW q \in Pages
        PROVE  /\ Dirty(q)' <=> Dirty(q)
               /\ OnDisk(q)' = OnDisk(q) /\ Safe(q)' = Safe(q)
               /\ Cached(q)' => InCache(q)' = OnDisk(q)
               /\ q > file'.len => OnDisk(q)' = Zero
               /\ Journaled(q, 1)' <=> Journaled(q, 1)
    BY <1>2, <1>3, <1>4, HeaderKeepsValues DEF Safe, Journaled
  <1>6. \A q \in Pages : Seen(q)' = Seen(q)
    BY <1>3, <1>5 DEF Seen, View, InCache, OnDisk
  <1>7. Unread = 1 /\ Unread' = 1
    BY <1>1, <1>2 DEF Unread
  <1>8. CleanAgree' /\ WrittenSoFar'
    BY <1>1, <1>2, <1>5 DEF CleanAgree, WrittenSoFar, Idle
  <1>9. RecordsAreCommitted' /\ SealedFirst' /\ SettledFile'
    BY <1>1, <1>2 DEF StoreInv, RecordsAreCommitted, SealedFirst, SettledFile, Settled, Idle, Held
  <1>10. ChangesAreJournaled'
    BY <1>1, <1>2, <1>5, <1>7 DEF StoreInv, ChangesAreJournaled, Undoing, Held
  <1>11. SizesCoverPages'
    BY <1>2, <1>5 DEF StoreInv, SizesCoverPages, Held
  <1>12. FilesEndInZero'
    BY <1>2, <1>4, <1>5 DEF FilesEndInZero
  <1>13. StoreStep
    BY <1>2, <1>6, StoreStutters DEF InTxn
  <1> QED
    BY <1>8, <1>9, <1>10, <1>11, <1>12, <1>13 DEF StoreInv

\* The sync makes it safe.
LEMMA SyncFileKeepsStore ==
  ASSUME DirtyInv, StoreInv, SyncFile
  PROVE  StoreInv' /\ StoreStep
  <1>1. InTxn /\ Held /\ ~Undoing /\ call.op = "sync" /\ journal.secured = Len(journal.recs)
    BY DEF SyncFile, DirtyInv, TxnHasJournal, Undoing, StoreInv, SealedFirst
  <1>2. /\ call' = [op |-> "none", at |-> 0] /\ state' = "WriterLocked" /\ synced' = file
        /\ UNCHANGED <<file, cache, dirtyOrder, dbSize, savepoints,
                       committed, committedSize, journal>>
    BY DEF SyncFile
  <1>3. \A q \in Pages : /\ Dirty(q)' <=> Dirty(q)
                         /\ Cached(q)' <=> Cached(q)
                         /\ InCache(q)' = InCache(q)
                         /\ OnDisk(q)' = OnDisk(q) /\ Safe(q)' = OnDisk(q)
                         /\ Seen(q)' = Seen(q)
                         /\ Journaled(q, 1)' <=> Journaled(q, 1)
    BY <1>2 DEF Dirty, Cached, InCache, OnDisk, Safe, Seen, View, Journaled
  <1>4. Unread = 1 /\ Unread' = 1 /\ ~Undoing'
    BY <1>1, <1>2 DEF Unread, Undoing
  <1>5. CleanAgree' /\ WrittenSoFar'
    BY <1>1, <1>2, <1>3 DEF StoreInv, CleanAgree, WrittenSoFar
  <1>6. RecordsAreCommitted' /\ SealedFirst' /\ SettledFile'
    BY <1>1, <1>2 DEF StoreInv, RecordsAreCommitted, SealedFirst, SettledFile, Settled, Held
  <1>7. ChangesAreJournaled'
    BY <1>1, <1>2, <1>3, <1>4 DEF StoreInv, ChangesAreJournaled, Held
  <1>8. SizesCoverPages'
    BY <1>2, <1>3 DEF StoreInv, SizesCoverPages, Held
  <1>9. FilesEndInZero'
    BY <1>2, <1>3 DEF StoreInv, FilesEndInZero
  <1>10. StoreStep
    BY <1>1, <1>2, <1>3, StoreStutters DEF InTxn
  <1> QED
    BY <1>5, <1>6, <1>7, <1>8, <1>9, <1>10 DEF StoreInv

\* An I/O error leaves a commit half-way; what it has written stays journaled.
LEMMA CommitPhaseOneFailsKeepsStore ==
  ASSUME DirtyInv, StoreInv, CommitPhaseOneFails
  PROVE  StoreInv' /\ StoreStep
  <1>1. InTxn /\ Held /\ ~Undoing /\ call.op \in {"pages", "sync"}
        /\ journal.secured = Len(journal.recs)
    BY DEF CommitPhaseOneFails, DirtyInv, TxnHasJournal, Undoing, StoreInv, SealedFirst
  <1>2. /\ call' = [op |-> "failed", at |-> 0]
        /\ UNCHANGED <<file, synced, cache, dirtyOrder, dbSize, state, savepoints,
                       committed, committedSize, journal>>
    BY DEF CommitPhaseOneFails
  <1>3. Unread = 1 /\ Unread' = 1 /\ ~Undoing' /\ ~Idle'
    BY <1>1, <1>2 DEF Unread, Undoing, Idle
  <1>4. CleanAgree' /\ RecordsAreCommitted' /\ FilesEndInZero' /\ SizesCoverPages'
    BY <1>2 DEF StoreInv, CleanAgree, RecordsAreCommitted, FilesEndInZero, SizesCoverPages,
                Cached, Dirty, InCache, OnDisk, Safe, Held
  <1>5. SettledFile' /\ WrittenSoFar' /\ SealedFirst'
    BY <1>1, <1>2, <1>3 DEF SettledFile, WrittenSoFar, SealedFirst, Settled
  <1>6. ChangesAreJournaled'
    BY <1>1, <1>2, <1>3 DEF StoreInv, ChangesAreJournaled, Held, Journaled, OnDisk, Safe,
                            Dirty, Cached
  <1>7. StoreStep
    BY <1>2, StoreStutters DEF InTxn, Seen, View, Cached
  <1> QED
    BY <1>4, <1>5, <1>6, <1>7 DEF StoreInv

\* commit_phase_two: the store's Commit.
LEMMA CommitPhaseTwoKeepsStore ==
  ASSUME DirtyInv, DirtyInv', StoreInv, state = "WriterLocked", CommitPhaseTwo
  PROVE  StoreInv' /\ StoreStep
  <1>1. TypeOK /\ TypeOK' /\ Idle /\ InTxn /\ ~Undoing /\ Unread = 1
    BY DEF CommitPhaseTwo, DirtyInv, InTxn, Undoing, Idle, Unread
  <1>2. /\ cache' = [p \in Pages |-> IF Cached(p) THEN Clean(cache[p].data) ELSE Absent]
        /\ committed' = [p \in Pages |-> View(p).val]
        /\ dirtyOrder' = <<>> /\ savepoints' = <<>> /\ state' = "Reader"
        /\ UNCHANGED <<file, synced, dbSize, call>>
    BY DEF CommitPhaseTwo
  <1>3. ~InTxn' /\ ~Held'
    BY <1>2 DEF InTxn, DirtyInv, TxnHasJournal
  <1>4. ASSUME NEW p \in Pages
        PROVE  /\ Seen(p) = OnDisk(p) /\ Safe(p) = OnDisk(p)
               /\ ~Dirty(p)'
               /\ Seen(p)' = Seen(p) /\ committed'[p] = Seen(p)
               /\ OnDisk(p)' = OnDisk(p) /\ Safe(p)' = Safe(p)
               /\ Cached(p)' => InCache(p)' = OnDisk(p)
    <2>1. Cached(p) => InCache(p) = OnDisk(p)
      BY <1>1 DEF StoreInv, WrittenSoFar
    <2>2. Seen(p) = OnDisk(p) /\ Safe(p) = OnDisk(p)
      BY <1>1, <2>1 DEF Seen, View, InCache, OnDisk, StoreInv, WrittenSoFar
    <2>3. CASE Cached(p)
      <3>1. cache'[p] = Clean(cache[p].data)
        BY <1>2, <2>3
      <3>2. cache'[p] # Absent /\ ~cache'[p].dirty /\ cache'[p].data = cache[p].data
        <4>1. cache[p].data \in Contents
          BY <1>1, <2>3 DEF TypeOK, PagerTypeOK, Slots, Cached
        <4> QED
          BY <3>1, <4>1, CleanInSlots DEF Clean
      <3> QED
        BY <1>2, <2>1, <2>2, <2>3, <3>2 DEF Seen, View, Cached, Dirty, InCache, OnDisk, Safe
    <2>4. CASE ~Cached(p)
      BY <1>2, <2>2, <2>4 DEF Seen, View, Cached, Dirty, OnDisk, Safe
    <2> QED
      BY <2>3, <2>4
  <1>5. ASSUME NEW p \in Pages, p > dbSize
        PROVE  Seen(p) = Zero
    <2>1. ~Dirty(p) /\ committed[p] = Zero
      BY <1>1, <1>5 DEF StoreInv, SizesCoverPages, TypeOK, PagerTypeOK, Pages
    <2>2. OnDisk(p) = committed[p]
      BY <1>1, <2>1 DEF StoreInv, ChangesAreJournaled
    <2> QED
      BY <1>4, <2>1, <2>2
  <1>6. CleanAgree' /\ RecordsAreCommitted' /\ SettledFile' /\ ChangesAreJournaled'
    BY <1>3, <1>4 DEF CleanAgree, RecordsAreCommitted, SettledFile, ChangesAreJournaled
  <1>7. WrittenSoFar' /\ SealedFirst'
    BY <1>1, <1>2 DEF WrittenSoFar, SealedFirst, Idle
  <1>8. SizesCoverPages'
    BY <1>2, <1>3, <1>4, <1>5 DEF SizesCoverPages
  <1>9. FilesEndInZero'
    BY <1>2, <1>4 DEF StoreInv, FilesEndInZero
  <1>10. Store!Commit
    <2>1. [p \in Pages |-> View(p).val]' = [p \in Pages |-> View(p).val]
      BY <1>4 DEF Seen
    <2>2. [k \in DOMAIN savepoints |-> SavedValues(savepoints[k])]' = <<>>
      BY <1>2, NoSavesLeft
    <2> QED
      BY <1>1, <1>2, <1>3, <2>1, <2>2 DEF Store!Commit
  <1> QED
    BY <1>6, <1>7, <1>8, <1>9, <1>10 DEF StoreInv, StoreStep, Store!Next

-----------------------------------------------------------------------------
\* Rolling back

\* rollback begins, or begins again: the whole journal is to be read.
LEMMA StartRollbackKeepsStore ==
  ASSUME DirtyInv, StoreInv, StartRollback
  PROVE  StoreInv' /\ StoreStep
  <1>1. InTxn /\ Held /\ call.op \in {"none", "failed", "undone"} /\ journal \in Journals
    BY DEF StartRollback, Idle, DirtyInv, TxnHasJournal, TypeOK
  <1>2. /\ call' = [op |-> "replay", at |-> 1]
        /\ journal'.at = journal.at /\ journal'.recs = journal.recs
        /\ journal'.start = journal.start /\ journal'.secured = journal.secured
        /\ UNCHANGED <<file, synced, cache, dirtyOrder, dbSize, state, savepoints,
                       committed, committedSize>>
    BY <1>1 DEF StartRollback, Journals
  <1>3. Unread = 1 /\ Unread' = 1 /\ Undoing' /\ ~Idle'
    BY <1>1, <1>2 DEF Unread, Undoing, Idle
  <1>4. \A p \in Pages : /\ Dirty(p)' <=> Dirty(p)
                         /\ Cached(p)' <=> Cached(p)
                         /\ InCache(p)' = InCache(p)
                         /\ OnDisk(p)' = OnDisk(p) /\ Safe(p)' = Safe(p)
                         /\ Seen(p)' = Seen(p)
                         /\ Journaled(p, 1)' <=> Journaled(p, 1)
    BY <1>2 DEF Dirty, Cached, InCache, OnDisk, Safe, Seen, View, Journaled
  <1>5. CleanAgree' /\ RecordsAreCommitted' /\ FilesEndInZero'
    BY <1>2, <1>4 DEF StoreInv, CleanAgree, RecordsAreCommitted, FilesEndInZero, Held
  <1>6. SettledFile' /\ WrittenSoFar'
    BY <1>2, <1>3 DEF SettledFile, WrittenSoFar, Settled
  <1>7. SealedFirst'
    BY <1>1, <1>2, <1>4 DEF StoreInv, SealedFirst
  <1>8. ChangesAreJournaled'
    BY <1>2, <1>3, <1>4 DEF StoreInv, ChangesAreJournaled, Held
  <1>9. SizesCoverPages'
    BY <1>2, <1>4 DEF StoreInv, SizesCoverPages, Held
  <1>10. StoreStep
    BY <1>2, <1>4, StoreStutters DEF InTxn
  <1> QED
    BY <1>5, <1>6, <1>7, <1>8, <1>9, <1>10 DEF StoreInv

\* A record played back is the store's UndoPage of its page.
LEMMA ReplayRecordKeepsStore ==
  ASSUME DirtyInv, DirtyInv', StoreInv, ReplayRecord
  PROVE  StoreInv' /\ StoreStep
  <1>1. TypeOK /\ InTxn /\ Held /\ Undoing /\ ~Idle /\ call.op = "replay"
        /\ call.at \in DOMAIN journal.recs
    BY DEF ReplayRecord, DirtyInv, TxnHasJournal, Undoing, Idle
  <1>2. PICK at \in Nat : at = call.at
    BY <1>1 DEF TypeOK, PagerTypeOK, Calls
  <1>3. journal.recs[at].intact
    BY <1>1, <1>2 DEF DirtyInv, DirtyAreJournaled
  <1>4. PICK p \in Pages, c \in Contents :
          /\ p = journal.recs[at].pgno /\ c = journal.recs[at].data
          /\ file' = PWrite(file, p, c) /\ cache' = Restored(p, c)
    BY <1>2, <1>3 DEF ReplayRecord
  <1>5. c.val = committed[p]
    BY <1>1, <1>2, <1>4 DEF StoreInv, RecordsAreCommitted
  <1>6. /\ call' = [op |-> "replay", at |-> at + 1]
        /\ UNCHANGED <<synced, dirtyOrder, dbSize, state, savepoints, committed,
                       committedSize, journal>>
    BY <1>1, <1>2 DEF ReplayRecord, TypeOK, PagerTypeOK, Calls
  <1>7. ASSUME NEW q \in Pages
        PROVE  /\ OnDisk(q)' = IF q = p THEN committed[p] ELSE OnDisk(q)
               /\ q > file'.len => q # p /\ q > file.len
               /\ Safe(q)' = Safe(q)
               /\ Journaled(q, 1)' <=> Journaled(q, 1)
    BY <1>1, <1>4, <1>5, <1>6, PWriteValues DEF OnDisk, Safe, Journaled, TypeOK, PagerTypeOK
  <1>8. ASSUME NEW q \in Pages
        PROVE  /\ Cached(q)' <=> Cached(q)
               /\ Dirty(q)' <=> Dirty(q) /\ q # p
               /\ InCache(q)' = IF q = p /\ Cached(p) THEN committed[p] ELSE InCache(q)
    <2>1. CASE Cached(p)
      <3>1. cache'[q] = IF q = p THEN Clean(c) ELSE cache[q]
        BY <1>1, <1>4, <2>1 DEF Restored, TypeOK, PagerTypeOK
      <3>2. Clean(c) # Absent /\ ~Clean(c).dirty /\ Clean(c).data = c
        BY CleanInSlots DEF Clean
      <3> QED
        BY <1>5, <2>1, <3>1, <3>2 DEF Cached, Dirty, InCache
    <2>2. CASE ~Cached(p)
      BY <1>4, <2>2 DEF Restored, Cached, Dirty, InCache
    <2> QED
      BY <2>1, <2>2
  <1>9. \A q \in Pages : Seen(q)' = IF q = p THEN committed[p] ELSE Seen(q)
    BY <1>7, <1>8 DEF Seen, View, OnDisk, InCache
  <1>10. Unread = at /\ Unread' = at + 1 /\ Undoing' /\ ~Idle'
    BY <1>1, <1>2, <1>6 DEF Unread, Undoing, Idle
  <1>11. CleanAgree'
    BY <1>7, <1>8 DEF StoreInv, CleanAgree
  <1>12. RecordsAreCommitted' /\ SettledFile' /\ WrittenSoFar' /\ SealedFirst'
    BY <1>1, <1>6, <1>10 DEF StoreInv, RecordsAreCommitted, SettledFile, WrittenSoFar,
                             SealedFirst, Settled, Held
  <1>13. ChangesAreJournaled'
    <2> SUFFICES ASSUME NEW q \in Pages
                 PROVE  /\ OnDisk(q)' # committed[q] \/ Safe(q)' # committed[q] =>
                             Held /\ journal.secured = Len(journal.recs) /\ Journaled(q, 1)
                        /\ OnDisk(q)' # committed[q] => Journaled(q, at + 1)
      BY <1>6, <1>7, <1>10 DEF ChangesAreJournaled, Held, Journaled
    <2>1. OnDisk(q)' # committed[q] => q # p /\ OnDisk(q) # committed[q]
      BY <1>7
    <2>2. ASSUME q # p, Journaled(q, at)
          PROVE  Journaled(q, at + 1)
      <3>1. PICK i \in DOMAIN journal.recs :
              i >= at /\ journal.recs[i].pgno = q /\ journal.recs[i].intact
        BY <2>2 DEF Journaled
      <3>2. i # at /\ i \in Nat
        BY <1>1, <1>4, <2>2, <3>1 DEF TypeOK, Journals
      <3> QED
        BY <3>1, <3>2 DEF Journaled
    <2> QED
      BY <1>7, <1>10, <2>1, <2>2 DEF StoreInv, ChangesAreJournaled
  <1>14. SizesCoverPages'
    BY <1>6, <1>8 DEF StoreInv, SizesCoverPages, Held
  <1>15. FilesEndInZero'
    BY <1>6, <1>7 DEF StoreInv, FilesEndInZero
  <1>16. Store!UndoPage(p)
    <2>1. [q \in Pages |-> View(q).val]'
            = [[q \in Pages |-> View(q).val] EXCEPT ![p] = committed[p]]
      BY <1>9 DEF Seen
    <2> QED
      BY <1>1, <1>6, <2>1 DEF Store!UndoPage, InTxn, SavedValues
  <1> QED
    BY <1>11, <1>12, <1>13, <1>14, <1>15, <1>16 DEF StoreInv, StoreStep, Store!Next

\* The end of a rollback: no record is left unread, so nothing differs from
\* the last commit.  The store's Rollback.
LEMMA FinishRollbackKeepsStore ==
  ASSUME DirtyInv, DirtyInv', StoreInv, FinishRollback
  PROVE  StoreInv' /\ StoreStep
  <1>1. TypeOK /\ InTxn /\ Held /\ call.op = "replay" /\ call.at = Len(journal.recs) + 1
    BY DEF FinishRollback, DirtyInv, TxnHasJournal
  <1>2. /\ synced' = file /\ dbSize' = journal.start /\ state' = "Reader"
        /\ dirtyOrder' = <<>> /\ savepoints' = <<>> /\ call' = [op |-> "none", at |-> 0]
        /\ UNCHANGED <<file, cache, committed, committedSize>>
    BY <1>1 DEF FinishRollback, SavedDbSize
  <1>3. ~InTxn' /\ ~Held'
    BY <1>2 DEF InTxn, DirtyInv, TxnHasJournal
  <1>4. PICK n \in Nat : n = Len(journal.recs) /\ DOMAIN journal.recs = 1..n
    BY <1>1 DEF TypeOK, Journals
  <1>5. \A p \in Pages : ~Journaled(p, Unread)
    BY <1>1, <1>4 DEF Journaled, Unread
  <1>6. ASSUME NEW p \in Pages
        PROVE  /\ OnDisk(p) = committed[p] /\ ~Dirty(p) /\ Seen(p) = committed[p]
               /\ Dirty(p)' <=> Dirty(p)
               /\ Cached(p)' <=> Cached(p)
               /\ InCache(p)' = InCache(p)
               /\ OnDisk(p)' = OnDisk(p) /\ Safe(p)' = OnDisk(p)
               /\ Seen(p)' = Seen(p)
    <2>1. OnDisk(p) = committed[p]
      BY <1>5 DEF StoreInv, ChangesAreJournaled
    <2>2. ~Dirty(p)
      BY <1>1, <1>5 DEF DirtyInv, DirtyAreJournaled
    <2>3. Seen(p) = committed[p]
      BY <2>1, <2>2 DEF StoreInv, CleanAgree, Seen, View, InCache, OnDisk
    <2> QED
      BY <1>2, <2>1, <2>2, <2>3 DEF Dirty, Cached, InCache, OnDisk, Safe, Seen, View
  <1>7. CleanAgree' /\ RecordsAreCommitted' /\ SettledFile' /\ ChangesAreJournaled'
    BY <1>2, <1>3, <1>6 DEF StoreInv, CleanAgree, RecordsAreCommitted, SettledFile,
                            ChangesAreJournaled
  <1>8. WrittenSoFar' /\ SealedFirst'
    BY <1>2 DEF WrittenSoFar, SealedFirst
  <1>9. SizesCoverPages'
    BY <1>1, <1>2, <1>3, <1>6 DEF StoreInv, SizesCoverPages
  <1>10. FilesEndInZero'
    BY <1>2, <1>6 DEF StoreInv, FilesEndInZero
  <1>11. Store!Rollback
    <2>1. [p \in Pages |-> View(p).val]' = committed
      <3>1. committed = [p \in Pages |-> committed[p]]
        BY <1>1 DEF TypeOK, PagerTypeOK
      <3>2. [p \in Pages |-> View(p).val]' = [p \in Pages |-> committed[p]]
        BY <1>6 DEF Seen
      <3> QED
        BY <3>1, <3>2
    <2> QED
      BY <1>1, <1>2, <1>3, <2>1, NoSavesLeft DEF Store!Rollback
  <1> QED
    BY <1>7, <1>8, <1>9, <1>10, <1>11 DEF StoreInv, StoreStep, Store!Next

\* A rollback that fails half-way leaves every change with a record still.
LEMMA RollbackFailsKeepsStore ==
  ASSUME DirtyInv, StoreInv, RollbackFails
  PROVE  StoreInv' /\ StoreStep
  <1>1. TypeOK /\ InTxn /\ Held /\ call.op = "replay"
    BY DEF RollbackFails, DirtyInv, TxnHasJournal
  <1>2. /\ call' = [op |-> "undone", at |-> 0]
        /\ UNCHANGED <<file, synced, cache, dirtyOrder, dbSize, state, savepoints,
                       committed, committedSize, journal>>
    BY DEF RollbackFails
  <1>3. Unread' = 1 /\ Undoing' /\ ~Idle'
    BY <1>2 DEF Unread, Undoing, Idle
  <1>4. CleanAgree' /\ RecordsAreCommitted' /\ FilesEndInZero' /\ SizesCoverPages'
    BY <1>2 DEF StoreInv, CleanAgree, RecordsAreCommitted, FilesEndInZero, SizesCoverPages,
                Cached, Dirty, InCache, OnDisk, Safe, Held
  <1>5. SettledFile' /\ WrittenSoFar' /\ SealedFirst'
    BY <1>1, <1>2, <1>3 DEF StoreInv, SettledFile, WrittenSoFar, SealedFirst, Settled
  <1>6. ChangesAreJournaled'
    BY <1>2, <1>3 DEF StoreInv, ChangesAreJournaled, Held, Journaled, OnDisk, Safe
  <1>7. StoreStep
    BY <1>2, StoreStutters DEF InTxn, Seen, View, Cached
  <1> QED
    BY <1>4, <1>5, <1>6, <1>7 DEF StoreInv

-----------------------------------------------------------------------------
\* Without crashes

\* The file a pager opens is all there is: the invariant holds of it.
LEMMA StoreInvInit == Init => StoreInv /\ Store!Init
  <1> SUFFICES ASSUME Init PROVE StoreInv /\ Store!Init
    OBVIOUS
  <1>1. PICK f \in InitFiles :
          Opened(f) /\ committed = Values(f) /\ committedSize = OpenSize(f)
    BY DEF Init
  <1>2. TypeOK /\ f \in Files
    BY <1>1, TypeInit, InitFilesType
  <1>3. PICK n \in 0..MaxPage, v \in [Pages -> Vals], headed \in Headed :
          f = [data |-> [p \in Pages |->
                 CASE p > n -> Blank
                   [] p = 1 /\ p <= n /\ headed -> [val |-> v[p], ndb |-> n]
                   [] OTHER -> [val |-> v[p], ndb |-> NoHdr]],
               len |-> n]
    BY <1>1 DEF InitFiles
  <1>4. \A p \in Pages : p > n => f.data[p].val = Zero
    BY <1>3 DEF Blank
  <1>5. dbSize = n /\ f.len = n
    <2>1. f.len = n /\ dbSize = OpenSize(f) /\ n \in Nat
      BY <1>1, <1>3, PagerConstants DEF Opened
    <2>2. n > 0 => f.data[1].ndb \in {n, NoHdr}
      <3> SUFFICES ASSUME n > 0 PROVE f.data[1].ndb \in {n, NoHdr}
        OBVIOUS
      <3>1. 1 \in Pages /\ ~(1 > n) /\ 1 <= n
        BY <2>1, PagerConstants DEF Pages
      <3>2. f.data[1] = IF headed THEN [val |-> v[1], ndb |-> n]
                                  ELSE [val |-> v[1], ndb |-> NoHdr]
        BY <1>3, <3>1
      <3> QED
        BY <3>2
    <2> QED
      BY <2>1, <2>2 DEF OpenSize, Magic
  <1>6. /\ file = f /\ synced = f /\ cache = [p \in Pages |-> Absent]
        /\ savepoints = <<>> /\ state = "Unlocked" /\ call.op = "none" /\ ~Held
        /\ committed = [p \in Pages |-> f.data[p].val]
    BY <1>1 DEF Init, Opened, Values, NoJournal, Held
  <1>7. \A p \in Pages : /\ ~Cached(p) /\ ~Dirty(p)
                         /\ OnDisk(p) = committed[p] /\ Safe(p) = committed[p]
                         /\ View(p).val = committed[p]
    BY <1>6 DEF Cached, Dirty, OnDisk, Safe, View
  <1>8. CleanAgree /\ RecordsAreCommitted /\ SettledFile /\ ChangesAreJournaled
    BY <1>6, <1>7 DEF CleanAgree, RecordsAreCommitted, SettledFile, ChangesAreJournaled
  <1>9. WrittenSoFar /\ SealedFirst
    BY <1>6 DEF WrittenSoFar, SealedFirst
  <1>10. SizesCoverPages /\ FilesEndInZero
    BY <1>4, <1>5, <1>6, <1>7 DEF SizesCoverPages, FilesEndInZero, OnDisk, Safe
  <1>11. Store!Init
    <2>1. committed \in [Pages -> Vals]
      BY <1>2 DEF TypeOK, PagerTypeOK
    <2>2. [p \in Pages |-> View(p).val] = committed
      BY <1>6, <1>7, <2>1
    <2>3. [k \in DOMAIN savepoints |-> SavedValues(savepoints[k])] = <<>>
      <3> DEFINE g == [k \in DOMAIN savepoints |-> SavedValues(savepoints[k])]
      <3>1. g = [k \in {} |-> g[k]]
        BY <1>6
      <3> HIDE DEF g
      <3>2. g = <<>>
        BY <3>1, NothingIsEmptySeq
      <3> QED
        BY <3>2 DEF g
    <2> QED
      BY <1>6, <2>1, <2>2, <2>3 DEF Store!Init, Store!Contents, InTxn
  <1> QED
    BY <1>8, <1>9, <1>10, <1>11 DEF StoreInv

\* A step that does nothing.
LEMMA StoreInvStutters ==
  ASSUME StoreInv, UNCHANGED vars
  PROVE  StoreInv' /\ StoreStep
  <1>1. StoreInv'
    BY DEF vars, pagerVars, StoreInv, CleanAgree, RecordsAreCommitted, SettledFile,
           ChangesAreJournaled, WrittenSoFar, SizesCoverPages, FilesEndInZero, SealedFirst,
           Cached, Dirty, InCache, OnDisk, Safe, Held, Settled, Idle, Undoing, Journaled, Unread
  <1>2. StoreStep
    BY StoreStutters DEF vars, pagerVars, InTxn, Seen, View, Cached
  <1> QED
    BY <1>1, <1>2

\* Every step of a pager, a failing call included, keeps the invariant and is
\* a step of the store.
LEMMA StoreInvStep ==
  ASSUME DirtyInv, DirtyInv', StoreInv, [Next \/ CallFails]_vars
  PROVE  StoreInv' /\ StoreStep
  <1>1. CASE Read
    BY <1>1, ReadKeepsStore
  <1>2. CASE BeginWrite
    BY <1>2, BeginWriteKeepsStore
  <1>3. CASE Write
    BY <1>3, WriteKeepsStore
  <1>4. CASE Nest
    BY <1>4, OpenSavepointKeepsStore, SavepointReleaseKeepsStore, SavepointRollbackKeepsStore
       DEF Nest
  <1>5. CASE CommitStep
    BY <1>5, SealJournalKeepsStore, WriteDirtyPageKeepsStore, UpdateDbHeaderKeepsStore,
       SyncFileKeepsStore, CommitPhaseTwoKeepsStore DEF CommitStep
  <1>6. CASE RollbackStep
    BY <1>6, StartRollbackKeepsStore, ReplayRecordKeepsStore, FinishRollbackKeepsStore
       DEF RollbackStep
  <1>7. CASE CallFails
    BY <1>7, WriteAccessFailsKeepsStore, CommitPhaseOneFailsKeepsStore, RollbackFailsKeepsStore
       DEF CallFails
  <1>8. CASE UNCHANGED vars
    BY <1>8, StoreInvStutters
  <1> QED
    BY <1>1, <1>2, <1>3, <1>4, <1>5, <1>6, <1>7, <1>8 DEF Next

\* The pager is a transactional page store: what its callers see of
\* begin_write, write_access, the savepoints, commit and rollback is what
\* PageStore says, however the caller orders the phases of a commit, and
\* whether the database has a header or not.
THEOREM PagerIsPageStore == Spec => ImplementsPageStore
  <1>1. DirtyInv /\ DirtyInv' /\ StoreInv /\ [Next]_vars => StoreInv' /\ StoreStep
    BY StoreInvStep
  <1>2. Spec => []DirtyInv
    BY DirtyInvInit, DirtyInvStep, NextIsFaultNext, PTL DEF Spec
  <1> QED
    BY <1>1, <1>2, StoreInvInit, PTL DEF Spec, ImplementsPageStore, Store!Spec, StoreStep

\* The same of a caller whose commit is one call.
THEOREM CommittingPagerIsPageStore == CommitSpec => ImplementsPageStore
  <1>1. CommitSpec => Spec
    BY NextIsFaultNext, PTL DEF CommitSpec, Spec
  <1> QED
    BY <1>1, PagerIsPageStore

-----------------------------------------------------------------------------
\* Crashes

\* No page anywhere starts with DB_MAGIC; then Pager::open goes by the length
\* of the file.
Headless ==
  /\ \A p \in Pages : /\ ~Magic(file.data[p]) /\ ~Magic(synced.data[p])
                      /\ Cached(p) => ~Magic(cache[p].data)
  /\ \A i \in DOMAIN journal.recs : ~Magic(journal.recs[i].data)
  /\ \A k \in DOMAIN savepoints, p \in Pages :
       savepoints[k].dirty[p] # Absent => ~Magic(savepoints[k].dirty[p])

\* The files that callers who write no header start from.
LEMMA HeadlessInit == Init /\ Headed \subseteq {FALSE} => Headless
  <1> SUFFICES ASSUME Init, Headed \subseteq {FALSE} PROVE Headless
    OBVIOUS
  <1>1. PICK f \in InitFiles :
          Opened(f) /\ committed = Values(f) /\ committedSize = OpenSize(f)
    BY DEF Init
  <1>2. PICK n \in 0..MaxPage, v \in [Pages -> Vals], headed \in Headed :
          f = [data |-> [p \in Pages |->
                 CASE p > n -> Blank
                   [] p = 1 /\ p <= n /\ headed -> [val |-> v[p], ndb |-> n]
                   [] OTHER -> [val |-> v[p], ndb |-> NoHdr]],
               len |-> n]
    BY <1>1 DEF InitFiles
  <1>3. ASSUME NEW p \in Pages
        PROVE  ~Magic(f.data[p])
    <2>1. f.data[p] = Blank \/ f.data[p] = [val |-> v[p], ndb |-> NoHdr]
      BY <1>2
    <2> QED
      BY <2>1 DEF Magic, Blank
  <1>4. file = f /\ synced = f /\ cache = [p \in Pages |-> Absent]
        /\ savepoints = <<>> /\ journal.recs = <<>>
    BY <1>1 DEF Init, Opened, NoJournal
  <1> QED
    BY <1>3, <1>4 DEF Headless, Cached

\* The caches the pager brings pages into.
LEMMA LoadedHeadless ==
  ASSUME TypeOK, Headless, NEW p \in Pages, NEW c \in Writable(p), NEW q \in Pages
  PROVE  c[q] # Absent => ~Magic(c[q].data)
  <1>1. CASE c \in Loaded(p)
    <2>1. c[q] = cache[q] \/ c[q] = Absent \/ c[q] = Clean(file.data[q])
      BY <1>1, LoadedSlots
    <2>2. Clean(file.data[q]).data = file.data[q]
      BY DEF Clean
    <2> QED
      BY <2>1, <2>2 DEF Headless, Cached
  <1>2. CASE c = MadeUp(p)
    <2>1. c[q] = cache[q] \/ c[q] = Clean(Blank)
      BY <1>2 DEF MadeUp, TypeOK, PagerTypeOK
    <2>2. ~Magic(Clean(Blank).data)
      BY DEF Clean, Blank, Magic
    <2> QED
      BY <2>1, <2>2 DEF Headless, Cached
  <1> QED
    BY <1>1, <1>2 DEF Writable

\* A file with a page without header written to it.
LEMMA PWriteHeadless ==
  ASSUME NEW f \in Files, NEW p \in Pages, NEW c \in Contents, NEW q \in Pages,
         ~Magic(c), ~Magic(f.data[q])
  PROVE  ~Magic(PWrite(f, p, c).data[q])
  BY DEF PWrite, Files

\* write_access of a page without header.
LEMMA WriteAccessHeadless ==
  ASSUME DirtyInv, Headless, Idle, state = "Writer", NEW p \in Pages, NEW c \in Contents,
         WriteAccess(p, c), ~Magic(c)
  PROVE  Headless'
  <1>1. PICK before \in Writable(p) :
          /\ Modify(before, p, c)
          /\ IF before[p].dirty THEN UNCHANGED journal
                                ELSE JournalPage(p, before[p].data)
    BY DEF WriteAccess
  <1>2. TypeOK /\ before \in [Pages -> Slots] /\ before[p] # Absent /\ journal \in Journals
    BY WritableType DEF DirtyInv, TypeOK
  <1>3. /\ cache' = [before EXCEPT ![p] = [data |-> c, dirty |-> TRUE]]
        /\ UNCHANGED <<file, synced, savepoints>>
    BY <1>1 DEF Modify
  <1>4. \A q \in Pages : Cached(q)' => ~Magic(cache'[q].data)
    BY <1>2, <1>3, LoadedHeadless DEF Cached
  <1>5. \A i \in DOMAIN journal'.recs : ~Magic(journal'.recs[i].data)
    <2>1. CASE UNCHANGED journal
      BY <2>1 DEF Headless
    <2>2. CASE JournalPage(p, before[p].data) /\ journal.next = 0 /\ Held
      <3> DEFINE rec == [pgno |-> p, data |-> before[p].data, intact |-> TRUE]
      <3>1. journal' = [journal EXCEPT !.recs = Append(@, rec)]
        BY <1>2, <2>2 DEF JournalPage, Journals
      <3>2. journal'.recs = Append(journal.recs, rec)
        BY <1>2, <3>1 DEF Journals
      <3>3. ~Magic(rec.data)
        BY <1>2, LoadedHeadless
      <3>4. journal.recs \in Seq(JournalRecs)
        BY <1>2 DEF Journals
      <3> HIDE DEF rec
      <3>5. \A i \in DOMAIN journal'.recs :
              journal'.recs[i] = rec \/ (i \in DOMAIN journal.recs
                                         /\ journal'.recs[i] = journal.recs[i])
        BY <3>2, <3>4
      <3> QED
        BY <3>3, <3>5 DEF Headless
    <2>3. journal.next = 0 /\ Held
      BY DEF DirtyInv, DirtyAreJournaled, TxnHasJournal, InTxn
    <2> QED
      BY <1>1, <2>1, <2>2, <2>3
  <1> QED
    BY <1>3, <1>4, <1>5 DEF Headless

\* Every step keeps pages without header that way: the pager patches a header
\* and never makes one.
LEMMA HeadlessStep ==
  ASSUME DirtyInv, DirtyInv', Headless, [FaultNext]_vars
  PROVE  Headless'
  <1>0. TypeOK /\ journal \in Journals /\ file \in Files /\ synced \in Files
        /\ cache \in [Pages -> Slots] /\ savepoints \in Seq(Snapshots)
        /\ dirtyOrder \in Seq(Pages)
    BY DEF DirtyInv, TypeOK, PagerTypeOK
  <1>1. CASE Read
    <2>1. PICK p \in Pages : Acquire(p)
      BY <1>1 DEF Read
    <2>2. \A q \in Pages : Cached(q)' => ~Magic(cache'[q].data)
      <3>1. ASSUME NEW q \in Pages
            PROVE  cache'[q] = cache[q] \/ cache'[q] = Absent \/ cache'[q] = Clean(file.data[q])
        BY <1>0, <2>1, LoadedSlots DEF Acquire
      <3>2. \A q \in Pages : Clean(file.data[q]).data = file.data[q]
        BY DEF Clean
      <3> QED
        BY <3>1, <3>2 DEF Headless, Cached
    <2> QED
      BY <2>1, <2>2 DEF Acquire, Headless
  <1>2. CASE BeginWrite
    BY <1>2 DEF BeginWrite, NoJournal, Headless, Cached
  <1>3. CASE Write
    <2>1. PICK p \in Pages :
            (\E v \in Vals : WriteValue(p, v)) \/ (\E q \in Pages : MovePage(q, p))
      BY <1>3 DEF Write
    <2>2. \A q \in Pages : View(q) \in Contents /\ ~Magic(View(q))
      BY <1>0, ViewInContents DEF Headless, View, Cached
    <2>3. CASE \E v \in Vals : WriteValue(p, v)
      <3>1. PICK v \in Vals : WriteAccess(p, [View(p) EXCEPT !.val = v])
        BY <2>3 DEF WriteValue
      <3>2. [View(p) EXCEPT !.val = v] \in Contents /\ ~Magic([View(p) EXCEPT !.val = v])
        BY <2>2 DEF Contents, Magic
      <3> QED
        BY <1>3, <3>1, <3>2, WriteAccessHeadless DEF Write
    <2>4. CASE \E q \in Pages : MovePage(q, p)
      <3>1. PICK q \in Pages : Cached(q) /\ WriteAccess(p, cache[q].data)
        BY <2>4 DEF MovePage
      <3>2. cache[q].data \in Contents /\ ~Magic(cache[q].data)
        BY <2>2, <3>1 DEF View
      <3> QED
        BY <1>3, <3>1, <3>2, WriteAccessHeadless DEF Write
    <2> QED
      BY <2>1, <2>3, <2>4
  <1>4. CASE Nest
    <2>1. UNCHANGED <<file, synced, journal>>
      BY <1>4 DEF Nest, OpenSavepoint, SavepointRollback, SavepointRelease
    <2>2. CASE OpenSavepoint
      <3> DEFINE sp == [dirty |-> [p \in Pages |->
                   IF (\E i \in DOMAIN dirtyOrder : dirtyOrder[i] = p) /\ Cached(p)
                     THEN cache[p].data ELSE Absent],
                 n |-> Len(dirtyOrder), size |-> dbSize]
      <3>1. savepoints' = Append(savepoints, sp) /\ UNCHANGED cache
        BY <2>2 DEF OpenSavepoint
      <3>2. \A p \in Pages : sp.dirty[p] # Absent => ~Magic(sp.dirty[p])
        BY DEF Headless, Cached
      <3> HIDE DEF sp
      <3>3. \A k \in DOMAIN savepoints' :
              savepoints'[k] = sp \/ (k \in DOMAIN savepoints /\ savepoints'[k] = savepoints[k])
        BY <1>0, <3>1
      <3> QED
        BY <2>1, <3>1, <3>2, <3>3 DEF Headless, Cached
    <2>3. ASSUME NEW k \in DOMAIN savepoints, SavepointRelease(k)
          PROVE  Headless'
      <3>1. k \in 1..Len(savepoints) /\ savepoints' = SubSeq(savepoints, 1, k - 1) /\ UNCHANGED cache
        BY <1>0, <2>3 DEF SavepointRelease
      <3>2. \A j \in DOMAIN savepoints' : j \in DOMAIN savepoints /\ savepoints'[j] = savepoints[j]
        BY <1>0, <3>1, SubSeqProperties
      <3> QED
        BY <2>1, <3>1, <3>2 DEF Headless, Cached
    <2>4. ASSUME NEW k \in DOMAIN savepoints, SavepointRollback(k)
          PROVE  Headless'
      <3>1. k \in 1..Len(savepoints) /\ savepoints' = SubSeq(savepoints, 1, k)
        BY <1>0, <2>4 DEF SavepointRollback
      <3>2. \A j \in DOMAIN savepoints' : j \in DOMAIN savepoints /\ savepoints'[j] = savepoints[j]
        BY <1>0, <3>1, SubSeqProperties
      <3>3. ASSUME NEW p \in Pages
            PROVE  \/ cache'[p] = Absent \/ cache'[p] = cache[p]
                   \/ /\ savepoints[k].dirty[p] # Absent
                      /\ cache'[p].data = savepoints[k].dirty[p]
        <4>1. cache'[p] =
                CASE p \in DirtiedAfter(savepoints[k]) \/ ~Cached(p) -> Absent
                  [] p \notin DirtiedAfter(savepoints[k]) /\ Cached(p)
                       /\ savepoints[k].dirty[p] # Absent
                       -> [data |-> savepoints[k].dirty[p], dirty |-> TRUE]
                  [] OTHER -> cache[p]
          BY <2>4 DEF SavepointRollback
        <4> QED
          BY <4>1
      <3>4. \A p \in Pages : Cached(p)' => ~Magic(cache'[p].data)
        BY <3>3 DEF Headless, Cached
      <3> QED
        BY <2>1, <3>2, <3>4 DEF Headless
    <2> QED
      BY <1>4, <2>2, <2>3, <2>4 DEF Nest
  <1>5. CASE SealJournal \/ StartRollback
    <2>1. journal'.recs = journal.recs
      <3>1. PICK n \in Nat : n = Len(journal.recs)
        BY <1>0 DEF Journals
      <3>2. Sealed = [journal EXCEPT !.secured = n, !.next = 1]
        BY <3>1 DEF Sealed
      <3> QED
        BY <1>0, <1>5, <3>2 DEF SealJournal, StartRollback, Journals
    <2> QED
      BY <1>5, <2>1 DEF SealJournal, StartRollback, Headless, Cached
  <1>6. CASE WriteDirtyPage
    <2>1. dirtyOrder[call.at] \in Pages
      BY <1>0, <1>6, ElementOfSeq DEF WriteDirtyPage
    <2>2. PICK p \in Pages :
            file' = IF Dirty(p) THEN PWrite(file, p, cache[p].data) ELSE file
      BY <1>6, <2>1 DEF WriteDirtyPage
    <2>3. \A q \in Pages : ~Magic(file'.data[q])
      BY <1>0, <2>2, PWriteHeadless DEF Headless, Dirty, Cached, Slots
    <2> QED
      BY <1>6, <2>3 DEF WriteDirtyPage, Headless, Cached
  <1>7. CASE UpdateDbHeader
    <2>1. 1 \in Pages
      BY PagerConstants DEF Pages
    <2>2. CASE UNCHANGED <<cache, file>>
      BY <1>7, <2>2 DEF UpdateDbHeader, Headless, Cached
    <2>3. ASSUME NEW c \in Loaded(1), ~Magic(c[1].data), cache' = c, UNCHANGED file
          PROVE  Headless'
      <3>1. ASSUME NEW q \in Pages
            PROVE  c[q] = cache[q] \/ c[q] = Absent \/ c[q] = Clean(file.data[q])
        BY <1>0, <2>1, LoadedSlots
      <3>2. \A q \in Pages : Clean(file.data[q]).data = file.data[q]
        BY DEF Clean
      <3>3. \A q \in Pages : Cached(q)' => ~Magic(cache'[q].data)
        BY <2>3, <3>1, <3>2 DEF Headless, Cached
      <3> QED
        BY <1>7, <2>3, <3>3 DEF UpdateDbHeader, Headless
    <2>4. \A c \in Loaded(1) : ~Magic(c[1].data)
      BY <1>0, <2>1, LoadedIsView DEF Headless, View
    <2> QED
      BY <1>7, <2>2, <2>3, <2>4 DEF UpdateDbHeader
  <1>8. CASE SyncFile \/ CommitPhaseOneFails \/ RollbackFails \/ UNCHANGED vars
    BY <1>8 DEF SyncFile, CommitPhaseOneFails, RollbackFails, vars, pagerVars, Headless, Cached
  <1>9. CASE CommitPhaseTwo
    <2>1. \A p \in Pages : \/ cache'[p] = Absent
                           \/ Cached(p) /\ cache'[p].data = cache[p].data
      BY <1>9 DEF CommitPhaseTwo, Clean
    <2>2. \A p \in Pages : Cached(p)' => ~Magic(cache'[p].data)
      BY <2>1 DEF Headless, Cached
    <2>3. \A i \in DOMAIN journal'.recs : ~Magic(journal'.recs[i].data)
      BY <1>9 DEF CommitPhaseTwo, NoJournal, Headless
    <2> QED
      BY <1>9, <2>2, <2>3 DEF CommitPhaseTwo, Headless
  <1>10. CASE ReplayRecord
    <2>1. PICK p \in Pages, c \in Contents :
            /\ c = journal.recs[call.at].data
            /\ file' = PWrite(file, p, c) /\ cache' = Restored(p, c)
      <3>1. journal.recs[call.at].intact
        BY <1>10 DEF ReplayRecord, DirtyInv, DirtyAreJournaled, TxnHasJournal
      <3> QED
        BY <1>10, <3>1 DEF ReplayRecord
    <2>2. ~Magic(c)
      BY <1>10, <2>1 DEF ReplayRecord, Headless
    <2>3. \A q \in Pages : ~Magic(file'.data[q])
      BY <1>0, <2>1, <2>2, PWriteHeadless DEF Headless
    <2>4. \A q \in Pages : cache'[q] = cache[q] \/ cache'[q] = Clean(c)
      BY <1>0, <2>1 DEF Restored
    <2>5. \A q \in Pages : Cached(q)' => ~Magic(cache'[q].data)
      BY <2>2, <2>4 DEF Headless, Cached, Clean
    <2> QED
      BY <1>10, <2>3, <2>5 DEF ReplayRecord, Headless
  <1>11. CASE FinishRollback
    <2>1. \A i \in DOMAIN journal'.recs : ~Magic(journal'.recs[i].data)
      BY <1>11 DEF FinishRollback, NoJournal, Headless
    <2> QED
      BY <1>11, <2>1 DEF FinishRollback, Headless, Cached
  <1>12. ASSUME NEW p \in Pages, WriteAccessFails(p)
         PROVE  Headless'
    <2>1. \A q \in Pages : Cached(q)' => ~Magic(cache'[q].data)
      BY <1>0, <1>12, LoadedHeadless DEF WriteAccessFails, Cached
    <2> QED
      BY <1>12, <2>1 DEF WriteAccessFails, Headless
  <1>13. CASE Crash
    <2>1. PICK f \in PowerLoss(file, synced) : ReopenedAs(f, OpenSize(f))
      BY <1>13 DEF Crash
    <2>2. \A p \in Pages : f.data[p] = file.data[p] \/ f.data[p] = synced.data[p]
      BY DEF PowerLoss
    <2>3. \A i \in DOMAIN journal'.recs : ~Magic(journal'.recs[i].data)
      <3>1. CASE UNCHANGED journal
        BY <3>1 DEF Headless
      <3>2. ASSUME NEW n \in journal.secured..Len(journal.recs),
                   journal' = [journal EXCEPT !.at = "left", !.next = 0, !.torn = FALSE,
                                              !.recs = SubSeq(@, 1, n), !.secured = n]
            PROVE  \A i \in DOMAIN journal'.recs : ~Magic(journal'.recs[i].data)
        <4>1. journal.recs \in Seq(JournalRecs) /\ n \in Nat /\ n <= Len(journal.recs)
          BY <1>0 DEF Journals
        <4>2. journal'.recs = SubSeq(journal.recs, 1, n)
          BY <1>0, <3>2 DEF Journals
        <4>3. \A i \in DOMAIN journal'.recs : i \in DOMAIN journal.recs
                                              /\ journal'.recs[i] = journal.recs[i]
          BY <4>1, <4>2, SubSeqProperties
        <4> QED
          BY <4>3 DEF Headless
      <3> QED
        BY <1>13, <3>1, <3>2 DEF Crash
    <2> QED
      BY <2>1, <2>2, <2>3 DEF ReopenedAs, Headless, Cached
  <1> QED
    BY <1>1, <1>2, <1>3, <1>4, <1>5, <1>6, <1>7, <1>8, <1>9, <1>10, <1>11, <1>12, <1>13
       DEF FaultNext, Next, CommitStep, RollbackStep, CallFails

\* The process stops between calls, and whatever the power loss keeps of the
\* unsynced writes is as committed: the store's Crash.
LEMMA CrashKeepsStore ==
  ASSUME DirtyInv, DirtyInv', StoreInv, Headless, Settled, Crash
  PROVE  StoreInv' /\ StoreStep
  <1>1. TypeOK /\ TypeOK'
    BY DEF DirtyInv
  <1>2. PICK f \in PowerLoss(file, synced) : ReopenedAs(f, OpenSize(f))
    BY DEF Crash
  <1>3. PICK kept \in SUBSET Pages, n \in synced.len..file.len :
          f = [data |-> [p \in Pages |-> IF p \in kept /\ p <= n THEN file.data[p]
                                                                 ELSE synced.data[p]],
               len |-> n]
    BY DEF PowerLoss
  <1>4. /\ file' = f /\ synced' = f /\ cache' = [p \in Pages |-> Absent]
        /\ dbSize' = OpenSize(f) /\ state' = "Unlocked" /\ savepoints' = <<>>
        /\ call' = [op |-> "none", at |-> 0] /\ UNCHANGED committed
    BY <1>2 DEF ReopenedAs
  <1>5. ~InTxn' /\ ~Held'
    BY <1>4 DEF InTxn, DirtyInv, TxnHasJournal
  <1>6. n \in Nat /\ synced.len \in 0..MaxPage /\ file.len \in 0..MaxPage /\ synced.len <= n
    BY <1>1, PagerConstants DEF TypeOK, PagerTypeOK, Files
  <1>7. dbSize' = n /\ f.len = n
    <2>1. n > 0 => ~Magic(f.data[1])
      <3> SUFFICES ASSUME n > 0 PROVE ~Magic(f.data[1])
        OBVIOUS
      <3>1. 1 \in Pages
        BY PagerConstants DEF Pages
      <3>2. f.data[1] = file.data[1] \/ f.data[1] = synced.data[1]
        BY <1>3, <3>1
      <3> QED
        BY <3>1, <3>2 DEF Headless
    <2> QED
      BY <1>3, <1>4, <1>6, <2>1 DEF OpenSize
  <1>8. ASSUME NEW p \in Pages
        PROVE  /\ f.data[p].val = committed[p]
               /\ p > n => committed[p] = Zero
    <2>1. OnDisk(p) = committed[p] /\ Safe(p) = committed[p]
      BY DEF StoreInv, SettledFile
    <2>2. f.data[p].val = committed[p]
      BY <1>3, <2>1 DEF OnDisk, Safe
    <2>3. p > n => p > synced.len
      BY <1>6 DEF Pages
    <2> QED
      BY <2>1, <2>2, <2>3 DEF StoreInv, FilesEndInZero
  <1>9. \A p \in Pages : /\ ~Cached(p)' /\ ~Dirty(p)'
                         /\ OnDisk(p)' = committed[p] /\ Safe(p)' = committed[p]
                         /\ View(p)'.val = committed[p]
    BY <1>4, <1>8 DEF Cached, Dirty, OnDisk, Safe, View
  <1>10. CleanAgree' /\ RecordsAreCommitted' /\ SettledFile' /\ ChangesAreJournaled'
    BY <1>4, <1>5, <1>9 DEF CleanAgree, RecordsAreCommitted, SettledFile, ChangesAreJournaled
  <1>11. WrittenSoFar' /\ SealedFirst'
    BY <1>4 DEF WrittenSoFar, SealedFirst
  <1>12. SizesCoverPages' /\ FilesEndInZero'
    BY <1>4, <1>5, <1>7, <1>8, <1>9 DEF SizesCoverPages, FilesEndInZero
  <1>13. Store!Crash
    <2>1. [p \in Pages |-> View(p).val]' = committed
      <3>1. committed = [p \in Pages |-> committed[p]]
        BY <1>1 DEF TypeOK, PagerTypeOK
      <3> QED
        BY <1>9, <3>1
    <2> QED
      BY <1>4, <1>5, <2>1, NoSavesLeft DEF Store!Crash
  <1> QED
    BY <1>10, <1>11, <1>12, <1>13 DEF StoreInv, StoreStep, Store!Next

\* With all faults, of databases without header.
AllInv == DirtyInv /\ StoreInv /\ Headless

\* Every step of a pager that meets faults keeps all three invariants.
LEMMA AllInvStep == AllInv /\ [FaultNext]_vars => AllInv' /\ StoreStep
  <1> SUFFICES ASSUME AllInv, [FaultNext]_vars PROVE AllInv' /\ StoreStep
    OBVIOUS
  <1>1. DirtyInv /\ StoreInv /\ Headless
    BY DEF AllInv
  <1>2. DirtyInv'
    BY <1>1, DirtyInvStep
  <1>3. Headless'
    BY <1>1, <1>2, HeadlessStep
  <1>4. CASE [Next \/ CallFails]_vars
    BY <1>1, <1>2, <1>3, <1>4, StoreInvStep DEF AllInv
  <1>5. CASE Settled /\ Crash
    BY <1>1, <1>2, <1>3, <1>5, CrashKeepsStore DEF AllInv
  <1> QED
    BY <1>4, <1>5 DEF FaultNext

\* The three together hold throughout.
LEMMA AllInvariant ==
  ASSUME Headed \subseteq {FALSE}
  PROVE  FaultSpec => []AllInv
  <1>1. Init => AllInv
    BY DirtyInvInit, StoreInvInit, HeadlessInit DEF AllInv
  <1> QED
    BY <1>1, AllInvStep, PTL DEF FaultSpec

\* With I/O errors, retries, and crashes between calls, the pager is still a
\* transactional page store, where the store may lose an open transaction.
\* The database file has no header: files that this pager makes have none.
THEOREM FaultyPagerIsPageStore ==
  ASSUME Headed \subseteq {FALSE}
  PROVE  FaultSpec => ImplementsPageStore
  <1>1. Init => Store!Init
    BY StoreInvInit
  <1> QED
    BY <1>1, AllInvariant, AllInvStep, PTL
       DEF FaultSpec, ImplementsPageStore, Store!Spec, StoreStep

\* The values of pages decide their contents when there are no headers.
LEMMA HeadlessEqual ==
  ASSUME NEW c \in Contents, NEW d \in Contents, ~Magic(c), ~Magic(d), c.val = d.val
  PROVE  c = d
  BY DEF Contents, Magic

\* A clean page in the cache is what the file holds, through failed commits,
\* rollbacks and evictions.
THEOREM CleanPagesAreOnDisk ==
  ASSUME Headed \subseteq {FALSE}
  PROVE  FaultSpec => []CleanPagesMatchFile
  <1>1. ASSUME AllInv PROVE CleanPagesMatchFile
    <2> SUFFICES ASSUME NEW p \in Pages, Cached(p), ~cache[p].dirty
                 PROVE  cache[p].data = file.data[p]
      BY DEF CleanPagesMatchFile
    <2>1. TypeOK /\ CleanAgree /\ Headless
      BY <1>1 DEF AllInv, DirtyInv, StoreInv
    <2>2. cache[p].data \in Contents /\ file.data[p] \in Contents
      BY <2>1 DEF TypeOK, PagerTypeOK, Slots, Files, Cached
    <2>3. cache[p].data.val = file.data[p].val
      BY <2>1 DEF CleanAgree, Dirty, InCache, OnDisk
    <2> QED
      BY <2>1, <2>2, <2>3, HeadlessEqual DEF Headless
  <1> QED
    BY <1>1, AllInvariant, PTL

\* A database opened again, after whatever crash between calls, serves what
\* was last committed.
THEOREM ReopeningServesCommitted ==
  ASSUME Headed \subseteq {FALSE}
  PROVE  FaultSpec => []ReopenServesCommitted
  <1>1. ASSUME AllInv PROVE ReopenServesCommitted
    <2> SUFFICES ASSUME state = "Unlocked", NEW p \in Pages
                 PROVE  View(p).val = committed[p]
      BY DEF ReopenServesCommitted
    <2>1. DirtyInv /\ StoreInv
      BY <1>1 DEF AllInv
    <2>2. ~InTxn /\ Settled
      BY <2>1 DEF InTxn, Settled, Idle, DirtyInv, TxnHasJournal
    <2>3. ~Dirty(p)
      BY <2>1, <2>2, NothingDirtyOutsideTxn
    <2> QED
      BY <2>1, <2>2, <2>3, CleanIsCommitted DEF Seen
  <1> QED
    BY <1>1, AllInvariant, PTL

\* At any moment of a commit or a rollback, whatever a power loss keeps,
\* playing back the journal that is left gives every page its committed value.
THEOREM HotJournalsRecover ==
  ASSUME Headed \subseteq {FALSE}
  PROVE  FaultSpec => []HotJournalRecovers
  <1>1. ASSUME AllInv PROVE HotJournalRecovers
    <2>1. DirtyInv /\ StoreInv /\ journal \in Journals
      BY <1>1 DEF AllInv, DirtyInv, TypeOK
    <2> SUFFICES ASSUME NEW n \in journal.secured..Len(journal.recs), NEW p \in Pages
                 PROVE  LET ofPage == {i \in 1..n : journal.recs[i].pgno = p}
                            last == CHOOSE i \in ofPage : \A j \in ofPage : j <= i
                        IN IF journal.at = "held" /\ ofPage # {}
                             THEN /\ journal.recs[last].data.val = committed[p]
                                  /\ journal.recs[last].intact
                             ELSE {file.data[p].val, synced.data[p].val} = {committed[p]}
      BY DEF HotJournalRecovers
    <2> DEFINE ofPage == {i \in 1..n : journal.recs[i].pgno = p}
               last == CHOOSE i \in ofPage : \A j \in ofPage : j <= i
    <2>2. n \in Nat /\ n <= Len(journal.recs) /\ DOMAIN journal.recs = 1..Len(journal.recs)
          /\ Len(journal.recs) \in Nat /\ journal.secured <= n
      BY <2>1 DEF Journals
    <2>3. CASE journal.at = "held" /\ ofPage # {}
      <3>1. \E i \in ofPage : \A j \in ofPage : j <= i
        <4>1. ofPage \in SUBSET (1..n)
          OBVIOUS
        <4> HIDE DEF ofPage
        <4> QED
          BY <2>2, <2>3, <4>1, LastExists
      <3>2. last \in ofPage
        BY <3>1
      <3> HIDE DEF last
      <3>3. last \in DOMAIN journal.recs /\ journal.recs[last].pgno = p
        BY <2>2, <3>2
      <3>4. Held /\ InTxn
        BY <2>1, <2>3 DEF Held, DirtyInv, TxnHasJournal
      <3>5. journal.recs[last].data.val = committed[p] /\ journal.recs[last].intact
        BY <2>1, <3>3, <3>4 DEF StoreInv, RecordsAreCommitted, DirtyInv, DirtyAreJournaled
      <3> QED
        BY <2>3, <3>5 DEF last
    <2>4. CASE ~(journal.at = "held" /\ ofPage # {})
      <3>1. ASSUME Held, journal.secured = Len(journal.recs), Journaled(p, 1)
            PROVE  FALSE
        <4>1. PICK i \in DOMAIN journal.recs : journal.recs[i].pgno = p
          BY <3>1 DEF Journaled
        <4>2. i \in ofPage
          BY <2>2, <3>1, <4>1
        <4> QED
          BY <2>4, <3>1, <4>2 DEF Held
      <3>2. OnDisk(p) = committed[p] /\ Safe(p) = committed[p]
        BY <2>1, <3>1 DEF StoreInv, ChangesAreJournaled
      <3> QED
        BY <2>4, <3>2 DEF OnDisk, Safe
    <2> QED
      BY <2>3, <2>4
  <1> QED
    BY <1>1, AllInvariant, PTL

-----------------------------------------------------------------------------
\* The size in the header, for a caller that commits in one call

\* The size that page 1 records, in the file and in the cache.
OnDiskSize == file.data[1].ndb
InCacheSize == cache[1].data.ndb

\* From the start of commit_phase_one to the end of commit_phase_two.
Committing == call.op \in {"pages", "sync"} \/ state = "WriterLocked"

\* A commit that is under way gets to its end.
CommitsInOneCall ==
  /\ call.op \in {"none", "pages", "sync", "replay"}
  /\ state = "WriterLocked" => Idle

\* No size that db_size has, or can be given back, is below the committed one.
SizesGrow ==
  InTxn => /\ committedSize <= dbSize
           /\ \A k \in DOMAIN savepoints : committedSize <= savepoints[k].size

\* A clean page 1 in the cache, and every record of page 1 in the journal, has
\* the header of the file.
CleanHeader == Cached(1) /\ ~Dirty(1) => InCacheSize = OnDiskSize
RecordHeaders ==
  \A i \in DOMAIN journal.recs :
    journal.recs[i].pgno = 1 => journal.recs[i].data.ndb = OnDiskSize

\* Unless a commit is under way, a header in the file has the committed size.
HeaderSettled ==
  ~Committing => /\ OnDiskSize \in {NoHdr, committedSize}
                 /\ committedSize = 0 => OnDiskSize = NoHdr
                 /\ CleanHeader /\ RecordHeaders

\* A commit has written page 1 when it comes to the header, and once it has
\* patched the header the new size is in the file and in the cache.
HeaderWritten ==
  /\ dbSize = 0 => OnDiskSize = NoHdr
  /\ call.op = "pages" /\ Cached(1) =>
       \/ InCacheSize = OnDiskSize
       \/ Dirty(1) /\ \E i \in DOMAIN dirtyOrder : i >= call.at /\ dirtyOrder[i] = 1
  /\ call.op = "sync" \/ state = "WriterLocked" =>
       /\ OnDiskSize \in {NoHdr, dbSize}
       /\ Cached(1) => InCacheSize = OnDiskSize

\* The inductive invariant, together with DirtyInv, SizeInv and StoreInv.
HeaderInv == CommitsInOneCall /\ SizesGrow /\ HeaderSettled /\ HeaderWritten

-----------------------------------------------------------------------------
\* What keeps the header as it is

\* No operation gives db_size back below what it was at the last commit.
LEMMA SizesGrowStep ==
  ASSUME DirtyInv, SizeInv, SizesGrow, [CommitNext]_vars
  PROVE  SizesGrow'
  <1> USE DEF DirtyInv, SizesGrow
  <1>1. TypeOK /\ dbSize \in 0..MaxPage /\ committedSize \in 0..MaxPage
        /\ savepoints \in Seq(Snapshots) /\ MaxPage \in Nat
    BY PagerConstants DEF TypeOK, PagerTypeOK
  <1>2. CASE Read
    BY <1>2 DEF Read, Acquire, InTxn
  <1>3. CASE BeginWrite
    BY <1>1, <1>3 DEF BeginWrite, TxnHasJournal, SizeInv
  <1>4. CASE Write
    <2>1. PICK p, c, before : p \in Pages /\ InTxn /\ Modify(before, p, c)
      BY <1>4 DEF Write, WriteValue, MovePage, WriteAccess
    <2> QED
      BY <1>1, <2>1 DEF Modify, Larger, Pages, InTxn
  <1>5. CASE state = "Writer" /\ OpenSavepoint
    <2>1. PICK sp : savepoints' = Append(savepoints, sp) /\ sp.size = dbSize
      BY <1>5 DEF OpenSavepoint
    <2>2. UNCHANGED <<state, dbSize, committedSize>> /\ InTxn
      BY <1>5 DEF OpenSavepoint, InTxn
    <2> QED
      BY <1>1, <2>1, <2>2
  <1>6. ASSUME NEW k \in DOMAIN savepoints, InTxn, SavepointRollback(k)
        PROVE  SizesGrow'
    <2>1. /\ dbSize' = savepoints[k].size /\ savepoints' = SubSeq(savepoints, 1, k)
          /\ committedSize' = committedSize
      BY <1>6 DEF SavepointRollback
    <2> QED
      BY <1>1, <1>6, <2>1
  <1>7. ASSUME NEW k \in DOMAIN savepoints, InTxn, SavepointRelease(k)
        PROVE  SizesGrow'
    <2>1. savepoints' = SubSeq(savepoints, 1, k - 1) /\ UNCHANGED <<dbSize, committedSize>>
      BY <1>7 DEF SavepointRelease
    <2>2. \A i \in DOMAIN savepoints' : i \in DOMAIN savepoints /\ savepoints'[i] = savepoints[i]
      BY <1>1, <2>1
    <2> QED
      BY <1>7, <2>1, <2>2
  <1>8. CASE SealJournal \/ WriteDirtyPage \/ UpdateDbHeader \/ SyncFile
    BY <1>8 DEF SealJournal, WriteDirtyPage, UpdateDbHeader, SyncFile, TxnHasJournal
  <1>9. CASE CommitPhaseTwo \/ FinishRollback
    BY <1>9 DEF CommitPhaseTwo, FinishRollback, InTxn
  <1>10. CASE StartRollback \/ ReplayRecord
    BY <1>10 DEF StartRollback, ReplayRecord, InTxn
  <1>11. CASE UNCHANGED vars
    BY <1>11 DEF vars, pagerVars, InTxn
  <1> QED
    BY <1>2, <1>3, <1>4, <1>5, <1>6, <1>7, <1>8, <1>9, <1>10, <1>11
       DEF CommitNext, Next, Nest, CommitStep, RollbackStep, InTxn

\* A step that is no part of a commit, and leaves the header in the file alone.
LEMMA QuietStep ==
  ASSUME DirtyInv', SizeInv', SizesGrow', HeaderInv, ~Committing,
         call'.op \in {"none", "replay"}, state' # "WriterLocked",
         UNCHANGED <<committedSize, OnDiskSize>>,
         CleanHeader', RecordHeaders'
  PROVE  HeaderInv'
  <1>1. dbSize' \in 0..MaxPage /\ committedSize' \in 0..MaxPage
    BY DEF DirtyInv, TypeOK, PagerTypeOK
  <1>2. dbSize' = 0 => committedSize = 0
    BY <1>1, PagerConstants DEF SizeInv, SizesGrow
  <1> QED
    BY <1>2 DEF HeaderInv, HeaderSettled, HeaderWritten, CommitsInOneCall, Committing

\* write_access and acquire find page 1 with the header it has in the file: a
\* page 1 that is made up, as the first of the database, has none.
LEMMA WritableHeader ==
  ASSUME TypeOK, HeaderInv, ~Committing, NEW p \in Pages, NEW c \in Loaded(p) \cup Writable(p),
         c[1] # Absent, ~c[1].dirty
  PROVE  c[1].data.ndb = OnDiskSize
  <1> USE DEF HeaderInv
  <1>1. 1 \in Pages /\ (p > dbSize /\ p = 1 => dbSize = 0) /\ dbSize \in Int
    BY PagerConstants DEF Pages, TypeOK, PagerTypeOK
  <1>2. CASE c[1] = cache[1]
    BY <1>2 DEF HeaderSettled, CleanHeader, Cached, Dirty, InCacheSize
  <1>3. CASE c \in Loaded(p) /\ c[1] # cache[1]
    <2>1. c[1] = Clean(file.data[1])
      BY <1>1, <1>3, LoadedSlots
    <2> QED
      BY <2>1 DEF Clean, OnDiskSize
  <1>4. CASE p > dbSize /\ c = MadeUp(p) /\ c[1] # cache[1]
    <2>1. p = 1 /\ c[1] = Clean(Blank)
      BY <1>1, <1>4 DEF MadeUp, TypeOK, PagerTypeOK
    <2> QED
      BY <1>1, <1>4, <2>1 DEF Clean, Blank, HeaderWritten
  <1> QED
    BY <1>1, <1>2, <1>3, <1>4 DEF Writable, Pages

\* acquire
LEMMA ReadKeepsHeader ==
  ASSUME DirtyInv, DirtyInv', SizeInv', SizesGrow', HeaderInv, ~Committing, Read
  PROVE  HeaderInv'
  <1>1. PICK p \in Pages : Acquire(p)
    BY DEF Read
  <1>2. /\ cache' \in Loaded(p)
        /\ UNCHANGED <<file, call, state, committedSize, journal>>
    BY <1>1 DEF Acquire
  <1>3. CleanHeader'
    BY <1>2, WritableHeader DEF CleanHeader, Cached, Dirty, InCacheSize, OnDiskSize, DirtyInv
  <1>4. RecordHeaders' /\ UNCHANGED OnDiskSize
    BY <1>2 DEF HeaderInv, HeaderSettled, RecordHeaders, OnDiskSize
  <1> QED
    BY <1>2, <1>3, <1>4, QuietStep DEF HeaderInv, CommitsInOneCall, Committing

\* begin_write
LEMMA BeginWriteKeepsHeader ==
  ASSUME DirtyInv, DirtyInv', SizeInv', SizesGrow', HeaderInv, ~Committing, BeginWrite
  PROVE  HeaderInv'
  <1>1. /\ call.op = "none" /\ state' = "Writer" /\ journal'.recs = <<>>
        /\ UNCHANGED <<file, cache, call, committedSize>>
    BY DEF BeginWrite, NoJournal, Idle
  <1>2. CleanHeader' /\ RecordHeaders' /\ UNCHANGED OnDiskSize
    BY <1>1 DEF HeaderInv, HeaderSettled, CleanHeader, RecordHeaders, Cached, Dirty,
                InCacheSize, OnDiskSize
  <1> QED
    BY <1>1, <1>2, QuietStep

\* write_access and move_page: a record of page 1, if one is appended, has the
\* header of the file.
LEMMA WriteKeepsHeader ==
  ASSUME DirtyInv, DirtyInv', SizeInv', SizesGrow', HeaderInv, ~Committing, Write
  PROVE  HeaderInv'
  <1>1. Idle /\ state = "Writer" /\ TypeOK /\ journal \in Journals /\ journal.next = 0
    BY DEF Write, DirtyInv, TypeOK, DirtyAreJournaled, InTxn
  <1>2. PICK p, before, c :
          /\ p \in Pages /\ before \in Writable(p)
          /\ Modify(before, p, c)
          /\ IF before[p].dirty THEN UNCHANGED journal
                                ELSE JournalPage(p, before[p].data)
    BY DEF Write, WriteValue, MovePage, WriteAccess
  <1>3. before \in [Pages -> Slots] /\ before[p] # Absent
    BY <1>1, <1>2, WritableType
  <1>4. /\ cache' = [before EXCEPT ![p] = [data |-> c, dirty |-> TRUE]]
        /\ UNCHANGED <<file, state, call, committedSize>>
    BY <1>2 DEF Modify
  <1>5. 1 \in Pages /\ UNCHANGED OnDiskSize
    BY <1>4, PagerConstants DEF Pages, OnDiskSize
  <1>6. CleanHeader'
    <2>1. CASE p = 1
      BY <1>2, <1>3, <1>4, <2>1 DEF CleanHeader, Dirty
    <2>2. CASE p # 1
      <3>1. cache'[1] = before[1]
        BY <1>3, <1>4, <1>5, <2>2
      <3> QED
        BY <1>1, <1>2, <1>5, <3>1, WritableHeader DEF CleanHeader, Cached, Dirty, InCacheSize
    <2> QED
      BY <2>1, <2>2
  <1>7. RecordHeaders'
    <2>1. CASE UNCHANGED journal
      BY <1>5, <2>1 DEF HeaderInv, HeaderSettled, RecordHeaders
    <2>2. CASE /\ ~before[p].dirty
               /\ journal' = [journal EXCEPT
                    !.recs = Append(@, [pgno |-> p, data |-> before[p].data, intact |-> TRUE])]
      <3>1. p = 1 => before[p].data.ndb = OnDiskSize
        BY <1>1, <1>2, <1>3, <2>2, WritableHeader
      <3>2. journal'.recs
              = Append(journal.recs, [pgno |-> p, data |-> before[p].data, intact |-> TRUE])
        BY <1>1, <2>2 DEF Journals
      <3>3. journal.recs \in Seq(JournalRecs)
        BY <1>1 DEF Journals
      <3>4. \A i \in DOMAIN journal'.recs :
              \/ i \in DOMAIN journal.recs /\ journal'.recs[i] = journal.recs[i]
              \/ journal'.recs[i] = [pgno |-> p, data |-> before[p].data, intact |-> TRUE]
        BY <3>2, <3>3
      <3> QED
        BY <1>5, <3>1, <3>4 DEF HeaderInv, HeaderSettled, RecordHeaders
    <2>3. CASE ~before[p].dirty /\ JournalPage(p, before[p].data)
      <3>1. Len(journal.recs) \in Nat /\ DOMAIN journal.recs = 1..Len(journal.recs)
        BY <1>1 DEF Journals
      <3> QED
        BY <1>1, <2>1, <2>2, <2>3, <3>1 DEF JournalPage
    <2> QED
      BY <1>2, <2>1, <2>3
  <1> QED
    BY <1>1, <1>4, <1>5, <1>6, <1>7, QuietStep DEF Idle

\* The savepoints: savepoint_rollback drops page 1 from the cache, or makes it
\* dirty again.
LEMMA NestKeepsHeader ==
  ASSUME DirtyInv, DirtyInv', SizeInv', SizesGrow', HeaderInv, ~Committing, Nest
  PROVE  HeaderInv'
  <1>1. /\ call.op = "none" /\ state' = "Writer"
        /\ UNCHANGED <<file, call, committedSize, journal>>
    BY DEF Nest, OpenSavepoint, SavepointRollback, SavepointRelease, Idle
  <1>2. 1 \in Pages
    BY PagerConstants DEF Pages
  <1>3. cache'[1] = cache[1] \/ cache'[1] = Absent \/ cache'[1].dirty
    <2>1. CASE \E k \in DOMAIN savepoints : SavepointRollback(k)
      BY <1>2, <2>1 DEF SavepointRollback
    <2>2. CASE UNCHANGED cache
      BY <2>2
    <2> QED
      BY <2>1, <2>2 DEF Nest, OpenSavepoint, SavepointRelease
  <1>4. CleanHeader' /\ RecordHeaders' /\ UNCHANGED OnDiskSize
    BY <1>1, <1>3 DEF HeaderInv, HeaderSettled, CleanHeader, RecordHeaders, Cached, Dirty,
                      InCacheSize, OnDiskSize
  <1> QED
    BY <1>1, <1>4, QuietStep

\* A rollback writes page 1 back with the header it has in the file.
LEMMA RollbackKeepsHeader ==
  ASSUME DirtyInv, DirtyInv', SizeInv', SizesGrow', HeaderInv, ~Committing, RollbackStep
  PROVE  HeaderInv'
  <1>1. TypeOK /\ journal \in Journals /\ call \in Calls
    BY DEF DirtyInv, TypeOK, PagerTypeOK
  <1>2. CASE StartRollback
    <2>1. /\ call'.op = "replay" /\ journal'.recs = journal.recs
          /\ UNCHANGED <<file, cache, state, committedSize>>
      BY <1>1, <1>2 DEF StartRollback, Journals
    <2>2. CleanHeader' /\ RecordHeaders' /\ UNCHANGED OnDiskSize
      BY <2>1 DEF HeaderInv, HeaderSettled, CleanHeader, RecordHeaders, Cached, Dirty,
                  InCacheSize, OnDiskSize
    <2> QED
      BY <2>1, <2>2, QuietStep DEF Committing
  <1>3. CASE ReplayRecord
    <2>1. /\ call.op = "replay" /\ call'.op = "replay" /\ InTxn /\ call.at \in DOMAIN journal.recs
          /\ UNCHANGED <<state, committedSize, journal>>
      BY <1>1, <1>3 DEF ReplayRecord, Calls, DirtyInv, TxnHasJournal
    <2>2. PICK p \in Pages, c \in Contents :
            /\ p = journal.recs[call.at].pgno /\ c = journal.recs[call.at].data
            /\ file' = PWrite(file, p, c) /\ cache' = Restored(p, c)
      BY <1>3, <2>1 DEF ReplayRecord, DirtyInv, DirtyAreJournaled
    <2>3. 1 \in Pages /\ file \in Files /\ cache \in [Pages -> Slots]
      BY <1>1, PagerConstants DEF Pages, TypeOK, PagerTypeOK
    <2>4. p = 1 => c.ndb = OnDiskSize
      BY <2>1, <2>2 DEF HeaderInv, HeaderSettled, RecordHeaders
    <2>5. UNCHANGED OnDiskSize
      <3>1. file'.data = [file.data EXCEPT ![p] = c]
        BY <2>2 DEF PWrite
      <3>2. file.data \in [Pages -> Contents]
        BY <2>3 DEF Files
      <3> QED
        BY <2>3, <2>4, <3>1, <3>2 DEF OnDiskSize
    <2>6. CleanHeader'
      <3>1. cache'[1] = cache[1] \/ (p = 1 /\ cache'[1] = Clean(c))
        BY <2>2, <2>3 DEF Restored
      <3>2. Clean(c).data = c
        BY DEF Clean
      <3> QED
        BY <2>4, <2>5, <3>1, <3>2
           DEF HeaderInv, HeaderSettled, CleanHeader, Cached, Dirty, InCacheSize
    <2>7. RecordHeaders'
      BY <2>1, <2>5 DEF HeaderInv, HeaderSettled, RecordHeaders
    <2> QED
      BY <2>1, <2>5, <2>6, <2>7, QuietStep DEF Committing
  <1>4. CASE FinishRollback
    <2>1. /\ call'.op = "none" /\ state' = "Reader" /\ journal' = NoJournal
          /\ UNCHANGED <<file, cache, committedSize>>
      BY <1>4 DEF FinishRollback, DirtyInv, TxnHasJournal
    <2>2. CleanHeader' /\ RecordHeaders' /\ UNCHANGED OnDiskSize
      BY <2>1 DEF HeaderInv, HeaderSettled, CleanHeader, RecordHeaders, Cached, Dirty,
                  InCacheSize, OnDiskSize, NoJournal
    <2> QED
      BY <2>1, <2>2, QuietStep
  <1> QED
    BY <1>2, <1>3, <1>4 DEF RollbackStep

-----------------------------------------------------------------------------
\* What a commit does to the header

\* commit_phase_one begins: page 1 is as in the file, or is one of those to write.
LEMMA SealJournalKeepsHeader ==
  ASSUME DirtyInv, SizesGrow', HeaderInv, ~Committing, SealJournal
  PROVE  HeaderInv'
  <1>1. /\ call' = [op |-> "pages", at |-> 1] /\ state # "WriterLocked"
        /\ UNCHANGED <<file, cache, dirtyOrder, dbSize, state>>
    BY DEF SealJournal, Committing
  <1>2. ~Undoing /\ 1 \in Pages /\ dirtyOrder \in Seq(Pages)
    BY PagerConstants
       DEF SealJournal, Idle, Undoing, Pages, DirtyInv, TypeOK, PagerTypeOK
  <1>3. Dirty(1) => \E i \in DOMAIN dirtyOrder : i >= 1 /\ dirtyOrder[i] = 1
    BY <1>2 DEF DirtyInv, ListIsExact, ListsDirty, Front
  <1>4. UNCHANGED <<OnDiskSize, InCacheSize, Dirty(1), Cached(1)>>
    BY <1>1 DEF OnDiskSize, InCacheSize, Dirty, Cached
  <1>5. HeaderWritten'
    BY <1>1, <1>3, <1>4 DEF HeaderInv, HeaderSettled, CleanHeader, HeaderWritten
  <1> QED
    BY <1>1, <1>5 DEF HeaderInv, HeaderSettled, CommitsInOneCall, Committing

\* The loop over dirty_order writes page 1 when it comes to it.
LEMMA WriteDirtyPageKeepsHeader ==
  ASSUME DirtyInv, StoreInv, SizesGrow', HeaderInv, state # "WriterLocked", WriteDirtyPage
  PROVE  HeaderInv'
  <1>1. /\ TypeOK /\ file \in Files /\ cache \in [Pages -> Slots] /\ call \in Calls
        /\ dirtyOrder \in Seq(Pages) /\ dbSize \in 0..MaxPage
    BY DEF DirtyInv, TypeOK, PagerTypeOK
  <1>2. PICK at \in Nat : at = call.at
    BY <1>1 DEF Calls
  <1>3. /\ call.op = "pages" /\ call' = [op |-> "pages", at |-> at + 1]
        /\ at \in DOMAIN dirtyOrder
        /\ UNCHANGED <<cache, dirtyOrder, dbSize, state>>
    BY <1>1, <1>2 DEF WriteDirtyPage, Calls
  <1>4. PICK p \in Pages : p = dirtyOrder[at]
    BY <1>1, <1>3
  <1>5. 1 \in Pages /\ UNCHANGED <<InCacheSize, Dirty(1), Cached(1)>>
    BY <1>3, PagerConstants DEF Pages, InCacheSize, Dirty, Cached
  <1>6. CASE p = 1 /\ Dirty(1)
    <2>1. file'.data = [file.data EXCEPT ![1] = cache[1].data] /\ file.data \in [Pages -> Contents]
      BY <1>1, <1>2, <1>4, <1>6 DEF WriteDirtyPage, PWrite, Files
    <2>2. OnDiskSize' = InCacheSize
      BY <1>5, <2>1 DEF OnDiskSize, InCacheSize
    <2>3. dbSize # 0
      BY <1>1, <1>5, <1>6 DEF StoreInv, SizesCoverPages
    <2> QED
      BY <1>3, <1>5, <2>2, <2>3
         DEF HeaderInv, HeaderSettled, HeaderWritten, CommitsInOneCall, Committing
  <1>7. CASE p # 1 \/ ~Dirty(1)
    <2>1. UNCHANGED OnDiskSize
      <3>1. file' = file \/ (p # 1 /\ file' = PWrite(file, p, cache[p].data))
        BY <1>2, <1>4, <1>7 DEF WriteDirtyPage
      <3>2. file.data \in [Pages -> Contents]
        BY <1>1 DEF Files
      <3> QED
        BY <1>5, <3>1, <3>2 DEF OnDiskSize, PWrite
    <2>2. HeaderWritten'
      <3>1. \A i \in DOMAIN dirtyOrder :
              i >= at /\ dirtyOrder[i] = 1 /\ Dirty(1) => i >= at + 1
        BY <1>1, <1>3, <1>4, <1>7
      <3> QED
        BY <1>2, <1>3, <1>5, <2>1, <3>1 DEF HeaderInv, HeaderWritten
    <2> QED
      BY <1>3, <2>1, <2>2 DEF HeaderInv, HeaderSettled, CommitsInOneCall, Committing
  <1> QED
    BY <1>6, <1>7

\* update_db_header: a header that is there gets db_size, in both places.
LEMMA UpdateDbHeaderKeepsHeader ==
  ASSUME DirtyInv, StoreInv, SizesGrow', HeaderInv, state # "WriterLocked", UpdateDbHeader
  PROVE  HeaderInv'
  <1>1. /\ TypeOK /\ file \in Files /\ cache \in [Pages -> Slots] /\ call \in Calls
        /\ dirtyOrder \in Seq(Pages) /\ dbSize \in 0..MaxPage /\ 1 \in Pages
    BY PagerConstants DEF DirtyInv, TypeOK, PagerTypeOK, Pages
  <1>2. /\ call.op = "pages" /\ call'.op = "sync" /\ call.at > Len(dirtyOrder)
        /\ UNCHANGED <<dirtyOrder, dbSize, state>>
    BY <1>1 DEF UpdateDbHeader, PagesDone, Calls
  <1>3. Cached(1) => InCacheSize = OnDiskSize
    BY <1>1, <1>2 DEF HeaderInv, HeaderWritten, Calls
  <1>4. /\ OnDiskSize' \in {NoHdr, dbSize}
        /\ Cached(1)' => InCacheSize' = OnDiskSize'
        /\ dbSize = 0 => OnDiskSize' = NoHdr
    <2>1. CASE dbSize = 0 /\ UNCHANGED <<cache, file>>
      BY <1>3, <2>1 DEF HeaderInv, HeaderWritten, OnDiskSize, InCacheSize, Cached
    <2>2. ASSUME dbSize # 0, NEW c \in Loaded(1),
                 IF Magic(c[1].data)
                   THEN /\ cache' = [c EXCEPT ![1].data = Patched(@)]
                        /\ file' = PWrite(file, 1, Patched(c[1].data))
                   ELSE cache' = c /\ UNCHANGED file
          PROVE  OnDiskSize' \in {NoHdr, dbSize} /\ (Cached(1)' => InCacheSize' = OnDiskSize')
      <3>1. c \in [Pages -> Slots] /\ c[1] # Absent /\ c[1].data = View(1)
        BY <1>1, LoadedType, LoadedIsView
      <3>2. View(1).ndb = OnDiskSize
        BY <1>3 DEF View, OnDiskSize, InCacheSize
      <3>3. c[1] \in [data : Contents, dirty : BOOLEAN]
        BY <1>1, <3>1 DEF Slots
      <3>4. CASE Magic(c[1].data)
        <4>1. Patched(c[1].data).ndb = dbSize
          BY <3>3 DEF Patched, Contents
        <4>2. cache'[1] = [c[1] EXCEPT !.data = Patched(c[1].data)]
          BY <1>1, <2>2, <3>1, <3>4
        <4>3. cache'[1].data = Patched(c[1].data)
          BY <3>3, <4>2
        <4>4. file'.data = [file.data EXCEPT ![1] = Patched(c[1].data)]
          BY <2>2, <3>4 DEF PWrite
        <4>5. file'.data[1] = Patched(c[1].data)
          BY <1>1, <4>4 DEF Files
        <4> QED
          BY <4>1, <4>3, <4>5 DEF OnDiskSize, InCacheSize
      <3>5. CASE ~Magic(c[1].data)
        BY <2>2, <3>1, <3>2, <3>5 DEF Magic, OnDiskSize, InCacheSize
      <3> QED
        BY <3>4, <3>5
    <2> QED
      BY <1>1, <2>1, <2>2, PagerConstants DEF UpdateDbHeader
  <1> QED
    BY <1>2, <1>4 DEF HeaderInv, HeaderSettled, HeaderWritten, CommitsInOneCall, Committing

\* The sync leaves both as they are, and commit_phase_two makes db_size the
\* committed size.
LEMMA CommitEndsKeepHeader ==
  ASSUME DirtyInv, DirtyInv', SizesGrow', HeaderInv,
         (SyncFile /\ state # "WriterLocked") \/ (CommitPhaseTwo /\ state = "WriterLocked")
  PROVE  HeaderInv'
  <1>1. CASE SyncFile /\ state # "WriterLocked"
    <2>1. /\ call.op = "sync" /\ call'.op = "none" /\ state' = "WriterLocked"
          /\ UNCHANGED <<file, cache, dbSize>>
      BY <1>1 DEF SyncFile
    <2>2. UNCHANGED <<OnDiskSize, InCacheSize, Cached(1)>>
      BY <2>1 DEF OnDiskSize, InCacheSize, Cached
    <2> QED
      BY <2>1, <2>2
         DEF HeaderInv, HeaderSettled, HeaderWritten, CommitsInOneCall, Committing, Idle
  <1>2. CASE CommitPhaseTwo /\ state = "WriterLocked"
    <2>1. /\ call.op = "none" /\ state' = "Reader" /\ journal' = NoJournal
          /\ committedSize' = dbSize /\ UNCHANGED <<file, dbSize, call>>
          /\ cache' = [p \in Pages |-> IF Cached(p) THEN Clean(cache[p].data) ELSE Absent]
      BY <1>2 DEF CommitPhaseTwo, Idle, DirtyInv, TxnHasJournal, InTxn
    <2>2. 1 \in Pages /\ cache'[1] = (IF Cached(1) THEN Clean(cache[1].data) ELSE Absent)
      BY <2>1, PagerConstants DEF Pages
    <2>3. UNCHANGED OnDiskSize /\ (Cached(1)' => Cached(1) /\ InCacheSize' = InCacheSize)
      BY <2>1, <2>2 DEF Clean, OnDiskSize, InCacheSize, Cached
    <2> QED
      BY <1>2, <2>1, <2>3
         DEF HeaderInv, HeaderSettled, HeaderWritten, CommitsInOneCall, Committing,
             CleanHeader, RecordHeaders, NoJournal
  <1> QED
    BY <1>1, <1>2

\* Every step of a caller that commits in one call.
LEMMA HeaderInvStep ==
  ASSUME DirtyInv, DirtyInv', SizeInv, SizeInv', StoreInv, HeaderInv, [CommitNext]_vars
  PROVE  HeaderInv'
  <1>1. SizesGrow'
    BY SizesGrowStep DEF HeaderInv
  <1>2. CASE state = "WriterLocked" /\ CommitPhaseTwo
    BY <1>1, <1>2, CommitEndsKeepHeader
  <1>3. CASE state # "WriterLocked" /\ call.op \in {"none", "replay"} /\ Next
    <2>1. ~Committing
      BY <1>3 DEF Committing
    <2>2. CASE CommitStep
      BY <1>1, <1>3, <2>1, <2>2, SealJournalKeepsHeader
         DEF CommitStep, WriteDirtyPage, UpdateDbHeader, SyncFile
    <2> QED
      BY <1>1, <1>3, <2>1, <2>2, ReadKeepsHeader, BeginWriteKeepsHeader, WriteKeepsHeader,
         NestKeepsHeader, RollbackKeepsHeader DEF Next
  <1>4. CASE state # "WriterLocked" /\ call.op \in {"pages", "sync"} /\ Next
    <2>1. WriteDirtyPage \/ UpdateDbHeader \/ SyncFile
      BY <1>4 DEF Next, Read, Acquire, BeginWrite, Write, Nest, OpenSavepoint, SavepointRollback,
                  SavepointRelease, CommitStep, SealJournal, CommitPhaseTwo, RollbackStep,
                  StartRollback, ReplayRecord, FinishRollback, Idle
    <2> QED
      BY <1>1, <1>4, <2>1, WriteDirtyPageKeepsHeader, UpdateDbHeaderKeepsHeader, CommitEndsKeepHeader
  <1>5. CASE UNCHANGED vars
    <2>1. UNCHANGED <<OnDiskSize, InCacheSize, Cached(1), Dirty(1), Committing, RecordHeaders, CleanHeader>>
      BY <1>5 DEF vars, pagerVars, OnDiskSize, InCacheSize, Cached, Dirty, Committing,
                  RecordHeaders, CleanHeader
    <2> QED
      BY <1>1, <1>5, <2>1
         DEF vars, pagerVars, HeaderInv, HeaderSettled, HeaderWritten, CommitsInOneCall, Idle
  <1> QED
    BY <1>2, <1>3, <1>4, <1>5 DEF CommitNext, HeaderInv, CommitsInOneCall

\* The size in the header of a database file as it is opened is the committed one.
LEMMA HeaderInvInit == Init => HeaderInv
  <1> SUFFICES ASSUME Init
               PROVE  HeaderInv
    OBVIOUS
  <1>1. PICK f \in InitFiles : Opened(f) /\ committedSize = OpenSize(f)
    BY DEF Init
  <1>2. PICK n \in 0..MaxPage, v \in [Pages -> Vals], headed \in Headed :
          f = [data |-> [p \in Pages |->
                 CASE p > n -> Blank
                   [] p = 1 /\ p <= n /\ headed -> [val |-> v[p], ndb |-> n]
                   [] OTHER -> [val |-> v[p], ndb |-> NoHdr]],
               len |-> n]
    BY DEF InitFiles
  <1>3. 1 \in Pages /\ NoHdr \notin 0..MaxPage /\ MaxPage \in Nat
    BY PagerConstants DEF Pages
  <1>4. f.data[1].ndb = (IF n >= 1 /\ headed THEN n ELSE NoHdr) /\ f.len = n
    BY <1>2, <1>3 DEF Blank
  <1>5. OpenSize(f) = n
    BY <1>3, <1>4 DEF OpenSize, Magic
  <1>6. /\ OnDiskSize \in {NoHdr, committedSize} /\ (committedSize = 0 => OnDiskSize = NoHdr)
        /\ dbSize = committedSize /\ ~Cached(1) /\ call.op = "none" /\ state = "Unlocked"
    BY <1>1, <1>3, <1>4, <1>5 DEF Opened, OnDiskSize, Cached
  <1>7. journal.recs = <<>>
    BY DEF Init, NoJournal
  <1> QED
    BY <1>6, <1>7 DEF HeaderInv, CommitsInOneCall, SizesGrow, HeaderSettled, HeaderWritten,
                      CleanHeader, RecordHeaders, InTxn, Committing, Idle

\* The database size in the header is the one the pager has, outside of a
\* transaction, though update_db_header changes page 1 behind the journal's
\* back: a rollback that came after it would leave the new size in the file.
THEOREM HeaderHasTheSize == CommitSpec => []HeaderMatchesSize
  <1>1. Init => SizeInv
    BY DEF Init, Opened, SizeInv, InTxn
  <1>2. DirtyInv /\ DirtyInv' /\ SizeInv /\ [CommitNext]_vars => SizeInv'
    BY SizeInvStep, NextIsFaultNext
  <1>3. DirtyInv /\ DirtyInv' /\ StoreInv /\ [CommitNext]_vars => StoreInv'
    BY StoreInvStep, NextIsFaultNext
  <1>4. DirtyInv /\ DirtyInv' /\ SizeInv /\ SizeInv' /\ StoreInv /\ HeaderInv /\ [CommitNext]_vars
          => HeaderInv'
    BY HeaderInvStep
  <1>5. DirtyInv /\ SizeInv /\ HeaderInv => HeaderMatchesSize
    <2> SUFFICES ASSUME DirtyInv, SizeInv, HeaderInv, Idle, ~InTxn, Magic(View(1))
                 PROVE  View(1).ndb = dbSize
      BY DEF HeaderMatchesSize
    <2>1. ~Committing /\ 1 \in Pages
      BY PagerConstants DEF Committing, Idle, InTxn, Pages
    <2>2. ~Dirty(1)
      BY <2>1, NothingDirtyOutsideTxn
    <2>3. View(1).ndb = OnDiskSize
      BY <2>1, <2>2 DEF HeaderInv, HeaderSettled, CleanHeader, View, OnDiskSize, InCacheSize
    <2> QED
      BY <2>1, <2>3 DEF HeaderInv, HeaderSettled, SizeInv, Magic
  <1> QED
    BY <1>1, <1>2, <1>3, <1>4, <1>5, CommittingDirtyInvariant, StoreInvInit, HeaderInvInit, PTL
       DEF CommitSpec
=============================================================================
