---------------------------- MODULE JournalPager ----------------------------
(***************************************************************************)
(* The pager in rollback-journal mode, which is the mode every connection  *)
(* runs in.  One pager belongs to one connection and its calls are         *)
(* serialised by a mutex, so the only interleaving inside a call is with   *)
(* an I/O error, a crash or a power loss; commit_phase_one and rollback,   *)
(* which write several pages, are therefore split into one step per write. *)
(***************************************************************************)
EXTENDS Pager

CONSTANT MaxRecs \* bound: records in the journal

VARIABLE
  journal  \* the <db>-journal file and the handle on it, a record:
           \*   at      absent, held by this pager, or left (no handle)
           \*   recs    its records, each intact or overwritten
           \*   start   db_size_at_start
           \*   secured how many records sync_all has secured
           \*   next    0: the next record goes to the end of the file;
           \*           k: it goes over the k-th record (see SealJournal)
           \*   torn    the file ends in the middle of a record

vars == <<pagerVars, journal>>

JournalRecs == [pgno : Pages, data : Contents, intact : BOOLEAN]
Journals == [at : {"absent", "held", "left"}, recs : Seq(JournalRecs),
             start : 0..MaxPage, secured : Nat, next : Nat, torn : BOOLEAN]

NoJournal == [at |-> "absent", recs |-> <<>>, start |-> 0, secured |-> 0,
              next |-> 0, torn |-> FALSE]

TypeOK == PagerTypeOK /\ journal \in Journals

Held == journal.at = "held"

-----------------------------------------------------------------------------
\* Reading

\* What the connection reads in page p.
View(p) == IF Cached(p) THEN cache[p].data ELSE file.data[p]

\* The caches ensure_cached(p) may leave; none if it returns an error.
Loaded(p) ==
  IF Cached(p) THEN {cache}
  ELSE IF FileHolds(p) THEN Filled(p, file.data[p])
  ELSE {}

Acquire(p) ==
  /\ Idle \/ call.op \in {"failed", "undone"}
  /\ cache' \in Loaded(p)
  /\ UNCHANGED <<file, synced, dirtyOrder, dbSize, state, savepoints, call,
                 committed, committedSize, journal>>

-----------------------------------------------------------------------------
\* Writing

BeginWrite ==
  /\ Idle
  /\ ~InTxn
  /\ journal' = [NoJournal EXCEPT !.at = "held", !.start = dbSize]
  /\ state' = "Writer"
  /\ UNCHANGED <<file, synced, cache, dirtyOrder, dbSize, savepoints, call,
                 committed, committedSize>>

\* Mutant: the pages a transaction adds are not journaled.
JournalPageUnlessAdded(p, c) ==
  /\ Held
  /\ journal.next = 0
  /\ Len(journal.recs) < MaxRecs
  /\ journal' = IF p > journal.start THEN journal
                ELSE [journal EXCEPT
                       !.recs = Append(@, [pgno |-> p, data |-> c, intact |-> TRUE])]

\* journal_page: append the page's content as it is now -- or, once
\* SealJournal has moved the file position, write it over older records,
\* 16 bytes off their boundaries.
JournalPage(p, c) ==
  \/ /\ ~Held
     /\ UNCHANGED journal
  \/ /\ Held
     /\ journal.next = 0
     /\ Len(journal.recs) < MaxRecs
     /\ journal' = [journal EXCEPT
          !.recs = Append(@, [pgno |-> p, data |-> c, intact |-> TRUE])]
  \/ /\ Held
     /\ journal.next \in DOMAIN journal.recs
     /\ journal' = [journal EXCEPT !.recs[journal.next].intact = FALSE,
                                   !.next = @ + 1]
  \/ /\ Held
     /\ journal.next = Len(journal.recs) + 1
     /\ journal' = [journal EXCEPT !.torn = TRUE]

\* The caches write_access may start from.
Writable(p) == IF p <= dbSize THEN Loaded(p) ELSE {MadeUp(p)}

\* The caller changes page p's content to c through the reference returned.
WriteAccess(p, c) ==
  /\ Idle \/ call.op = "failed"
  /\ InTxn
  /\ \E before \in Writable(p) :
       /\ Modify(before, p, c)
       /\ IF before[p].dirty THEN UNCHANGED journal
                             ELSE JournalPage(p, before[p].data)

\* A write that leaves the pager's own header fields alone.
WriteValue(p, v) == WriteAccess(p, [View(p) EXCEPT !.val = v])

\* move_page of a page that is in the cache.
MovePage(p, q) == Cached(p) /\ WriteAccess(q, cache[p].data)

\* The journal write fails, none of it done: the page is not dirty, but cached.
WriteAccessFails(p) ==
  /\ Idle
  /\ InTxn
  /\ Held
  /\ \E before \in Writable(p) : ~before[p].dirty /\ cache' = before
  /\ UNCHANGED <<file, synced, dirtyOrder, dbSize, state, savepoints, call,
                 committed, committedSize, journal>>

-----------------------------------------------------------------------------
\* commit_phase_one: seal the journal, write the pages, patch the header, sync

\* Mutant: the journal is not synced before the database file is written.
SealedUnsynced == [journal EXCEPT !.next = 1]

Sealed == [journal EXCEPT !.secured = Len(journal.recs), !.next = 1]

\* Writing n_records at offset 8 also leaves the file position there.
SealJournal ==
  /\ Idle \/ call.op = "failed"
  /\ InTxn
  /\ journal' = IF Held THEN Sealed ELSE journal
  /\ call' = [op |-> "pages", at |-> 1]
  /\ UNCHANGED <<file, synced, cache, dirtyOrder, dbSize, state, savepoints,
                 committed, committedSize>>

WriteDirtyPage ==
  /\ call.op = "pages"
  /\ call.at \in DOMAIN dirtyOrder
  /\ LET p == dirtyOrder[call.at]
     IN file' = IF Dirty(p) THEN PWrite(file, p, cache[p].data) ELSE file
  /\ call' = [call EXCEPT !.at = @ + 1]
  /\ UNCHANGED <<synced, cache, dirtyOrder, dbSize, state, savepoints,
                 committed, committedSize, journal>>

\* Mutant: the loop over dirty_order stops one page early.
PagesDoneEarly == call.at >= Len(dirtyOrder)

PagesDone == call.at > Len(dirtyOrder)

\* Mutant: the header keeps the size it had.
PatchedNot(page) == page

Patched(page) == [page EXCEPT !.ndb = dbSize]

\* update_db_header: page 1, in the cache and in the file, but not journaled.
UpdateDbHeader ==
  /\ call.op = "pages"
  /\ PagesDone
  /\ \/ /\ dbSize = 0
        /\ UNCHANGED <<cache, file>>
     \/ /\ dbSize > 0
        /\ \E c \in Loaded(1) :
             IF Magic(c[1].data)
               THEN /\ cache' = [c EXCEPT ![1].data = Patched(@)]
                    /\ file' = PWrite(file, 1, Patched(c[1].data))
               ELSE cache' = c /\ UNCHANGED file
  /\ call' = [call EXCEPT !.op = "sync"]
  /\ UNCHANGED <<synced, dirtyOrder, dbSize, state, savepoints, committed,
                 committedSize, journal>>

SyncFile ==
  /\ call.op = "sync"
  /\ synced' = file
  /\ state' = "WriterLocked"
  /\ call' = [op |-> "none", at |-> 0]
  /\ UNCHANGED <<file, cache, dirtyOrder, dbSize, savepoints, committed,
                 committedSize, journal>>

\* An I/O error anywhere in it returns to the caller, still in Writer.
CommitPhaseOneFails ==
  /\ call.op \in {"pages", "sync"}
  /\ call' = [op |-> "failed", at |-> 0]
  /\ UNCHANGED <<file, synced, cache, dirtyOrder, dbSize, state, savepoints,
                 committed, committedSize, journal>>

\* Deleting the journal is what makes the transaction permanent.
CommitPhaseTwo ==
  /\ Idle
  /\ journal' = IF Held THEN NoJournal ELSE journal
  /\ cache' = [p \in Pages |-> IF Cached(p) THEN Clean(cache[p].data) ELSE Absent]
  /\ dirtyOrder' = <<>>
  /\ savepoints' = <<>>
  /\ state' = "Reader"
  /\ committed' = [p \in Pages |-> View(p).val]
  /\ committedSize' = dbSize
  /\ UNCHANGED <<file, synced, dbSize, call>>

-----------------------------------------------------------------------------
\* rollback: read every record, write each one back in order, sync, delete

StartRollback ==
  /\ Idle \/ call.op \in {"failed", "undone"}
  /\ InTxn
  /\ ~(Held /\ journal.torn)
  /\ journal' = [journal EXCEPT !.next = 0]
  /\ call' = [op |-> "replay", at |-> 1]
  /\ UNCHANGED <<file, synced, cache, dirtyOrder, dbSize, state, savepoints,
                 committed, committedSize>>

\* Mutant: the cached copy is only marked clean.
RestoredOnDisk(p, c) == IF Cached(p) THEN [cache EXCEPT ![p].dirty = FALSE] ELSE cache

Restored(p, c) == IF Cached(p) THEN [cache EXCEPT ![p] = Clean(c)] ELSE cache

\* An overwritten record is read as some page number and some content.
ReplayRecord ==
  /\ call.op = "replay"
  /\ Held
  /\ call.at \in DOMAIN journal.recs
  /\ \E p \in Pages, c \in Contents :
       /\ journal.recs[call.at].intact =>
            p = journal.recs[call.at].pgno /\ c = journal.recs[call.at].data
       /\ file' = PWrite(file, p, c)
       /\ cache' = Restored(p, c)
  /\ call' = [call EXCEPT !.at = @ + 1]
  /\ UNCHANGED <<synced, dirtyOrder, dbSize, state, savepoints, committed,
                 committedSize, journal>>

\* Mutant: the pages the transaction added stay in the database.
SavedDbSizeKept == dbSize

\* Mutant: the size is one page short.
SavedDbSizeShort == IF Held THEN journal.start - 1 ELSE 0

SavedDbSize == IF Held THEN journal.start ELSE 0

FinishRollback ==
  /\ call.op = "replay"
  /\ Held => call.at = Len(journal.recs) + 1
  /\ synced' = file
  /\ dbSize' = SavedDbSize
  /\ journal' = IF Held THEN NoJournal ELSE journal
  /\ dirtyOrder' = <<>>
  /\ savepoints' = <<>>
  /\ state' = "Reader"
  /\ call' = [op |-> "none", at |-> 0]
  /\ UNCHANGED <<file, cache, committed, committedSize>>

RollbackFails ==
  /\ call.op = "replay"
  /\ call' = [op |-> "undone", at |-> 0]
  /\ UNCHANGED <<file, synced, cache, dirtyOrder, dbSize, state, savepoints,
                 committed, committedSize, journal>>

-----------------------------------------------------------------------------
\* The process stops; Pager::open then neither reads nor deletes the journal.
\* Unsynced file writes and journal records survive or not.
Crash ==
  /\ \E f \in PowerLoss(file, synced) : ReopenedAs(f, OpenSize(f))
  /\ \/ /\ journal.at = "absent"
        /\ UNCHANGED journal
     \/ /\ journal.at # "absent"
        /\ \E n \in journal.secured..Len(journal.recs) :
             journal' = [journal EXCEPT !.at = "left", !.next = 0, !.torn = FALSE,
                                        !.recs = SubSeq(@, 1, n), !.secured = n]

-----------------------------------------------------------------------------
Init ==
  /\ \E f \in InitFiles :
       Opened(f) /\ committed = Values(f) /\ committedSize = OpenSize(f)
  /\ journal = NoJournal

\* How BTree and Connection use the pager: new pages are numbered db_size + 1
\* (allocate_page), savepoints live inside a transaction, and between the
\* phases of a commit there is nothing but the other phase or a rollback.
Read == \E p \in Pages : Acquire(p)

Write ==
  /\ Idle
  /\ state = "Writer"
  /\ \E p \in Pages : p <= dbSize + 1 /\
       \/ \E v \in Vals : WriteValue(p, v)
       \/ \E q \in Pages : MovePage(q, p)

Nest ==
  /\ state = "Writer"
  /\ \/ OpenSavepoint /\ UNCHANGED journal
     \/ \E k \in DOMAIN savepoints :
          (SavepointRollback(k) \/ SavepointRelease(k)) /\ UNCHANGED journal

CommitStep ==
  \/ SealJournal
  \/ WriteDirtyPage
  \/ UpdateDbHeader
  \/ SyncFile
  \/ state = "WriterLocked" /\ CommitPhaseTwo

RollbackStep == StartRollback \/ ReplayRecord \/ FinishRollback

Next == Read \/ BeginWrite \/ Write \/ Nest \/ CommitStep \/ RollbackStep

Spec == Init /\ [][Next]_vars

\* I/O errors, after which the caller retries or rolls back; crashes, except
\* while the database file may hold part of a transaction.
CallFails ==
  \/ /\ state = "Writer"
     /\ \E p \in Pages : p <= dbSize + 1 /\ WriteAccessFails(p)
  \/ CommitPhaseOneFails
  \/ RollbackFails

Settled == Idle /\ state # "WriterLocked"

FaultNext == Next \/ CallFails \/ (Settled /\ Crash)

FaultSpec == Init /\ [][FaultNext]_vars

\* A caller that always commits in one call, as commit() does.
CommitNext ==
  \/ state = "WriterLocked" /\ CommitPhaseTwo
  \/ state # "WriterLocked" /\ Next

CommitSpec == Init /\ [][CommitNext]_vars

\* The process stops at any moment.
CrashSpec == Init /\ [][Next \/ Crash]_vars

-----------------------------------------------------------------------------
\* Properties

\* A clean page in the cache is what the file holds: neither a commit, a
\* rollback, a savepoint nor an eviction leaves a stale copy behind.
CleanPagesMatchFile ==
  Idle => \A p \in Pages : Cached(p) /\ ~cache[p].dirty =>
            cache[p].data = file.data[p]

\* The pages commit_phase_one walks are exactly the dirty ones, each once.
DirtyOrderIsDirtySet ==
  Idle => /\ {p \in Pages : Dirty(p)} = {dirtyOrder[i] : i \in DOMAIN dirtyOrder}
          /\ \A i, j \in DOMAIN dirtyOrder :
               dirtyOrder[i] = dirtyOrder[j] => i = j

\* Whatever part of the unsynced writes a power loss keeps, at whatever
\* point, replaying the journal gives back the committed values: every page
\* was journaled, and the journal synced, before the file changed.
HotJournalRecovers ==
  \A n \in journal.secured..Len(journal.recs), p \in Pages :
    LET ofPage == {i \in 1..n : journal.recs[i].pgno = p}
        last == CHOOSE i \in ofPage : \A j \in ofPage : j <= i
    IN IF journal.at = "held" /\ ofPage # {}
         THEN journal.recs[last].data.val = committed[p] /\ journal.recs[last].intact
         ELSE {file.data[p].val, synced.data[p].val} = {committed[p]}

\* Outside a transaction db_size is what the last commit made it: rollback
\* and savepoint_rollback give back the pages a transaction added.
SizeAsCommitted == ~InTxn => dbSize = committedSize

\* A header that is there records the size of the database, so that a
\* reopened database has every page and no page too many.
HeaderMatchesSize ==
  Idle /\ ~InTxn /\ Magic(View(1)) => View(1).ndb = dbSize

\* Reopening the database serves what was committed.
ReopenServesCommitted ==
  state = "Unlocked" => \A p \in Pages : View(p).val = committed[p]

\* Every page changed in a transaction has its content from before the change
\* in the journal.
OriginalsAppended ==
  Held => \A p \in Pages : Dirty(p) =>
    \E i \in DOMAIN journal.recs : journal.recs[i].pgno = p /\ journal.recs[i].intact

Store == INSTANCE PageStore WITH
  working <- [p \in Pages |-> View(p).val],
  active <- InTxn,
  saves <- [k \in DOMAIN savepoints |-> SavedValues(savepoints[k])]

\* The journal pager is a transactional page store: a commit publishes
\* everything written, a rollback leaves nothing, a savepoint gives back the
\* contents it was opened on.
ImplementsPageStore == Store!Spec
=============================================================================
