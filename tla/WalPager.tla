------------------------------ MODULE WalPager ------------------------------
(***************************************************************************)
(* The pager in WAL mode: a commit appends its dirty pages to the log as   *)
(* frames, the last of which carries the database size; readers take the   *)
(* latest frame at or before the last such commit frame; a checkpoint      *)
(* copies the frames back to the database file.                            *)
(*                                                                         *)
(* append_frames and Wal::checkpoint write one frame per step, so that an  *)
(* I/O error, a crash or a power loss can hit between two frames.  The     *)
(* in-process index holds the headers of the frames in the file, always    *)
(* in step with it, and is not a variable of its own.                      *)
(***************************************************************************)
EXTENDS Pager

CONSTANT MaxFrames \* bound: frames in the log

VARIABLE
  wal      \* the <db>-wal file, a record:
           \*   frames  the frames, each a page and the db_size it commits or 0
           \*   secured how many of them sync_all has secured
           \*   base    history: the last commit frame when the transaction began

vars == <<pagerVars, wal>>

Frames == [pgno : Pages, data : Contents, size : 0..MaxPage]
Wals == [frames : Seq(Frames), secured : Nat, base : Nat]

TypeOK == PagerTypeOK /\ wal \in Wals

-----------------------------------------------------------------------------
\* Reading the log

Highest(S) == CHOOSE n \in S \cup {0} : \A m \in S : m <= n

\* last_commit_frame
LastCommitFrame(frames) == Highest({i \in DOMAIN frames : frames[i].size # 0})

\* Mutant: the search runs forward and finds the oldest frame.
OldestFrame(p) ==
  LET ofPage == {i \in 1..LastCommitFrame(wal.frames) : wal.frames[i].pgno = p}
  IN IF ofPage = {} THEN 0 ELSE CHOOSE n \in ofPage : \A m \in ofPage : n <= m

\* find_latest_frame; 0 if the page is not in the log.
LatestFrame(p) ==
  LET last == LastCommitFrame(wal.frames)
  IN  Highest({i \in 1..last : wal.frames[i].pgno = p})

\* What is stored for page p, and what the connection reads in it.
Stored(p) ==
  LET n == LatestFrame(p)
  IN  IF n # 0 THEN wal.frames[n].data ELSE file.data[p]
View(p) == IF Cached(p) THEN cache[p].data ELSE Stored(p)

\* The caches ensure_cached(p) may leave; none if it returns an error.
Loaded(p) ==
  IF Cached(p) THEN {cache}
  ELSE IF LatestFrame(p) # 0 \/ FileHolds(p) THEN Filled(p, Stored(p))
  ELSE {}

Acquire(p) ==
  /\ Idle \/ call.op = "failed"
  /\ cache' \in Loaded(p)
  /\ UNCHANGED <<file, synced, dirtyOrder, dbSize, state, savepoints, call,
                 committed, committedSize, wal>>

-----------------------------------------------------------------------------
\* Writing

BeginWrite ==
  /\ Idle
  /\ ~InTxn
  /\ state' = "Writer"
  /\ wal' = [wal EXCEPT !.base = LastCommitFrame(wal.frames)]
  /\ UNCHANGED <<file, synced, cache, dirtyOrder, dbSize, savepoints, call,
                 committed, committedSize>>

Writable(p) == IF p <= dbSize THEN Loaded(p) ELSE {MadeUp(p)}

WriteAccess(p, c) ==
  /\ Idle
  /\ InTxn
  /\ \E before \in Writable(p) : Modify(before, p, c)
  /\ UNCHANGED wal

WriteValue(p, v) == WriteAccess(p, [View(p) EXCEPT !.val = v])

MovePage(p, q) == Cached(p) /\ WriteAccess(q, cache[p].data)

-----------------------------------------------------------------------------
\* commit_phase_one: append_frames, then sync

StartAppend ==
  /\ Idle \/ call.op = "failed"
  /\ InTxn
  /\ Len(wal.frames) + Len(dirtyOrder) <= MaxFrames
  /\ call' = [op |-> "append", at |-> 1]
  /\ UNCHANGED <<file, synced, cache, dirtyOrder, dbSize, state, savepoints,
                 committed, committedSize, wal>>

\* The pages of dirty_order that are still dirty are collected as frames; the
\* last of them is the commit frame and has db_size.
LastDirty(k) == \A j \in (k + 1)..Len(dirtyOrder) : ~Dirty(dirtyOrder[j])
FrameDbSize(k) == IF LastDirty(k) THEN dbSize ELSE 0

AppendFrame ==
  /\ call.op = "append"
  /\ call.at \in DOMAIN dirtyOrder
  /\ LET p == dirtyOrder[call.at]
     IN wal' = IF Dirty(p)
                 THEN [wal EXCEPT
                   !.frames = Append(@, [pgno |-> p, data |-> cache[p].data,
                                         size |-> FrameDbSize(call.at)])]
                 ELSE wal
  /\ call' = [call EXCEPT !.at = @ + 1]
  /\ UNCHANGED <<file, synced, cache, dirtyOrder, dbSize, state, savepoints,
                 committed, committedSize>>

\* Once the log is synced the transaction is permanent.
SyncWal ==
  /\ call.op = "append"
  /\ call.at = Len(dirtyOrder) + 1
  /\ wal' = [wal EXCEPT !.secured = Len(wal.frames)]
  /\ state' = "WriterLocked"
  /\ call' = [op |-> "none", at |-> 0]
  /\ committed' = [p \in Pages |-> View(p).val]
  /\ committedSize' = dbSize
  /\ UNCHANGED <<file, synced, cache, dirtyOrder, dbSize, savepoints>>

AppendFails ==
  /\ call.op = "append"
  /\ call' = [op |-> "failed", at |-> 0]
  /\ UNCHANGED <<file, synced, cache, dirtyOrder, dbSize, state, savepoints,
                 committed, committedSize, wal>>

CommitPhaseTwo ==
  /\ Idle
  /\ cache' = [p \in Pages |-> IF Cached(p) THEN Clean(cache[p].data) ELSE Absent]
  /\ dirtyOrder' = <<>>
  /\ savepoints' = <<>>
  /\ state' = "Reader"
  /\ UNCHANGED <<file, synced, dbSize, call, committed, committedSize, wal>>

InDirtyOrder(p) == \E i \in DOMAIN dirtyOrder : dirtyOrder[i] = p

DirtyEvicted == [p \in Pages |-> IF InDirtyOrder(p) THEN Absent ELSE cache[p]]

\* The dirty pages leave the cache; log and db_size stay as they are.
Rollback ==
  /\ Idle \/ call.op = "failed"
  /\ InTxn
  /\ cache' = DirtyEvicted
  /\ dirtyOrder' = <<>>
  /\ savepoints' = <<>>
  /\ state' = "Reader"
  /\ call' = [op |-> "none", at |-> 0]
  /\ UNCHANGED <<file, synced, dbSize, committed, committedSize, wal>>

-----------------------------------------------------------------------------
\* checkpoint: copy every frame up to the last commit, sync, maybe truncate

Emptied == [p \in Pages |-> Absent]

CheckpointNothing ==
  /\ Idle
  /\ LastCommitFrame(wal.frames) = 0
  /\ cache' = Emptied
  /\ UNCHANGED <<file, synced, dirtyOrder, dbSize, state, savepoints, call,
                 committed, committedSize, wal>>

StartCheckpoint ==
  /\ Idle
  /\ LastCommitFrame(wal.frames) # 0
  /\ call' = [op |-> "copy", at |-> 1]
  /\ UNCHANGED <<file, synced, cache, dirtyOrder, dbSize, state, savepoints,
                 committed, committedSize, wal>>

\* Mutant: the commit frame itself is not copied.
CopyDoneEarly == call.at >= LastCommitFrame(wal.frames)

CopyDone == call.at > LastCommitFrame(wal.frames)

CopyFrame ==
  /\ call.op = "copy"
  /\ ~CopyDone
  /\ LET frame == wal.frames[call.at]
     IN file' = PWrite(file, frame.pgno, frame.data)
  /\ call' = [call EXCEPT !.at = @ + 1]
  /\ UNCHANGED <<synced, cache, dirtyOrder, dbSize, state, savepoints,
                 committed, committedSize, wal>>

\* Passive and Full stop here, Restart and Truncate go on to truncate the log.
SyncCopied ==
  /\ call.op = "copy"
  /\ CopyDone
  /\ synced' = file
  /\ \/ /\ call' = [op |-> "none", at |-> 0]
        /\ cache' = Emptied
     \/ /\ call' = [op |-> "truncate", at |-> 0]
        /\ UNCHANGED cache
  /\ UNCHANGED <<file, dirtyOrder, dbSize, state, savepoints, committed,
                 committedSize, wal>>

TruncateWal ==
  /\ call.op = "truncate"
  /\ wal' = [wal EXCEPT !.frames = <<>>, !.secured = 0]
  /\ cache' = Emptied
  /\ call' = [op |-> "none", at |-> 0]
  /\ UNCHANGED <<file, synced, dirtyOrder, dbSize, state, savepoints,
                 committed, committedSize>>

CheckpointFails ==
  /\ call.op \in {"copy", "truncate"}
  /\ call' = [op |-> "none", at |-> 0]
  /\ UNCHANGED <<file, synced, cache, dirtyOrder, dbSize, state, savepoints,
                 committed, committedSize, wal>>

-----------------------------------------------------------------------------
\* The process stops and the database is opened again with enable_wal: the
\* log's frames are all taken in, and the last commit frame gives the size.
Crash ==
  \E f \in PowerLoss(file, synced), n \in wal.secured..Len(wal.frames) :
    LET kept == SubSeq(wal.frames, 1, n)
        last == LastCommitFrame(kept)
    IN /\ ReopenedAs(f, IF last # 0 THEN kept[last].size ELSE OpenSize(f))
       /\ wal' = [frames |-> kept, secured |-> n, base |-> last]

Init ==
  /\ \E f \in InitFiles :
       Opened(f) /\ committed = Values(f) /\ committedSize = OpenSize(f)
  /\ wal = [frames |-> <<>>, secured |-> 0, base |-> 0]

-----------------------------------------------------------------------------
\* The calls a careful caller makes: new pages are numbered db_size + 1,
\* savepoints live inside a transaction, checkpoints outside of one, nothing
\* comes between the phases of a commit, and a failed commit is retried.
Read == \E p \in Pages : Acquire(p)

Write ==
  /\ state = "Writer"
  /\ \E p \in Pages : p <= dbSize + 1 /\
       \/ \E v \in Vals : WriteValue(p, v)
       \/ \E q \in Pages : MovePage(q, p)

Nest ==
  /\ state = "Writer"
  /\ \/ OpenSavepoint /\ UNCHANGED wal
     \/ \E k \in DOMAIN savepoints :
          (SavepointRollback(k) \/ SavepointRelease(k)) /\ UNCHANGED wal

CommitStep ==
  \/ StartAppend
  \/ AppendFrame
  \/ SyncWal
  \/ state = "WriterLocked" /\ CommitPhaseTwo

CheckpointStep ==
  \/ ~InTxn /\ (CheckpointNothing \/ StartCheckpoint)
  \/ CopyFrame
  \/ SyncCopied
  \/ TruncateWal

Next ==
  \/ Read \/ BeginWrite \/ Write \/ Nest \/ CommitStep \/ CheckpointStep
  \/ state = "Writer" /\ Idle /\ Rollback

Spec == Init /\ [][Next]_vars

\* I/O errors; crashes at any moment when the log holds no half-appended
\* transaction.
FaultNext ==
  \/ Next
  \/ AppendFails
  \/ CheckpointFails
  \/ call.op \notin {"append", "failed"} /\ Crash

FaultSpec == Init /\ [][FaultNext]_vars

\* No commit frame of the transaction in progress is in the log yet.
HalfAppended == LastCommitFrame(wal.frames) <= wal.base

\* A commit that fails half-way is rolled back instead of retried.
AbortSpec ==
  Init /\ [][\/ Next
             \/ HalfAppended /\ AppendFails
             \/ call.op = "failed" /\ Rollback]_vars

-----------------------------------------------------------------------------
\* Properties

\* Whatever a power loss keeps of the unsynced writes, the log read over the
\* file gives the committed values -- during a checkpoint as well: the log is
\* not cut before the copied pages are synced.
CommittedSurvives ==
  call.op \notin {"append", "failed"} =>
    \A p \in Pages :
      IF LatestFrame(p) # 0
        THEN LatestFrame(p) <= wal.secured
             /\ wal.frames[LatestFrame(p)].data.val = committed[p]
        ELSE {file.data[p].val, synced.data[p].val} = {committed[p]}

\* Readers see the frames of committed transactions only.
OnlyCommittedVisible ==
  Idle /\ ~InTxn => \A p \in Pages : View(p).val = committed[p]

Store == INSTANCE PageStore WITH
  working <- [p \in Pages |-> View(p).val],
  active <- state = "Writer",
  saves <- IF state = "Writer"
             THEN [k \in DOMAIN savepoints |-> SavedValues(savepoints[k])]
             ELSE <<>>

\* The WAL pager is a transactional page store.
ImplementsPageStore == Store!Spec
=============================================================================
