--------------------------- MODULE WalPagerProofs ---------------------------
(***************************************************************************)
(* Proofs that the pager in WAL mode keeps what it has committed, whatever *)
(* a power loss leaves of the database file, and that it is a              *)
(* transactional page store.  They hold for every number of pages, every   *)
(* cache size, every set of page values, database files with and without a *)
(* header, and a log of any length: PagerConstants is all that is assumed. *)
(*                                                                         *)
(* The inductive invariant, WalInv, relates the log to what was committed  *)
(* on one side and to the dirty pages on the other: the frames up to       *)
(* wal.secured are those of committed transactions, the frames after it    *)
(* are of pages that are dirty now.                                        *)
(***************************************************************************)
EXTENDS WalPager, PagerProofs

-----------------------------------------------------------------------------
\* What relates the log, the file, the cache and the last commit

\* A commit is under way, or has failed and is to be retried.
Appending == call.op \in {"append", "failed"}

\* Commits are made inside of transactions and checkpoints outside of them,
\* and nothing but a transaction keeps a list or savepoints.
TxnHasLog ==
  /\ call.op \in {"none", "append", "failed", "copy", "truncate"}
  /\ call.op \in {"append", "copy"} => call.at >= 1
  /\ Appending => InTxn
  /\ call.op \in {"copy", "truncate"} => ~InTxn
  /\ ~InTxn => dirtyOrder = <<>> /\ savepoints = <<>>

\* No commit can do without its commit frame: a dirty page is inside of the
\* database, whose size therefore is not 0.
DirtyInside ==
  \A p \in Pages :
    /\ Dirty(p) => p <= dbSize
    /\ \A k \in DOMAIN savepoints :
         savepoints[k].dirty[p] # Absent => p <= savepoints[k].size

\* The secured part of the log ends with a commit frame, and between commits
\* it is the whole log.
SecuredIsCommitted ==
  /\ wal.secured <= Len(wal.frames)
  /\ wal.secured > 0 => wal.frames[wal.secured].size # 0
  /\ ~Appending => wal.secured = Len(wal.frames)

\* No frame between from and n is of page p.
NoFrame(p, from, n) == \A j \in DOMAIN wal.frames : from <= j /\ j <= n => wal.frames[j].pgno # p

\* Frame i is the last one of its page among the first n.
LastOfPage(i, n) == i <= n /\ NoFrame(wal.frames[i].pgno, i + 1, n)

\* The last secured frame of a page holds its committed value; a page that
\* has none is as committed in the database file, power loss or not.
LogHoldsCommitted ==
  /\ \A i \in DOMAIN wal.frames : LastOfPage(i, wal.secured) =>
       wal.frames[i].data.val = committed[wal.frames[i].pgno]
  /\ \A p \in Pages : NoFrame(p, 1, wal.secured) =>
       file.data[p].val = committed[p] /\ synced.data[p].val = committed[p]

\* Behind it are copies of dirty pages only: of the commit under way, and of
\* attempts at it that failed.
TailIsDirty ==
  \A i \in DOMAIN wal.frames : i > wal.secured =>
    /\ Dirty(wal.frames[i].pgno)
    /\ wal.frames[i].data = cache[wal.frames[i].pgno].data

\* The commit under way has appended the pages of the list up to call.at, and
\* in the end the commit frame.
AppendedSoFar ==
  call.op = "append" =>
    /\ call.at <= Len(dirtyOrder) + 1
    /\ \A k \in DOMAIN dirtyOrder : k < call.at =>
         \E i \in DOMAIN wal.frames : i > wal.secured /\ wal.frames[i].pgno = dirtyOrder[k]
    /\ call.at > 1 /\ call.at = Len(dirtyOrder) + 1 =>
         wal.frames[Len(wal.frames)].size # 0

\* A clean page in the cache is as committed, and once the log is synced so
\* are the others.
CleanIsCommitted ==
  \A p \in Pages :
    Cached(p) /\ (~Dirty(p) \/ state = "WriterLocked") => cache[p].data.val = committed[p]

\* A checkpoint has brought the frames before call.at to the file; when it
\* goes on to cut the log, the file has everything and is synced.
CopiedSoFar ==
  /\ call.op = "copy" =>
       \A i \in DOMAIN wal.frames : LastOfPage(i, call.at - 1) =>
         file.data[wal.frames[i].pgno] = wal.frames[i].data
  /\ call.op = "truncate" =>
       \A p \in Pages : file.data[p].val = committed[p] /\ synced.data[p].val = committed[p]

\* The inductive invariant.
WalInv ==
  /\ TypeOK
  /\ TxnHasLog
  /\ ListInv
  /\ DirtyInside
  /\ SecuredIsCommitted
  /\ LogHoldsCommitted
  /\ TailIsDirty
  /\ AppendedSoFar
  /\ CleanIsCommitted
  /\ CopiedSoFar

-----------------------------------------------------------------------------
\* Reading the log

\* Highest is 0 of no positions and the last of some.
LEMMA HighestProperties ==
  ASSUME NEW n \in Nat, NEW S \in SUBSET (1..n)
  PROVE  /\ Highest(S) \in 0..n
         /\ \A m \in S : m <= Highest(S)
         /\ S # {} => Highest(S) \in S
         /\ S = {} => Highest(S) = 0
  <1>1. CASE S = {}
    <2>1. S \cup {0} = {0}
      BY <1>1
    <2> QED
      BY <1>1, <2>1 DEF Highest
  <1>2. CASE S # {}
    <2>1. PICK last \in S : \A j \in S : j <= last
      BY <1>2, LastExists
    <2>2. /\ Highest(S) \in S \cup {0}
          /\ \A m \in S : m <= Highest(S)
      BY <2>1 DEF Highest
    <2>3. last \in 1..n /\ last <= Highest(S)
      BY <2>1, <2>2
    <2>4. Highest(S) \in S
      BY <2>2, <2>3
    <2>5. Highest(S) \in 1..n
      BY <2>4
    <2> QED
      BY <1>2, <2>2, <2>4, <2>5
  <1> QED
    BY <1>1, <1>2

\* last_commit_frame finds the last frame with a size.
LEMMA LastCommitProperties ==
  ASSUME NEW frames \in Seq(Frames)
  PROVE  /\ LastCommitFrame(frames) \in 0..Len(frames)
         /\ LastCommitFrame(frames) # 0 => frames[LastCommitFrame(frames)].size # 0
         /\ \A i \in DOMAIN frames : frames[i].size # 0 => i <= LastCommitFrame(frames)
  <1> DEFINE S == {i \in DOMAIN frames : frames[i].size # 0}
  <1>1. Len(frames) \in Nat /\ S \in SUBSET (1..Len(frames))
    OBVIOUS
  <1>2. /\ Highest(S) \in 0..Len(frames)
        /\ \A m \in S : m <= Highest(S)
        /\ S # {} => Highest(S) \in S
        /\ S = {} => Highest(S) = 0
    <2> HIDE DEF S
    <2> QED
      BY <1>1, HighestProperties
  <1>3. LastCommitFrame(frames) = Highest(S)
    BY DEF LastCommitFrame
  <1> QED
    BY <1>2, <1>3

\* find_latest_frame finds the last frame of the page among the committed.
LEMMA LatestProperties ==
  ASSUME wal \in Wals, NEW p \in Pages
  PROVE  /\ LatestFrame(p) \in 0..LastCommitFrame(wal.frames)
         /\ LatestFrame(p) # 0 =>
              LatestFrame(p) \in DOMAIN wal.frames /\ wal.frames[LatestFrame(p)].pgno = p
         /\ \A i \in 1..LastCommitFrame(wal.frames) :
              wal.frames[i].pgno = p => LatestFrame(p) # 0 /\ i <= LatestFrame(p)
  <1> DEFINE last == LastCommitFrame(wal.frames)
             S == {i \in 1..last : wal.frames[i].pgno = p}
  <1>1. wal.frames \in Seq(Frames)
    BY DEF Wals
  <1>2. last \in 0..Len(wal.frames) /\ Len(wal.frames) \in Nat
    BY <1>1, LastCommitProperties
  <1>3. last \in Nat /\ S \in SUBSET (1..last)
    BY <1>2
  <1>4. /\ Highest(S) \in 0..last
        /\ \A m \in S : m <= Highest(S)
        /\ S # {} => Highest(S) \in S
        /\ S = {} => Highest(S) = 0
    <2> HIDE DEF S, last
    <2> QED
      BY <1>3, HighestProperties
  <1>5. LatestFrame(p) = Highest(S)
    BY DEF LatestFrame
  <1>6. DOMAIN wal.frames = 1..Len(wal.frames)
    BY <1>1
  <1> HIDE DEF last
  <1> QED
    BY <1>2, <1>4, <1>5, <1>6 DEF last

\* What is stored in a page is a page.
LEMMA StoredInContents ==
  ASSUME TypeOK, NEW p \in Pages
  PROVE  Stored(p) \in Contents
  <1>1. wal \in Wals /\ wal.frames \in Seq(Frames) /\ file \in Files
    BY DEF TypeOK, PagerTypeOK, Wals
  <1>2. CASE LatestFrame(p) # 0
    <2>1. wal.frames[LatestFrame(p)] \in Frames
      BY <1>1, <1>2, LatestProperties, ElementOfSeq
    <2> QED
      BY <1>2, <2>1 DEF Stored, Frames
  <1>3. CASE LatestFrame(p) = 0
    BY <1>1, <1>3 DEF Stored, Files
  <1> QED
    BY <1>2, <1>3

\* What the connection reads in a page is a page.
LEMMA ViewInContents ==
  ASSUME TypeOK, NEW p \in Pages
  PROVE  View(p) \in Contents
  BY StoredInContents DEF TypeOK, PagerTypeOK, View, Cached, Slots

-----------------------------------------------------------------------------
\* The cache

\* What ensure_cached(p) does: nothing on a hit, and on a miss p's slot is
\* filled from the log or the file and at most a clean page goes.
LEMMA LoadedSlots ==
  ASSUME TypeOK, NEW p \in Pages, NEW c \in Loaded(p)
  PROVE  /\ c \in [Pages -> Slots] /\ c[p] # Absent
         /\ \A q \in Pages :
              /\ \/ c[q] = cache[q]
                 \/ c[q] = Absent /\ ~Dirty(q)
                 \/ ~Cached(q) /\ c[q] = Clean(Stored(q))
              /\ c[q] # Absent /\ c[q].dirty <=> Dirty(q)
  <1>1. CASE Cached(p)
    BY <1>1 DEF Loaded, Cached, Dirty, TypeOK, PagerTypeOK
  <1>2. CASE ~Cached(p)
    <2>1. c \in Filled(p, Stored(p)) /\ Stored(p) \in Contents /\ PagerTypeOK
      BY <1>2, StoredInContents DEF Loaded, TypeOK
    <2>2. c \in [Pages -> Slots] /\ c[p] # Absent
      BY <2>1, FilledType
    <2> QED
      BY <1>2, <2>1, <2>2, FilledSlots
  <1> QED
    BY <1>1, <1>2

\* The caches write_access may work on.
LEMMA WritableSlots ==
  ASSUME TypeOK, NEW p \in Pages, NEW c \in Writable(p)
  PROVE  /\ c \in [Pages -> Slots] /\ c[p] # Absent
         /\ \A q \in Pages :
              /\ q # p => \/ c[q] = cache[q]
                          \/ c[q] = Absent /\ ~Dirty(q)
              /\ c[q] # Absent /\ c[q].dirty <=> Dirty(q)
  <1>1. CASE p <= dbSize /\ Cached(p)
    BY <1>1 DEF Writable, Loaded, Cached, Dirty, TypeOK, PagerTypeOK
  <1>2. CASE p <= dbSize /\ ~Cached(p)
    <2>1. c \in Filled(p, Stored(p)) /\ Stored(p) \in Contents /\ PagerTypeOK
      BY <1>2, StoredInContents DEF Writable, Loaded, TypeOK
    <2>2. c \in [Pages -> Slots] /\ c[p] # Absent
      BY <2>1, FilledType
    <2> QED
      BY <1>2, <2>1, <2>2, FilledSlots
  <1>3. CASE ~(p <= dbSize)
    BY <1>3, MadeUpSlots DEF Writable, TypeOK
  <1> QED
    BY <1>1, <1>2, <1>3

-----------------------------------------------------------------------------
\* Types

\* write_access.
LEMMA WriteAccessType ==
  ASSUME TypeOK, NEW p \in Pages, NEW c \in Contents, WriteAccess(p, c)
  PROVE  TypeOK'
  <1>1. PICK before \in Writable(p) : Modify(before, p, c)
    BY DEF WriteAccess
  <1>2. before \in [Pages -> Slots] /\ before[p] # Absent
    BY WritableSlots
  <1> QED
    BY <1>1, <1>2, ModifyType DEF WriteAccess, TypeOK

\* Every write a caller makes is a write_access of some content.
LEMMA WriteIsWriteAccess ==
  ASSUME TypeOK, Write
  PROVE  \E p \in Pages, c \in Contents : state = "Writer" /\ WriteAccess(p, c)
  <1>1. PICK p \in Pages :
          (\E v \in Vals : WriteValue(p, v)) \/ (\E q \in Pages : MovePage(q, p))
    BY DEF Write
  <1>2. CASE \E v \in Vals : WriteValue(p, v)
    BY <1>2, ViewInContents DEF WriteValue, Contents, Write
  <1>3. CASE \E q \in Pages : MovePage(q, p)
    BY <1>3 DEF MovePage, TypeOK, PagerTypeOK, Cached, Slots, Write
  <1> QED
    BY <1>1, <1>2, <1>3

\* append_frames writes frames, and only them.
LEMMA AppendFrameType ==
  ASSUME TypeOK, AppendFrame
  PROVE  /\ TypeOK'
         /\ LET p == dirtyOrder[call.at]
            IN  /\ p \in Pages
                /\ Dirty(p) =>
                     /\ Len(wal'.frames) = Len(wal.frames) + 1
                     /\ wal'.frames[Len(wal.frames) + 1] =
                          [pgno |-> p, data |-> cache[p].data, size |-> FrameDbSize(call.at)]
                     /\ \A i \in 1..Len(wal.frames) : wal'.frames[i] = wal.frames[i]
                /\ ~Dirty(p) => wal' = wal
                /\ wal'.secured = wal.secured
  <1> DEFINE p == dirtyOrder[call.at]
             frame == [pgno |-> p, data |-> cache[p].data, size |-> FrameDbSize(call.at)]
  <1>1. wal \in Wals /\ wal.frames \in Seq(Frames) /\ dirtyOrder \in Seq(Pages)
        /\ call \in Calls /\ dbSize \in 0..MaxPage /\ cache \in [Pages -> Slots]
    BY DEF TypeOK, PagerTypeOK, Wals
  <1>2. p \in Pages
    BY <1>1, ElementOfSeq DEF AppendFrame
  <1>3. call' \in Calls
    BY <1>1 DEF AppendFrame, Calls
  <1>4. CASE Dirty(p)
    <2>1. frame \in Frames
      <3>1. FrameDbSize(call.at) \in 0..MaxPage
        BY <1>1, PagerConstants DEF FrameDbSize
      <3>2. cache[p].data \in Contents
        BY <1>1, <1>2, <1>4 DEF Dirty, Cached, Slots
      <3> QED
        BY <1>2, <3>1, <3>2 DEF Frames
    <2>2. wal' = [wal EXCEPT !.frames = Append(wal.frames, frame)]
      BY <1>4 DEF AppendFrame
    <2> HIDE DEF frame
    <2>3. wal'.frames = Append(wal.frames, frame) /\ wal'.secured = wal.secured
      BY <1>1, <2>2 DEF Wals
    <2>4. wal' \in Wals
      <3>1. Append(wal.frames, frame) \in Seq(Frames)
        BY <1>1, <2>1
      <3> QED
        BY <1>1, <2>2, <3>1 DEF Wals
    <2>5. TypeOK'
      BY <1>3, <2>4 DEF AppendFrame, TypeOK, PagerTypeOK
    <2> QED
      BY <1>1, <1>2, <1>4, <2>1, <2>3, <2>5 DEF frame
  <1>5. CASE ~Dirty(p)
    <2>1. wal' = wal
      BY <1>5 DEF AppendFrame
    <2> QED
      BY <1>1, <1>2, <1>3, <1>5, <2>1 DEF AppendFrame, TypeOK, PagerTypeOK
  <1> QED
    BY <1>4, <1>5

\* A crash leaves a prefix of the log, and the size of its last commit.
LEMMA CrashType ==
  ASSUME TypeOK, Crash
  PROVE  TypeOK'
  <1>1. wal \in Wals /\ wal.frames \in Seq(Frames) /\ file \in Files /\ synced \in Files
    BY DEF TypeOK, PagerTypeOK, Wals
  <1>2. PICK f \in PowerLoss(file, synced), n \in wal.secured..Len(wal.frames) :
          LET kept == SubSeq(wal.frames, 1, n)
              last == LastCommitFrame(kept)
          IN /\ ReopenedAs(f, IF last # 0 THEN kept[last].size ELSE OpenSize(f))
             /\ wal' = [frames |-> kept, secured |-> n, base |-> last]
    BY DEF Crash
  <1> DEFINE kept == SubSeq(wal.frames, 1, n)
             last == LastCommitFrame(kept)
             size == IF last # 0 THEN kept[last].size ELSE OpenSize(f)
  <1>3. n \in Nat /\ n <= Len(wal.frames)
    BY <1>1, <1>2 DEF Wals
  <1>4. kept \in Seq(Frames)
    BY <1>1, <1>3, PrefixInSeq
  <1>5. last \in 0..Len(kept)
    BY <1>4, LastCommitProperties
  <1>6. f \in Files
    BY <1>1, <1>2, PowerLossType
  <1>7. size \in 0..MaxPage
    <2>1. CASE last # 0
      <3>1. kept[last] \in Frames
        BY <1>4, <1>5, <2>1, ElementOfSeq
      <3> QED
        BY <2>1, <3>1 DEF Frames
    <2>2. CASE last = 0
      BY <1>6, <2>2, OpenSizeType
    <2> QED
      BY <2>1, <2>2
  <1>8. wal' \in Wals
    <2> HIDE DEF kept
    <2>1. wal' = [frames |-> kept, secured |-> n, base |-> last]
      BY <1>2 DEF kept
    <2>2. last \in Nat
      BY <1>4, <1>5
    <2> QED
      BY <1>3, <1>4, <2>1, <2>2 DEF Wals
  <1>9. ReopenedAs(f, size)
    BY <1>2
  <1> HIDE DEF size
  <1> QED
    BY <1>6, <1>7, <1>8, <1>9, ReopenedType DEF TypeOK

\* A pager that was just opened has its types.
LEMMA TypeInit == Init => TypeOK
  <1> SUFFICES ASSUME Init PROVE TypeOK
    OBVIOUS
  <1>1. PagerTypeOK
    BY OpenedType DEF Init
  <1>2. wal \in Wals
    BY DEF Init, Wals
  <1> QED
    BY <1>1, <1>2 DEF TypeOK

\* Every step of a pager that meets faults keeps the types.
LEMMA TypeStep ==
  ASSUME TypeOK, TxnHasLog, [FaultNext]_vars
  PROVE  TypeOK'
  <1>0. PagerTypeOK /\ wal \in Wals /\ wal.frames \in Seq(Frames)
    BY DEF TypeOK, Wals
  <1>1. CASE Read
    BY <1>1, LoadedSlots DEF Read, Acquire, TypeOK, PagerTypeOK
  <1>2. CASE BeginWrite
    <2>1. LastCommitFrame(wal.frames) \in Nat
      BY <1>0, LastCommitProperties
    <2> QED
      BY <1>2, <2>1 DEF BeginWrite, TypeOK, PagerTypeOK, States, Wals
  <1>3. CASE Write
    BY <1>3, WriteIsWriteAccess, WriteAccessType
  <1>4. CASE Nest
    BY <1>0, <1>4, OpenSavepointType, SavepointRollbackType, SavepointReleaseType
       DEF Nest, TypeOK
  <1>5. CASE StartAppend
    BY <1>5 DEF StartAppend, TypeOK, PagerTypeOK, Calls
  <1>6. CASE AppendFrame
    BY <1>6, AppendFrameType
  <1>7. CASE SyncWal
    <2>1. committed' \in [Pages -> Vals]
      BY <1>7, ViewInContents DEF SyncWal, Contents
    <2>2. wal' \in Wals
      BY <1>0, <1>7 DEF SyncWal, Wals
    <2> QED
      BY <1>7, <2>1, <2>2 DEF SyncWal, TypeOK, PagerTypeOK, States, Calls
  <1>8. CASE CommitPhaseTwo
    <2>1. cache' \in [Pages -> Slots]
      BY <1>8 DEF CommitPhaseTwo, Cached, Clean, Slots, TypeOK, PagerTypeOK
    <2> QED
      BY <1>8, <2>1 DEF CommitPhaseTwo, TypeOK, PagerTypeOK, States
  <1>9. CASE Rollback
    <2>1. cache' \in [Pages -> Slots]
      BY <1>9 DEF Rollback, DirtyEvicted, Slots, TypeOK, PagerTypeOK
    <2> QED
      BY <1>9, <2>1 DEF Rollback, TypeOK, PagerTypeOK, States, Calls
  <1>10. CASE CheckpointNothing \/ StartCheckpoint \/ SyncCopied
    <2>1. Emptied \in [Pages -> Slots]
      BY DEF Emptied, Slots
    <2> QED
      BY <1>10, <2>1 DEF CheckpointNothing, StartCheckpoint, SyncCopied, TypeOK,
                         PagerTypeOK, Calls
  <1>11. CASE CopyFrame
    <2>1. LastCommitFrame(wal.frames) \in 0..Len(wal.frames) /\ Len(wal.frames) \in Nat
      BY <1>0, LastCommitProperties
    <2>2. call.at \in 1..Len(wal.frames)
      BY <1>11, <2>1 DEF CopyFrame, CopyDone, TxnHasLog, TypeOK, PagerTypeOK, Calls
    <2>3. wal.frames[call.at] \in Frames
      BY <1>0, <2>2, ElementOfSeq
    <2>4. file' \in Files
      BY <1>11, <2>3, PWriteType DEF CopyFrame, TypeOK, PagerTypeOK, Frames
    <2> QED
      BY <1>11, <2>4 DEF CopyFrame, TypeOK, PagerTypeOK, Calls
  <1>12. CASE TruncateWal
    <2>1. cache' \in [Pages -> Slots]
      BY <1>12 DEF TruncateWal, Emptied, Slots
    <2>2. wal' \in Wals
      <3>1. <<>> \in Seq(Frames) /\ 0 \in Nat
        OBVIOUS
      <3> QED
        BY <1>0, <1>12, <3>1 DEF TruncateWal, Wals
    <2> QED
      BY <1>12, <2>1, <2>2 DEF TruncateWal, TypeOK, PagerTypeOK, Calls
  <1>13. CASE AppendFails \/ CheckpointFails
    BY <1>13 DEF AppendFails, CheckpointFails, TypeOK, PagerTypeOK, Calls
  <1>14. CASE Crash
    BY <1>14, CrashType
  <1>15. CASE UNCHANGED vars
    BY <1>15 DEF vars, pagerVars, TypeOK, PagerTypeOK
  <1> QED
    BY <1>1, <1>2, <1>3, <1>4, <1>5, <1>6, <1>7, <1>8, <1>9, <1>10, <1>11, <1>12, <1>13,
       <1>14, <1>15 DEF FaultNext, Next, CommitStep, CheckpointStep

-----------------------------------------------------------------------------
\* What the connection sees

\* find_latest_frame returns the last committed frame of the page, or none if
\* there is none.
LEMMA LatestIsLast ==
  ASSUME wal \in Wals, NEW p \in Pages
  PROVE  LET n == LatestFrame(p)
             last == LastCommitFrame(wal.frames)
         IN  /\ n # 0 => n \in DOMAIN wal.frames /\ wal.frames[n].pgno = p /\ LastOfPage(n, last)
             /\ n = 0 => NoFrame(p, 1, last)
  <1> DEFINE last == LastCommitFrame(wal.frames)
  <1>1. wal.frames \in Seq(Frames)
    BY DEF Wals
  <1>2. last \in 0..Len(wal.frames) /\ Len(wal.frames) \in Nat /\ DOMAIN wal.frames = 1..Len(wal.frames)
    BY <1>1, LastCommitProperties
  <1>3. /\ LatestFrame(p) \in 0..last
        /\ LatestFrame(p) # 0 =>
             LatestFrame(p) \in DOMAIN wal.frames /\ wal.frames[LatestFrame(p)].pgno = p
        /\ \A i \in 1..last : wal.frames[i].pgno = p => LatestFrame(p) # 0 /\ i <= LatestFrame(p)
    BY LatestProperties
  <1> HIDE DEF last
  <1>4. LatestFrame(p) = 0 => NoFrame(p, 1, last)
    BY <1>2, <1>3 DEF NoFrame
  <1>5. LatestFrame(p) # 0 => LastOfPage(LatestFrame(p), last)
    BY <1>2, <1>3 DEF NoFrame, LastOfPage
  <1> QED
    BY <1>3, <1>4, <1>5 DEF last

\* Every secured frame counts as committed.
LEMMA SecuredCounts ==
  ASSUME wal \in Wals, SecuredIsCommitted
  PROVE  /\ wal.secured \in Nat /\ wal.secured <= LastCommitFrame(wal.frames)
         /\ LastCommitFrame(wal.frames) <= Len(wal.frames)
         /\ LastCommitFrame(wal.frames) \in Nat /\ Len(wal.frames) \in Nat
         /\ DOMAIN wal.frames = 1..Len(wal.frames)
  <1>1. wal.frames \in Seq(Frames) /\ wal.secured \in Nat
    BY DEF Wals
  <1>2. /\ LastCommitFrame(wal.frames) \in 0..Len(wal.frames)
        /\ \A i \in DOMAIN wal.frames : wal.frames[i].size # 0 => i <= LastCommitFrame(wal.frames)
    BY <1>1, LastCommitProperties
  <1>3. wal.secured \in 0..Len(wal.frames) /\ DOMAIN wal.frames = 1..Len(wal.frames)
        /\ Len(wal.frames) \in Nat
    BY <1>1 DEF SecuredIsCommitted
  <1> QED
    BY <1>2, <1>3 DEF SecuredIsCommitted

\* A page of which the log holds no uncommitted frame is stored as committed.
LEMMA StoredIsCommitted ==
  ASSUME WalInv, NEW p \in Pages,
         \A i \in DOMAIN wal.frames : i > wal.secured => wal.frames[i].pgno # p
  PROVE  /\ Stored(p).val = committed[p]
         /\ LatestFrame(p) <= wal.secured
         /\ LatestFrame(p) = 0 => synced.data[p].val = committed[p]
  <1> DEFINE n == LatestFrame(p)
             last == LastCommitFrame(wal.frames)
  <1>1. wal \in Wals /\ SecuredIsCommitted /\ LogHoldsCommitted
    BY DEF WalInv, TypeOK
  <1>2. wal.secured \in Nat /\ wal.secured <= last /\ last \in Nat
        /\ DOMAIN wal.frames = 1..Len(wal.frames) /\ Len(wal.frames) \in Nat
    BY <1>1, SecuredCounts
  <1>3. /\ n # 0 => n \in DOMAIN wal.frames /\ wal.frames[n].pgno = p /\ LastOfPage(n, last)
        /\ n = 0 => NoFrame(p, 1, last)
    BY <1>1, LatestIsLast
  <1>4. CASE n # 0
    <2>1. n \in DOMAIN wal.frames /\ wal.frames[n].pgno = p /\ n <= wal.secured
      BY <1>2, <1>3, <1>4
    <2>2. LastOfPage(n, wal.secured)
      BY <1>2, <1>3, <1>4, <2>1 DEF LastOfPage, NoFrame
    <2> QED
      BY <1>1, <1>4, <2>1, <2>2 DEF LogHoldsCommitted, Stored
  <1>5. CASE n = 0
    <2>1. NoFrame(p, 1, wal.secured)
      BY <1>2, <1>3, <1>5 DEF NoFrame
    <2> QED
      BY <1>1, <1>2, <1>5, <2>1 DEF LogHoldsCommitted, Stored
  <1> QED
    BY <1>4, <1>5

\* At any moment the connection sees its own changes, and the last commit
\* everywhere else.
LEMMA SeenIsOwnOrCommitted ==
  ASSUME WalInv, NEW p \in Pages
  PROVE  View(p).val = IF Dirty(p) THEN cache[p].data.val ELSE committed[p]
  <1>1. CASE Dirty(p)
    BY <1>1 DEF View, Dirty
  <1>2. CASE ~Dirty(p) /\ Cached(p)
    BY <1>2 DEF View, WalInv, CleanIsCommitted
  <1>3. CASE ~Cached(p)
    <2>1. ~Dirty(p)
      BY <1>3 DEF Dirty
    <2>2. \A i \in DOMAIN wal.frames : i > wal.secured => wal.frames[i].pgno # p
      BY <2>1 DEF WalInv, TailIsDirty
    <2> QED
      BY <1>3, <2>1, <2>2, StoredIsCommitted DEF View
  <1> QED
    BY <1>1, <1>2, <1>3

\* The parts of a frame.
LEMMA FrameType ==
  ASSUME wal \in Wals, NEW i \in DOMAIN wal.frames
  PROVE  wal.frames[i].pgno \in Pages /\ wal.frames[i].data \in Contents
  <1>1. wal.frames[i] \in Frames
    BY ElementOfSeq DEF Wals
  <1> QED
    BY <1>1 DEF Frames

-----------------------------------------------------------------------------
\* What steps that leave the log and the files alone preserve

\* The secured part of the log is as it was.
LEMMA LogFrame ==
  ASSUME WalInv, wal'.frames = wal.frames, wal'.secured = wal.secured,
         UNCHANGED <<file, synced, committed>>, Appending => Appending'
  PROVE  SecuredIsCommitted' /\ LogHoldsCommitted'
  BY DEF WalInv, SecuredIsCommitted, LogHoldsCommitted, LastOfPage, NoFrame

\* The log has no tail unless a commit is under way.
LEMMA NoTail ==
  ASSUME wal \in Wals, SecuredIsCommitted, ~Appending, NEW i \in DOMAIN wal.frames
  PROVE  i <= wal.secured
  BY DEF Wals, SecuredIsCommitted

\* A step between two calls, or to the end of one, that leaves the log and the
\* files alone, keeps all that the invariant says of them.
LEMMA BetweenCalls ==
  ASSUME WalInv, TypeOK', wal'.frames = wal.frames, wal'.secured = wal.secured,
         UNCHANGED <<file, synced, committed>>, ~Appending, call'.op = "none"
  PROVE  SecuredIsCommitted' /\ LogHoldsCommitted' /\ TailIsDirty' /\ AppendedSoFar'
         /\ CopiedSoFar'
  <1>1. SecuredIsCommitted' /\ LogHoldsCommitted'
    BY LogFrame
  <1>2. \A i \in DOMAIN wal.frames : i <= wal.secured
    BY NoTail DEF WalInv, TypeOK
  <1>3. wal.secured \in Nat /\ DOMAIN wal.frames \subseteq Nat
    BY DEF WalInv, TypeOK, Wals
  <1>4. TailIsDirty'
    BY <1>2, <1>3 DEF TailIsDirty
  <1> QED
    BY <1>1, <1>4 DEF AppendedSoFar, CopiedSoFar

-----------------------------------------------------------------------------
\* Reading and writing

\* acquire: what comes into the cache is as committed.
LEMMA ReadKeepsWalInv ==
  ASSUME WalInv, TypeOK', Read
  PROVE  WalInv'
  <1>1. PICK p \in Pages : Acquire(p)
    BY DEF Read
  <1>2. /\ call.op \in {"none", "failed"}
        /\ UNCHANGED <<file, synced, dirtyOrder, dbSize, state, savepoints, call, committed, wal>>
    BY <1>1 DEF Acquire, Idle
  <1>3. \A q \in Pages :
          /\ \/ cache'[q] = cache[q]
             \/ cache'[q] = Absent /\ ~Dirty(q)
             \/ ~Cached(q) /\ cache'[q] = Clean(Stored(q))
          /\ cache'[q] # Absent /\ cache'[q].dirty <=> Dirty(q)
    BY <1>1, LoadedSlots DEF Acquire, WalInv
  <1>4. \A q \in Pages : Dirty(q)' <=> Dirty(q)
    BY <1>3 DEF Dirty, Cached
  <1>5. \A q \in Pages : Dirty(q) => cache'[q] = cache[q]
    BY <1>3 DEF Dirty, Cached
  <1>6. TxnHasLog' /\ DirtyInside'
    BY <1>2, <1>4 DEF WalInv, TxnHasLog, DirtyInside, Appending, InTxn
  <1>7. ListInv'
    BY <1>2, <1>4, SameList DEF WalInv
  <1>8. SecuredIsCommitted' /\ LogHoldsCommitted'
    BY <1>2, LogFrame DEF Appending
  <1>9. TailIsDirty'
    BY <1>2, <1>4, <1>5, FrameType DEF WalInv, TypeOK, TailIsDirty
  <1>10. CleanIsCommitted'
    <2> SUFFICES ASSUME NEW q \in Pages, Cached(q)', ~Dirty(q)' \/ state = "WriterLocked"
                 PROVE  cache'[q].data.val = committed[q]
      BY <1>2 DEF CleanIsCommitted
    <2>1. CASE cache'[q] = cache[q]
      BY <1>4, <2>1 DEF WalInv, CleanIsCommitted, Cached
    <2>2. CASE ~Cached(q) /\ cache'[q] = Clean(Stored(q))
      <3>1. View(q).val = committed[q] /\ View(q) = Stored(q)
        BY <2>2, SeenIsOwnOrCommitted DEF View, Dirty
      <3> QED
        BY <2>2, <3>1 DEF Clean
    <2> QED
      BY <1>3, <2>1, <2>2 DEF Cached
  <1> QED
    BY <1>2, <1>6, <1>7, <1>8, <1>9, <1>10 DEF WalInv, AppendedSoFar, CopiedSoFar

\* begin_write.
LEMMA BeginWriteKeepsWalInv ==
  ASSUME WalInv, TypeOK', BeginWrite
  PROVE  WalInv'
  <1>1. /\ call.op = "none" /\ ~InTxn /\ state' = "Writer"
        /\ wal'.frames = wal.frames /\ wal'.secured = wal.secured
        /\ UNCHANGED <<file, synced, cache, dirtyOrder, dbSize, savepoints, call, committed>>
    BY DEF BeginWrite, Idle, WalInv, TypeOK, Wals
  <1>2. TxnHasLog' /\ DirtyInside'
    BY <1>1 DEF WalInv, TxnHasLog, DirtyInside, Appending, InTxn, Dirty, Cached
  <1>3. ListInv'
    BY <1>1, SameList DEF WalInv, Dirty, Cached
  <1>4. CleanIsCommitted'
    BY <1>1 DEF WalInv, CleanIsCommitted, Dirty, Cached
  <1> QED
    BY <1>1, <1>2, <1>3, <1>4, BetweenCalls DEF WalInv, Appending

\* write_access and the caller's change, for all that a caller may write.
LEMMA WriteAccessKeepsWalInv ==
  ASSUME WalInv, TypeOK', state = "Writer", NEW p \in Pages, NEW c \in Contents,
         WriteAccess(p, c)
  PROVE  /\ WalInv'
         /\ Dirty(p)' /\ cache'[p].data = c
         /\ \A q \in Pages \ {p} : /\ Dirty(q)' <=> Dirty(q)
                                   /\ Dirty(q) => cache'[q] = cache[q]
  <1>1. PICK before \in Writable(p) : Modify(before, p, c)
    BY DEF WriteAccess
  <1>2. /\ call.op = "none" /\ UNCHANGED wal
        /\ UNCHANGED <<file, synced, state, savepoints, call, committed>>
    BY <1>1 DEF WriteAccess, Modify, Idle
  <1>3. /\ before \in [Pages -> Slots] /\ before[p] # Absent
        /\ \A q \in Pages : /\ q # p => before[q] = cache[q] \/ (before[q] = Absent /\ ~Dirty(q))
                            /\ before[q] # Absent /\ before[q].dirty <=> Dirty(q)
    BY WritableSlots DEF WalInv
  <1>4. \A q \in Pages : Dirty(q)' <=> Dirty(q) \/ q = p
    BY <1>1, <1>3, ModifyDirties
  <1>5. ListInv'
    BY <1>1, <1>3, ModifyKeepsList DEF WalInv, TypeOK
  <1>6. cache' = [before EXCEPT ![p] = [data |-> c, dirty |-> TRUE]]
    BY <1>1 DEF Modify
  <1>7. cache'[p].data = c /\ \A q \in Pages \ {p} : cache'[q] = before[q]
    BY <1>3, <1>6
  <1>8. DirtyInside'
    <2>1. dbSize' \in Int /\ dbSize \in Int /\ dbSize <= dbSize' /\ p <= dbSize'
      BY <1>1, <1>3, PagerConstants
         DEF Modify, Larger, WalInv, DirtyInside, TypeOK, PagerTypeOK, Pages
    <2> QED
      BY <1>2, <1>4, <2>1 DEF WalInv, DirtyInside, Pages
  <1>9. TxnHasLog'
    BY <1>2 DEF WalInv, TxnHasLog, Appending, InTxn
  <1>10. CleanIsCommitted'
    <2> SUFFICES ASSUME NEW q \in Pages, Cached(q)', ~Dirty(q)'
                 PROVE  cache'[q].data.val = committed[q]
      BY <1>2 DEF CleanIsCommitted
    <2>1. q # p /\ ~Dirty(q) /\ cache'[q] = before[q]
      BY <1>4, <1>7
    <2>2. cache'[q] = cache[q]
      BY <1>3, <2>1 DEF Cached
    <2> QED
      BY <2>1, <2>2 DEF WalInv, CleanIsCommitted, Cached
  <1>11. SecuredIsCommitted' /\ LogHoldsCommitted' /\ TailIsDirty' /\ AppendedSoFar' /\ CopiedSoFar'
    BY <1>2, BetweenCalls DEF Appending
  <1>12. \A q \in Pages \ {p} : Dirty(q) => cache'[q] = cache[q]
    BY <1>3, <1>7 DEF Dirty, Cached
  <1> QED
    BY <1>4, <1>5, <1>7, <1>8, <1>9, <1>10, <1>11, <1>12 DEF WalInv

\* savepoint, savepoint_rollback and savepoint_release.
LEMMA NestKeepsWalInv ==
  ASSUME WalInv, TypeOK', Nest
  PROVE  WalInv'
  <1>0. PagerTypeOK /\ savepoints \in Seq(Snapshots) /\ state = "Writer"
    BY DEF WalInv, TypeOK, PagerTypeOK, Nest
  <1>1. CASE OpenSavepoint /\ UNCHANGED wal
    <2>1. call.op = "none"
          /\ UNCHANGED <<file, synced, cache, dirtyOrder, dbSize, state, call, committed, wal>>
      BY <1>1 DEF OpenSavepoint, Idle
    <2>2. PICK sp \in Snapshots :
            /\ savepoints' = Append(savepoints, sp)
            /\ sp.size = dbSize
            /\ \A p \in Pages : sp.dirty[p] # Absent <=> Dirty(p)
      BY <1>0, <1>1, SnapshotOfDirty DEF WalInv, ListInv
    <2>3. DirtyInside'
      <3> SUFFICES ASSUME NEW p \in Pages, NEW k \in DOMAIN savepoints',
                          savepoints'[k].dirty[p] # Absent
                   PROVE  p <= savepoints'[k].size
        BY <2>1 DEF WalInv, DirtyInside, Dirty, Cached
      <3>1. CASE k \in DOMAIN savepoints
        <4>1. savepoints'[k] = savepoints[k]
          BY <1>0, <2>2, <3>1
        <4> QED
          BY <3>1, <4>1 DEF WalInv, DirtyInside
      <3>2. CASE k \notin DOMAIN savepoints
        <4>1. savepoints'[k] = sp
          BY <1>0, <2>2, <3>2
        <4> QED
          BY <2>2, <4>1 DEF WalInv, DirtyInside
      <3> QED
        BY <3>1, <3>2
    <2>4. ListInv'
      BY <1>0, <1>1, OpenSavepointKeepsList DEF WalInv
    <2>5. TxnHasLog' /\ CleanIsCommitted'
      BY <1>0, <2>1 DEF WalInv, TxnHasLog, CleanIsCommitted, Appending, InTxn, Dirty, Cached
    <2> QED
      BY <2>1, <2>3, <2>4, <2>5, BetweenCalls DEF WalInv, Appending
  <1>2. ASSUME NEW k \in DOMAIN savepoints, SavepointRelease(k), UNCHANGED wal
        PROVE  WalInv'
    <2>1. call.op = "none"
          /\ UNCHANGED <<file, synced, cache, dirtyOrder, dbSize, state, call, committed, wal>>
      BY <1>2 DEF SavepointRelease, Idle
    <2>2. k \in 1..Len(savepoints) /\ savepoints' = SubSeq(savepoints, 1, k - 1)
      BY <1>0, <1>2 DEF SavepointRelease
    <2>3. DOMAIN savepoints' \subseteq DOMAIN savepoints
          /\ \A j \in DOMAIN savepoints' : savepoints'[j] = savepoints[j]
      BY <1>0, <2>2, SubSeqProperties
    <2>4. DirtyInside'
      BY <2>1, <2>3 DEF WalInv, DirtyInside, Dirty, Cached
    <2>5. ListInv'
      BY <1>0, <1>2, SavepointReleaseKeepsList DEF WalInv
    <2>6. TxnHasLog' /\ CleanIsCommitted'
      BY <1>0, <2>1 DEF WalInv, TxnHasLog, CleanIsCommitted, Appending, InTxn, Dirty, Cached
    <2> QED
      BY <2>1, <2>4, <2>5, <2>6, BetweenCalls DEF WalInv, Appending
  <1>3. ASSUME NEW k \in DOMAIN savepoints, SavepointRollback(k), UNCHANGED wal
        PROVE  WalInv'
    <2> DEFINE sp == savepoints[k]
    <2>1. /\ call.op = "none" /\ dbSize' = sp.size /\ state' = "Writer"
          /\ UNCHANGED <<file, synced, call, committed, wal>>
      BY <1>3 DEF SavepointRollback, Idle
    <2>2. k \in 1..Len(savepoints) /\ savepoints' = SubSeq(savepoints, 1, k)
      BY <1>0, <1>3 DEF SavepointRollback
    <2>3. DOMAIN savepoints' \subseteq DOMAIN savepoints
          /\ \A j \in DOMAIN savepoints' : savepoints'[j] = savepoints[j]
      BY <1>0, <2>2, SubSeqProperties
    <2>4. ASSUME NEW p \in Pages
          PROVE  /\ Dirty(p)' => sp.dirty[p] # Absent
                 /\ Cached(p)' /\ ~Dirty(p)' => Cached(p) /\ ~Dirty(p) /\ cache'[p] = cache[p]
      <3>1. IF sp.dirty[p] = Absent
              THEN cache'[p] = Absent \/ (Cached(p) /\ ~Dirty(p) /\ cache'[p] = cache[p])
              ELSE cache'[p] # Absent /\ cache'[p].dirty /\ cache'[p].data = sp.dirty[p]
        BY <1>0, <1>3, RolledBackSlot DEF WalInv
      <3> HIDE DEF sp
      <3> QED
        BY <3>1 DEF Dirty, Cached
    <2>5. DirtyInside'
      BY <2>1, <2>3, <2>4 DEF WalInv, DirtyInside
    <2>6. ListInv'
      BY <1>0, <1>3, SavepointRollbackKeepsList DEF WalInv
    <2>7. TxnHasLog'
      BY <2>1 DEF WalInv, TxnHasLog, Appending, InTxn
    <2>8. CleanIsCommitted'
      BY <2>1, <2>4 DEF WalInv, CleanIsCommitted
    <2> QED
      BY <2>1, <2>5, <2>6, <2>7, <2>8, BetweenCalls DEF WalInv, Appending
  <1> QED
    BY <1>1, <1>2, <1>3 DEF Nest

-----------------------------------------------------------------------------
\* Committing and rolling back

\* Between calls or after a failure, a commit begins.
LEMMA StartAppendKeepsWalInv ==
  ASSUME WalInv, TypeOK', StartAppend
  PROVE  WalInv'
  <1>1. /\ InTxn /\ call' = [op |-> "append", at |-> 1]
        /\ UNCHANGED <<file, synced, cache, dirtyOrder, dbSize, state, savepoints, committed, wal>>
    BY DEF StartAppend
  <1>2. ListInv'
    BY <1>1, SameList DEF WalInv, Dirty, Cached
  <1>3. SecuredIsCommitted' /\ LogHoldsCommitted'
    BY <1>1, LogFrame DEF Appending
  <1>4. DirtyInside' /\ TailIsDirty' /\ CleanIsCommitted' /\ CopiedSoFar' /\ TxnHasLog'
    BY <1>1 DEF WalInv, DirtyInside, TailIsDirty, CleanIsCommitted, CopiedSoFar, TxnHasLog,
                Appending, InTxn, Dirty, Cached
  <1>5. AppendedSoFar'
    BY <1>1 DEF WalInv, AppendedSoFar, TypeOK, PagerTypeOK
  <1> QED
    BY <1>2, <1>3, <1>4, <1>5 DEF WalInv

\* The page a commit appends next is dirty, and its frame goes behind the
\* secured part of the log.
LEMMA AppendFrameKeepsWalInv ==
  ASSUME WalInv, TypeOK', AppendFrame
  PROVE  WalInv'
  <1> DEFINE p == dirtyOrder[call.at]
             n == Len(wal.frames)
  <1>1. /\ call.op = "append" /\ call.at \in DOMAIN dirtyOrder
        /\ call' = [call EXCEPT !.at = @ + 1]
        /\ UNCHANGED <<file, synced, cache, dirtyOrder, dbSize, state, savepoints, committed>>
    BY DEF AppendFrame
  <1>2. /\ TypeOK /\ PagerTypeOK /\ wal \in Wals /\ call \in Calls /\ dirtyOrder \in Seq(Pages)
        /\ wal' \in Wals /\ ListInv
    BY DEF WalInv, TypeOK, PagerTypeOK
  <1>3. call'.op = "append" /\ call'.at = call.at + 1 /\ call.at \in 1..Len(dirtyOrder)
        /\ Len(dirtyOrder) \in Nat
    BY <1>1, <1>2 DEF Calls
  <1>4. p \in Pages /\ Dirty(p)
    <2>1. p \in Front(Len(dirtyOrder))
      BY <1>3 DEF Front
    <2>2. p \in Pages
      BY <1>2, AppendFrameType
    <2> QED
      BY <1>2, <2>1, <2>2 DEF ListInv, ListsDirty
  <1>5. /\ Len(wal'.frames) = n + 1
        /\ wal'.frames[n + 1] = [pgno |-> p, data |-> cache[p].data, size |-> FrameDbSize(call.at)]
        /\ \A i \in 1..n : wal'.frames[i] = wal.frames[i]
        /\ wal'.secured = wal.secured
    BY <1>2, <1>4, AppendFrameType
  <1>6. /\ wal'.frames[n + 1].pgno = p /\ wal'.frames[n + 1].data = cache[p].data
        /\ wal'.frames[n + 1].size = FrameDbSize(call.at)
    BY <1>5
  <1>7. /\ n \in Nat /\ DOMAIN wal.frames = 1..n /\ DOMAIN wal'.frames = 1..(n + 1)
        /\ wal.secured \in Nat /\ wal.secured <= n
    BY <1>2, <1>5 DEF Wals, WalInv, SecuredIsCommitted
  <1> HIDE DEF p, n
  <1>8. ListInv'
    BY <1>1, <1>2, SameList DEF Dirty, Cached
  <1>9. DirtyInside' /\ CleanIsCommitted' /\ CopiedSoFar' /\ TxnHasLog'
    BY <1>1, <1>3 DEF WalInv, DirtyInside, CleanIsCommitted, CopiedSoFar, TxnHasLog, Appending,
                      InTxn, Dirty, Cached
  <1>10. SecuredIsCommitted'
    BY <1>3, <1>5, <1>7 DEF WalInv, SecuredIsCommitted, Appending
  <1>11. \A q \in Pages : NoFrame(q, 1, wal.secured)' => NoFrame(q, 1, wal.secured)
    BY <1>5, <1>7 DEF NoFrame
  <1>12. LogHoldsCommitted'
    <2>1. ASSUME NEW i \in DOMAIN wal'.frames, LastOfPage(i, wal.secured)'
          PROVE  wal'.frames[i].data.val = committed[wal'.frames[i].pgno]
      <3>1. i \in DOMAIN wal.frames /\ wal'.frames[i] = wal.frames[i]
        BY <1>5, <1>7, <2>1 DEF LastOfPage
      <3>2. LastOfPage(i, wal.secured)
        BY <1>5, <1>7, <2>1, <3>1 DEF LastOfPage, NoFrame
      <3> QED
        BY <3>1, <3>2 DEF WalInv, LogHoldsCommitted
    <2>2. ASSUME NEW q \in Pages, NoFrame(q, 1, wal.secured)'
          PROVE  file.data[q].val = committed[q] /\ synced.data[q].val = committed[q]
      BY <1>11, <2>2 DEF WalInv, LogHoldsCommitted
    <2> QED
      BY <1>1, <1>5, <2>1, <2>2 DEF LogHoldsCommitted
  <1>13. TailIsDirty'
    <2> SUFFICES ASSUME NEW i \in DOMAIN wal'.frames, i > wal.secured
                 PROVE  Dirty(wal'.frames[i].pgno)
                        /\ wal'.frames[i].data = cache[wal'.frames[i].pgno].data
      BY <1>1, <1>5 DEF TailIsDirty, Dirty, Cached
    <2>1. CASE i \in 1..n
      BY <1>5, <1>7, <2>1 DEF WalInv, TailIsDirty
    <2>2. CASE i = n + 1
      BY <1>4, <1>6, <2>2
    <2> QED
      BY <1>7, <2>1, <2>2
  <1>14. AppendedSoFar'
    <2>1. ASSUME NEW k \in DOMAIN dirtyOrder, k < call.at + 1
          PROVE  \E i \in DOMAIN wal'.frames :
                   i > wal.secured /\ wal'.frames[i].pgno = dirtyOrder[k]
      <3>1. CASE k < call.at
        <4>1. PICK i \in DOMAIN wal.frames : i > wal.secured /\ wal.frames[i].pgno = dirtyOrder[k]
          BY <1>1, <3>1 DEF WalInv, AppendedSoFar
        <4> QED
          BY <1>5, <1>7, <4>1
      <3>2. CASE k = call.at
        BY <1>6, <1>7, <3>2 DEF p
      <3> QED
        BY <1>2, <1>3, <2>1, <3>1, <3>2
    <2>2. ASSUME call.at + 1 = Len(dirtyOrder) + 1
          PROVE  wal'.frames[n + 1].size # 0
      <3>1. FrameDbSize(call.at) = dbSize
        BY <1>3, <2>2 DEF FrameDbSize, LastDirty
      <3>2. p <= dbSize /\ dbSize \in Int
        BY <1>2, <1>4, PagerConstants DEF WalInv, DirtyInside, PagerTypeOK
      <3> QED
        BY <1>4, <1>6, <3>1, <3>2, PagerConstants DEF Pages
    <2> QED
      BY <1>1, <1>3, <1>5, <2>1, <2>2 DEF AppendedSoFar
  <1> QED
    BY <1>8, <1>9, <1>10, <1>12, <1>13, <1>14 DEF WalInv

\* The sync makes all of the log committed: what it holds of the dirty pages
\* is what the connection sees in them, and no dirty page is missing.
LEMMA SyncWalKeepsWalInv ==
  ASSUME WalInv, TypeOK', SyncWal
  PROVE  WalInv'
  <1>0. PICK n : n = Len(wal.frames)
    OBVIOUS
  <1>1. /\ call.op = "append" /\ call.at = Len(dirtyOrder) + 1
        /\ wal' = [wal EXCEPT !.secured = Len(wal.frames)]
        /\ state' = "WriterLocked" /\ call' = [op |-> "none", at |-> 0]
        /\ committed' = [p \in Pages |-> View(p).val]
        /\ UNCHANGED <<file, synced, cache, dirtyOrder, dbSize, savepoints>>
    BY DEF SyncWal
  <1>2. /\ wal \in Wals /\ wal.frames \in Seq(Frames) /\ dirtyOrder \in Seq(Pages)
        /\ ListInv /\ wal' \in Wals
    BY DEF WalInv, TypeOK, PagerTypeOK, Wals
  <1>3. /\ wal'.frames = wal.frames /\ wal'.secured = n
        /\ n \in Nat /\ DOMAIN wal.frames = 1..n /\ wal.secured \in Nat /\ wal.secured <= n
    BY <1>0, <1>1, <1>2 DEF Wals, WalInv, SecuredIsCommitted
  <1>4. \A p \in Pages : committed'[p] = IF Dirty(p) THEN cache[p].data.val ELSE committed[p]
    BY <1>1, SeenIsOwnOrCommitted
  <1>5. ASSUME NEW p \in Pages, Dirty(p)
        PROVE  \E i \in DOMAIN wal.frames : i > wal.secured /\ wal.frames[i].pgno = p
    <2>1. PICK k \in 1..Len(dirtyOrder) : dirtyOrder[k] = p
      BY <1>2, <1>5 DEF ListInv, ListsDirty, Front
    <2>2. k \in DOMAIN dirtyOrder /\ k < call.at
      BY <1>1, <1>2
    <2> QED
      BY <1>1, <2>1, <2>2 DEF WalInv, AppendedSoFar
  <1>6. SecuredIsCommitted'
    <2>1. ASSUME n > 0 PROVE wal.frames[n].size # 0
      <3>1. CASE Len(dirtyOrder) > 0
        BY <1>0, <1>1, <1>2, <3>1 DEF WalInv, AppendedSoFar
      <3>2. CASE Len(dirtyOrder) = 0
        <4>1. \A p \in Pages : ~Dirty(p)
          BY <1>2, <3>2 DEF ListInv, ListsDirty, Front
        <4>2. n <= wal.secured
          BY <1>2, <1>3, <2>1, <4>1, FrameType DEF WalInv, TailIsDirty
        <4> QED
          BY <1>3, <2>1, <4>2 DEF WalInv, SecuredIsCommitted
      <3> QED
        BY <1>2, <3>1, <3>2
    <2> QED
      BY <1>0, <1>3, <2>1 DEF SecuredIsCommitted
  <1>7. LogHoldsCommitted'
    <2>1. ASSUME NEW i \in DOMAIN wal.frames, LastOfPage(i, n)
          PROVE  wal.frames[i].data.val = committed'[wal.frames[i].pgno]
      <3>1. wal.frames[i].pgno \in Pages
        BY <1>2, FrameType
      <3>2. CASE i > wal.secured
        BY <1>4, <3>1, <3>2 DEF WalInv, TailIsDirty
      <3>3. CASE i <= wal.secured
        <4>1. ~Dirty(wal.frames[i].pgno)
          BY <1>3, <1>5, <2>1, <3>1, <3>3 DEF LastOfPage, NoFrame
        <4>2. LastOfPage(i, wal.secured)
          BY <1>3, <2>1, <3>3 DEF LastOfPage, NoFrame
        <4> QED
          BY <1>4, <3>1, <4>1, <4>2 DEF WalInv, LogHoldsCommitted
      <3> QED
        BY <1>3, <3>2, <3>3
    <2>2. ASSUME NEW p \in Pages, NoFrame(p, 1, n)
          PROVE  file.data[p].val = committed'[p] /\ synced.data[p].val = committed'[p]
      <3>1. ~Dirty(p)
        BY <1>3, <1>5, <2>2 DEF NoFrame
      <3>2. NoFrame(p, 1, wal.secured)
        BY <1>3, <2>2 DEF NoFrame
      <3> QED
        BY <1>4, <3>1, <3>2 DEF WalInv, LogHoldsCommitted
    <2>3. ASSUME NEW i \in DOMAIN wal.frames, LastOfPage(i, wal.secured)'
          PROVE  wal.frames[i].data.val = committed'[wal.frames[i].pgno]
      BY <1>3, <2>1, <2>3 DEF LastOfPage, NoFrame
    <2>4. ASSUME NEW p \in Pages, NoFrame(p, 1, wal.secured)'
          PROVE  file.data[p].val = committed'[p] /\ synced.data[p].val = committed'[p]
      BY <1>3, <2>2, <2>4 DEF NoFrame
    <2>5. \A i \in DOMAIN wal'.frames : LastOfPage(i, wal.secured)' =>
            wal'.frames[i].data.val = committed'[wal'.frames[i].pgno]
      <3>1. wal'.frames = wal.frames
        BY <1>3
      <3> QED
        BY <2>3, <3>1, Zenon
    <2>6. \A p \in Pages : NoFrame(p, 1, wal.secured)' =>
            file'.data[p].val = committed'[p] /\ synced'.data[p].val = committed'[p]
      <3>1. file' = file /\ synced' = synced
        BY <1>1
      <3> QED
        BY <2>4, <3>1, Zenon
    <2> QED
      BY <2>5, <2>6, Zenon DEF LogHoldsCommitted
  <1>8. TailIsDirty'
    BY <1>3 DEF TailIsDirty
  <1>9. CleanIsCommitted'
    BY <1>1, <1>4 DEF WalInv, CleanIsCommitted, Dirty, Cached
  <1>10. ListInv'
    BY <1>1, <1>2, SameList DEF Dirty, Cached
  <1>11. DirtyInside' /\ TxnHasLog' /\ AppendedSoFar' /\ CopiedSoFar'
    BY <1>1 DEF WalInv, DirtyInside, TxnHasLog, AppendedSoFar, CopiedSoFar, Appending, InTxn,
                Dirty, Cached
  <1> QED
    BY <1>6, <1>7, <1>8, <1>9, <1>10, <1>11 DEF WalInv

\* A commit that fails keeps everything it needs to be retried.
LEMMA AppendFailsKeepsWalInv ==
  ASSUME WalInv, TypeOK', AppendFails
  PROVE  WalInv'
  <1>1. /\ call.op = "append" /\ call' = [op |-> "failed", at |-> 0]
        /\ UNCHANGED <<file, synced, cache, dirtyOrder, dbSize, state, savepoints, committed, wal>>
    BY DEF AppendFails
  <1>2. ListInv'
    BY <1>1, SameList DEF WalInv, Dirty, Cached
  <1>3. SecuredIsCommitted' /\ LogHoldsCommitted'
    BY <1>1, LogFrame DEF Appending
  <1>4. DirtyInside' /\ TailIsDirty' /\ CleanIsCommitted' /\ CopiedSoFar' /\ TxnHasLog'
        /\ AppendedSoFar'
    BY <1>1 DEF WalInv, DirtyInside, TailIsDirty, CleanIsCommitted, CopiedSoFar, TxnHasLog,
                AppendedSoFar, Appending, InTxn, Dirty, Cached
  <1> QED
    BY <1>2, <1>3, <1>4 DEF WalInv

\* commit_phase_two: the pages that were dirty are as committed.
LEMMA CommitPhaseTwoKeepsWalInv ==
  ASSUME WalInv, TypeOK', state = "WriterLocked", CommitPhaseTwo
  PROVE  /\ WalInv'
         /\ \A p \in Pages : ~Dirty(p)'
  <1>1. /\ call.op = "none" /\ call' = call /\ state' = "Reader"
        /\ cache' = [p \in Pages |-> IF Cached(p) THEN Clean(cache[p].data) ELSE Absent]
        /\ dirtyOrder' = <<>> /\ savepoints' = <<>>
        /\ UNCHANGED <<file, synced, dbSize, committed, wal>>
    BY DEF CommitPhaseTwo, Idle
  <1>2. ASSUME NEW p \in Pages
        PROVE  ~Dirty(p)' /\ (Cached(p)' => cache'[p].data.val = committed[p])
    <2>1. cache[p] # Absent => cache[p].data.val = committed[p]
      BY DEF WalInv, CleanIsCommitted, Cached
    <2> QED
      BY <1>1, <2>1 DEF Dirty, Cached, Clean
  <1>3. ListInv'
    BY <1>1, <1>2, NothingListed
  <1>4. DirtyInside' /\ CleanIsCommitted' /\ TxnHasLog'
    BY <1>1, <1>2 DEF DirtyInside, CleanIsCommitted, TxnHasLog, Appending, InTxn
  <1> QED
    BY <1>1, <1>2, <1>3, <1>4, BetweenCalls DEF WalInv, Appending

\* rollback drops the dirty pages from the cache.
LEMMA RollbackKeepsWalInv ==
  ASSUME WalInv, TypeOK', Idle, Rollback
  PROVE  /\ WalInv'
         /\ \A p \in Pages : ~Dirty(p)'
  <1>1. /\ call.op = "none" /\ call'.op = "none" /\ state' = "Reader"
        /\ cache' = DirtyEvicted
        /\ dirtyOrder' = <<>> /\ savepoints' = <<>>
        /\ UNCHANGED <<file, synced, dbSize, committed, wal>>
    BY DEF Rollback, Idle
  <1>2. ASSUME NEW p \in Pages
        PROVE  ~Dirty(p)' /\ (Cached(p)' => Cached(p) /\ ~Dirty(p) /\ cache'[p] = cache[p])
    <2>1. dirtyOrder \in Seq(Pages)
      BY DEF WalInv, TypeOK, PagerTypeOK
    <2>2. Dirty(p) <=> InDirtyOrder(p)
      BY <2>1 DEF WalInv, ListInv, ListsDirty, Front, InDirtyOrder
    <2>3. cache'[p] = IF InDirtyOrder(p) THEN Absent ELSE cache[p]
      BY <1>1 DEF DirtyEvicted
    <2> QED
      BY <2>2, <2>3 DEF Dirty, Cached
  <1>3. ListInv'
    BY <1>1, <1>2, NothingListed
  <1>4. DirtyInside' /\ TxnHasLog'
    BY <1>1, <1>2 DEF DirtyInside, TxnHasLog, Appending, InTxn
  <1>5. CleanIsCommitted'
    BY <1>1, <1>2 DEF WalInv, CleanIsCommitted
  <1> QED
    BY <1>1, <1>2, <1>3, <1>4, <1>5, BetweenCalls DEF WalInv, Appending

-----------------------------------------------------------------------------
\* Checkpoints

\* An emptied cache holds nothing dirty.
LEMMA EmptiedKeeps ==
  ASSUME WalInv, ~InTxn, ~InTxn', cache' = Emptied \/ cache' = cache,
         UNCHANGED <<dirtyOrder, dbSize, savepoints, committed>>
  PROVE  ListInv' /\ DirtyInside' /\ CleanIsCommitted' /\ \A p \in Pages : ~Dirty(p)'
  <1>1. dirtyOrder' = <<>> /\ savepoints' = <<>>
    BY DEF WalInv, TxnHasLog
  <1>2. \A p \in Pages : ~Dirty(p)
    BY <1>1 DEF WalInv, ListInv, ListsDirty, Front
  <1>3. ASSUME NEW p \in Pages
        PROVE  ~Dirty(p)' /\ (Cached(p)' => cache'[p].data.val = committed[p])
    BY <1>2 DEF Emptied, Dirty, Cached, WalInv, CleanIsCommitted
  <1>4. ListInv'
    BY <1>1, <1>3, NothingListed
  <1> QED
    BY <1>1, <1>3, <1>4 DEF DirtyInside, CleanIsCommitted

\* While a checkpoint runs every frame counts.
LEMMA AllFramesCount ==
  ASSUME WalInv, ~Appending
  PROVE  /\ wal.secured = Len(wal.frames) /\ wal.secured \in Nat
         /\ LastCommitFrame(wal.frames) = wal.secured
         /\ DOMAIN wal.frames = 1..wal.secured
  <1>1. wal \in Wals /\ SecuredIsCommitted
    BY DEF WalInv, TypeOK
  <1>2. wal.secured = Len(wal.frames)
    BY <1>1 DEF SecuredIsCommitted
  <1>3. /\ wal.secured \in Nat /\ wal.secured <= LastCommitFrame(wal.frames)
        /\ LastCommitFrame(wal.frames) <= Len(wal.frames)
        /\ LastCommitFrame(wal.frames) \in Nat /\ Len(wal.frames) \in Nat
        /\ DOMAIN wal.frames = 1..Len(wal.frames)
    BY <1>1, SecuredCounts
  <1> QED
    BY <1>2, <1>3

\* A checkpoint of a log without commits, one that begins and one that fails.
LEMMA CheckpointFrameKeepsWalInv ==
  ASSUME WalInv, TypeOK', (~InTxn /\ (CheckpointNothing \/ StartCheckpoint)) \/ CheckpointFails
  PROVE  WalInv'
  <1>1. /\ ~Appending /\ ~Appending' /\ ~InTxn /\ ~InTxn'
        /\ call'.op \in {"none", "copy"} /\ (call'.op = "copy" => call'.at = 1)
        /\ cache' = Emptied \/ cache' = cache
        /\ UNCHANGED <<file, synced, dirtyOrder, dbSize, state, savepoints, committed, wal>>
    BY DEF CheckpointNothing, StartCheckpoint, CheckpointFails, Idle, Appending, WalInv,
           TxnHasLog, InTxn
  <1>2. ListInv' /\ DirtyInside' /\ CleanIsCommitted'
    BY <1>1, EmptiedKeeps
  <1>3. SecuredIsCommitted' /\ LogHoldsCommitted'
    BY <1>1, LogFrame
  <1>4. TxnHasLog' /\ AppendedSoFar'
    BY <1>1 DEF WalInv, TxnHasLog, AppendedSoFar, Appending
  <1>5. TailIsDirty' /\ CopiedSoFar'
    BY <1>1, AllFramesCount DEF TailIsDirty, CopiedSoFar, LastOfPage
  <1> QED
    BY <1>2, <1>3, <1>4, <1>5 DEF WalInv

\* A copied frame changes the file in a page that the log still has.
LEMMA CopyFrameKeepsWalInv ==
  ASSUME WalInv, TypeOK', CopyFrame
  PROVE  WalInv'
  <1> DEFINE frame == wal.frames[call.at]
  <1>1. /\ call.op = "copy" /\ call' = [call EXCEPT !.at = @ + 1]
        /\ call.at <= LastCommitFrame(wal.frames)
        /\ file' = PWrite(file, frame.pgno, frame.data)
        /\ UNCHANGED <<synced, cache, dirtyOrder, dbSize, state, savepoints, committed, wal>>
    <2>1. call.at \in Nat /\ wal.frames \in Seq(Frames)
      BY DEF WalInv, TypeOK, PagerTypeOK, Calls, Wals
    <2>2. LastCommitFrame(wal.frames) \in Nat
      BY <2>1, LastCommitProperties
    <2> QED
      BY <2>1, <2>2 DEF CopyFrame, CopyDone
  <1>2. ~Appending /\ ~Appending' /\ ~InTxn /\ ~InTxn' /\ call.at >= 1
        /\ call'.op = "copy" /\ call'.at = call.at + 1 /\ call.at \in Nat
        /\ wal \in Wals /\ file \in Files
    BY <1>1 DEF WalInv, TxnHasLog, Appending, InTxn, TypeOK, PagerTypeOK, Calls
  <1>3. /\ wal.secured = Len(wal.frames) /\ wal.secured \in Nat
        /\ LastCommitFrame(wal.frames) = wal.secured
        /\ DOMAIN wal.frames = 1..wal.secured
    BY <1>2, AllFramesCount
  <1>4. call.at \in DOMAIN wal.frames /\ frame.pgno \in Pages /\ frame.data \in Contents
    BY <1>1, <1>2, <1>3, FrameType
  <1>5. ASSUME NEW p \in Pages
        PROVE  file'.data[p] = IF p = frame.pgno THEN frame.data ELSE file.data[p]
    BY <1>1, <1>2, <1>4 DEF PWrite, Files
  <1> HIDE DEF frame
  <1>6. ListInv' /\ DirtyInside' /\ CleanIsCommitted'
    BY <1>1, <1>2, EmptiedKeeps
  <1>7. TxnHasLog' /\ AppendedSoFar' /\ SecuredIsCommitted' /\ TailIsDirty'
    BY <1>1, <1>2, <1>3 DEF WalInv, TxnHasLog, AppendedSoFar, Appending, SecuredIsCommitted,
                            TailIsDirty
  <1>8. LogHoldsCommitted'
    <2>1. ASSUME NEW p \in Pages, NoFrame(p, 1, wal.secured)
          PROVE  file'.data[p].val = committed[p] /\ synced.data[p].val = committed[p]
      <3>1. p # frame.pgno
        BY <1>2, <1>3, <1>4, <2>1 DEF NoFrame, frame
      <3> QED
        BY <1>5, <2>1, <3>1 DEF WalInv, LogHoldsCommitted
    <2>2. \A i \in DOMAIN wal.frames : LastOfPage(i, wal.secured) =>
            wal.frames[i].data.val = committed[wal.frames[i].pgno]
      BY DEF WalInv, LogHoldsCommitted
    <2> QED
      BY <1>1, <2>1, <2>2 DEF LogHoldsCommitted, LastOfPage, NoFrame
  <1>9. CopiedSoFar'
    <2> SUFFICES ASSUME NEW i \in DOMAIN wal.frames, LastOfPage(i, call.at)
                 PROVE  file'.data[wal.frames[i].pgno] = wal.frames[i].data
      BY <1>1, <1>2 DEF CopiedSoFar, LastOfPage, NoFrame
    <2>1. wal.frames[i].pgno \in Pages
      BY <1>2, FrameType
    <2>2. CASE i = call.at
      BY <1>5, <2>1, <2>2 DEF frame
    <2>3. CASE i < call.at
      <3>1. wal.frames[i].pgno # frame.pgno
        BY <1>2, <1>3, <1>4, <2>3 DEF LastOfPage, NoFrame, frame
      <3>2. LastOfPage(i, call.at - 1)
        BY <1>2, <1>3, <2>3 DEF LastOfPage, NoFrame
      <3> QED
        BY <1>1, <1>5, <2>1, <3>1, <3>2 DEF WalInv, CopiedSoFar
    <2> QED
      BY <1>2, <1>3, <2>2, <2>3 DEF LastOfPage
  <1> QED
    BY <1>6, <1>7, <1>8, <1>9 DEF WalInv

\* When all frames are copied the file is as committed, and can be synced.
LEMMA SyncCopiedKeepsWalInv ==
  ASSUME WalInv, TypeOK', SyncCopied
  PROVE  WalInv'
  <1>1. /\ call.op = "copy" /\ call.at > LastCommitFrame(wal.frames) /\ synced' = file
        /\ call'.op \in {"none", "truncate"}
        /\ cache' = Emptied \/ cache' = cache
        /\ UNCHANGED <<file, dirtyOrder, dbSize, state, savepoints, committed, wal>>
    BY DEF SyncCopied, CopyDone
  <1>2. ~Appending /\ ~Appending' /\ ~InTxn /\ ~InTxn' /\ call.at \in Nat /\ wal \in Wals
    BY <1>1 DEF WalInv, TxnHasLog, Appending, InTxn, TypeOK, PagerTypeOK, Calls
  <1>3. /\ wal.secured = Len(wal.frames) /\ wal.secured \in Nat
        /\ LastCommitFrame(wal.frames) = wal.secured
        /\ DOMAIN wal.frames = 1..wal.secured
    BY <1>2, AllFramesCount
  <1>4. ASSUME NEW p \in Pages
        PROVE  file.data[p].val = committed[p]
    <2> DEFINE n == LatestFrame(p)
    <2>1. /\ n # 0 => n \in DOMAIN wal.frames /\ wal.frames[n].pgno = p
                      /\ LastOfPage(n, wal.secured)
          /\ n = 0 => NoFrame(p, 1, wal.secured)
      BY <1>2, <1>3, LatestIsLast
    <2>2. CASE n # 0
      <3>1. LastOfPage(n, call.at - 1)
        BY <1>1, <1>2, <1>3, <2>1, <2>2 DEF LastOfPage, NoFrame
      <3> QED
        BY <1>1, <2>1, <2>2, <3>1 DEF WalInv, CopiedSoFar, LogHoldsCommitted
    <2>3. CASE n = 0
      BY <2>1, <2>3 DEF WalInv, LogHoldsCommitted
    <2> QED
      BY <2>2, <2>3
  <1>5. ListInv' /\ DirtyInside' /\ CleanIsCommitted'
    BY <1>1, <1>2, EmptiedKeeps
  <1>6. TxnHasLog' /\ AppendedSoFar' /\ SecuredIsCommitted' /\ TailIsDirty'
    BY <1>1, <1>2, <1>3 DEF WalInv, TxnHasLog, AppendedSoFar, Appending, SecuredIsCommitted,
                            TailIsDirty
  <1>7. LogHoldsCommitted'
    BY <1>1, <1>4 DEF WalInv, LogHoldsCommitted, LastOfPage, NoFrame
  <1>8. CopiedSoFar'
    BY <1>1, <1>4 DEF CopiedSoFar
  <1> QED
    BY <1>5, <1>6, <1>7, <1>8 DEF WalInv

\* Then the log can be cut.
LEMMA TruncateWalKeepsWalInv ==
  ASSUME WalInv, TypeOK', TruncateWal
  PROVE  WalInv'
  <1>1. /\ call.op = "truncate" /\ call' = [op |-> "none", at |-> 0] /\ cache' = Emptied
        /\ wal'.frames = <<>> /\ wal'.secured = 0
        /\ UNCHANGED <<file, synced, dirtyOrder, dbSize, state, savepoints, committed>>
    BY DEF TruncateWal, WalInv, TypeOK, Wals
  <1>2. ~InTxn /\ ~InTxn'
    BY <1>1 DEF WalInv, TxnHasLog, InTxn
  <1>3. ListInv' /\ DirtyInside' /\ CleanIsCommitted'
    BY <1>1, <1>2, EmptiedKeeps
  <1>4. TxnHasLog' /\ AppendedSoFar' /\ CopiedSoFar' /\ SecuredIsCommitted' /\ TailIsDirty'
    BY <1>1, <1>2 DEF WalInv, TxnHasLog, AppendedSoFar, CopiedSoFar, SecuredIsCommitted,
                      TailIsDirty, Appending
  <1>5. LogHoldsCommitted'
    BY <1>1 DEF WalInv, CopiedSoFar, LogHoldsCommitted
  <1> QED
    BY <1>3, <1>4, <1>5 DEF WalInv

\* A crash between calls keeps the whole log, and of the file's pages those
\* that the log does not have.
LEMMA CrashKeepsWalInv ==
  ASSUME WalInv, TypeOK', call.op \notin {"append", "failed"}, Crash
  PROVE  /\ WalInv'
         /\ \A p \in Pages : ~Dirty(p)'
  <1>1. PICK f \in PowerLoss(file, synced), n \in wal.secured..Len(wal.frames) :
          LET kept == SubSeq(wal.frames, 1, n)
              last == LastCommitFrame(kept)
          IN /\ ReopenedAs(f, IF last # 0 THEN kept[last].size ELSE OpenSize(f))
             /\ wal' = [frames |-> kept, secured |-> n, base |-> last]
    BY DEF Crash
  <1>2. ~Appending /\ wal \in Wals /\ wal.frames \in Seq(Frames)
    BY DEF Appending, WalInv, TypeOK, Wals
  <1>3. /\ wal.secured = Len(wal.frames) /\ wal.secured \in Nat
        /\ DOMAIN wal.frames = 1..wal.secured
    BY <1>2, AllFramesCount
  <1>4. n = wal.secured
    BY <1>1, <1>3
  <1>5. /\ wal'.secured = wal.secured /\ DOMAIN wal'.frames = DOMAIN wal.frames
        /\ Len(wal'.frames) = Len(wal.frames)
        /\ \A i \in DOMAIN wal.frames : wal'.frames[i] = wal.frames[i]
    <2>1. wal'.frames = SubSeq(wal.frames, 1, n) /\ wal'.secured = n
      BY <1>1
    <2> QED
      BY <1>2, <1>3, <1>4, <2>1, SubSeqProperties
  <1>6. /\ file' = f /\ synced' = f /\ cache' = [p \in Pages |-> Absent]
        /\ dirtyOrder' = <<>> /\ savepoints' = <<>> /\ state' = "Unlocked"
        /\ call' = [op |-> "none", at |-> 0] /\ UNCHANGED committed
    BY <1>1 DEF ReopenedAs
  <1>7. \A p \in Pages : f.data[p] = file.data[p] \/ f.data[p] = synced.data[p]
    BY <1>1 DEF PowerLoss
  <1>8. \A p \in Pages : ~Dirty(p)' /\ ~Cached(p)'
    BY <1>6 DEF Dirty, Cached
  <1>9. ListInv'
    BY <1>6, <1>8, NothingListed
  <1>10. DirtyInside' /\ CleanIsCommitted' /\ TxnHasLog' /\ AppendedSoFar' /\ CopiedSoFar'
    BY <1>6, <1>8 DEF DirtyInside, CleanIsCommitted, TxnHasLog, AppendedSoFar, CopiedSoFar,
                      Appending, InTxn
  <1>11. SecuredIsCommitted' /\ TailIsDirty'
    BY <1>3, <1>5 DEF WalInv, SecuredIsCommitted, TailIsDirty
  <1>12. LogHoldsCommitted'
    <2>1. ASSUME NEW i \in DOMAIN wal.frames, LastOfPage(i, wal.secured)'
          PROVE  wal.frames[i].data.val = committed[wal.frames[i].pgno]
      <3>1. LastOfPage(i, wal.secured)
        BY <1>5, <2>1 DEF LastOfPage, NoFrame
      <3> QED
        BY <3>1 DEF WalInv, LogHoldsCommitted
    <2>2. ASSUME NEW p \in Pages, NoFrame(p, 1, wal.secured)'
          PROVE  f.data[p].val = committed[p]
      <3>1. NoFrame(p, 1, wal.secured)
        BY <1>5, <2>2 DEF NoFrame
      <3> QED
        BY <1>7, <3>1 DEF WalInv, LogHoldsCommitted
    <2> QED
      BY <1>5, <1>6, <2>1, <2>2 DEF LogHoldsCommitted
  <1> QED
    BY <1>8, <1>9, <1>10, <1>11, <1>12 DEF WalInv

-----------------------------------------------------------------------------
\* The invariant, and what follows from it

\* The invariant holds of a pager that was just opened.
LEMMA WalInvInit == Init => WalInv
  <1> SUFFICES ASSUME Init PROVE WalInv
    OBVIOUS
  <1>1. TypeOK
    BY TypeInit
  <1>2. PICK f \in InitFiles : Opened(f) /\ committed = Values(f)
    BY DEF Init
  <1>3. /\ file = f /\ synced = f /\ \A p \in Pages : ~Cached(p) /\ ~Dirty(p)
        /\ dirtyOrder = <<>> /\ savepoints = <<>> /\ state = "Unlocked" /\ call.op = "none"
        /\ wal.frames = <<>> /\ wal.secured = 0
    BY <1>2 DEF Opened, Init, Dirty, Cached
  <1>4. ListInv
    BY <1>3 DEF ListInv, NoPageTwice, ListsDirty, SavepointsNest, Front
  <1>5. TxnHasLog /\ DirtyInside /\ SecuredIsCommitted /\ TailIsDirty /\ AppendedSoFar
        /\ CleanIsCommitted /\ CopiedSoFar
    BY <1>3 DEF TxnHasLog, DirtyInside, SecuredIsCommitted, TailIsDirty, AppendedSoFar,
                CleanIsCommitted, CopiedSoFar, Appending, InTxn
  <1>6. LogHoldsCommitted
    BY <1>2, <1>3 DEF LogHoldsCommitted, Values
  <1> QED
    BY <1>1, <1>4, <1>5, <1>6 DEF WalInv

\* Every step of a pager that meets faults keeps it.
LEMMA WalInvStep == WalInv /\ [FaultNext]_vars => WalInv'
  <1> SUFFICES ASSUME WalInv, [FaultNext]_vars PROVE WalInv'
    OBVIOUS
  <1>0. TypeOK'
    BY TypeStep DEF WalInv
  <1>1. CASE Read
    BY <1>0, <1>1, ReadKeepsWalInv
  <1>2. CASE BeginWrite
    BY <1>0, <1>2, BeginWriteKeepsWalInv
  <1>3. CASE Write
    BY <1>0, <1>3, WriteIsWriteAccess, WriteAccessKeepsWalInv DEF WalInv
  <1>4. CASE Nest
    BY <1>0, <1>4, NestKeepsWalInv
  <1>5. CASE CommitStep
    BY <1>0, <1>5, StartAppendKeepsWalInv, AppendFrameKeepsWalInv, SyncWalKeepsWalInv,
       CommitPhaseTwoKeepsWalInv DEF CommitStep
  <1>6. CASE CheckpointStep
    BY <1>0, <1>6, CheckpointFrameKeepsWalInv, CopyFrameKeepsWalInv, SyncCopiedKeepsWalInv,
       TruncateWalKeepsWalInv DEF CheckpointStep
  <1>7. CASE Idle /\ Rollback
    BY <1>0, <1>7, RollbackKeepsWalInv
  <1>8. CASE AppendFails \/ CheckpointFails
    BY <1>0, <1>8, AppendFailsKeepsWalInv, CheckpointFrameKeepsWalInv
  <1>9. CASE call.op \notin {"append", "failed"} /\ Crash
    BY <1>0, <1>9, CrashKeepsWalInv
  <1>10. CASE UNCHANGED vars
    BY <1>10 DEF vars, pagerVars, WalInv, TypeOK, PagerTypeOK, TxnHasLog, ListInv, NoPageTwice,
                 ListsDirty, SavepointsNest, Front, DirtyInside, SecuredIsCommitted,
                 LogHoldsCommitted, LastOfPage, NoFrame, TailIsDirty, AppendedSoFar,
                 CleanIsCommitted, CopiedSoFar, Appending, InTxn, Dirty, Cached
  <1> QED
    BY <1>1, <1>2, <1>3, <1>4, <1>5, <1>6, <1>7, <1>8, <1>9, <1>10 DEF FaultNext, Next

\* The log and what relates it to the file, the cache and the last commit
\* stay in step through commits, checkpoints, failures and crashes.
THEOREM WalInvariant == FaultSpec => []WalInv
  BY WalInvInit, WalInvStep, PTL DEF FaultSpec

\* What was committed survives: the log over the database file gives the
\* committed pages, whatever a power loss keeps, and during a checkpoint.
THEOREM LogSurvives == FaultSpec => []CommittedSurvives
  <1>1. ASSUME WalInv PROVE CommittedSurvives
    <2> SUFFICES ASSUME call.op \notin {"append", "failed"}, NEW p \in Pages
                 PROVE  IF LatestFrame(p) # 0
                          THEN LatestFrame(p) <= wal.secured
                               /\ wal.frames[LatestFrame(p)].data.val = committed[p]
                          ELSE {file.data[p].val, synced.data[p].val} = {committed[p]}
      BY DEF CommittedSurvives
    <2>1. \A i \in DOMAIN wal.frames : i <= wal.secured
      BY <1>1, NoTail DEF WalInv, TypeOK, Appending
    <2>2. wal.secured \in Nat /\ DOMAIN wal.frames \subseteq Nat
      BY <1>1 DEF WalInv, TypeOK, Wals
    <2>3. /\ Stored(p).val = committed[p]
          /\ LatestFrame(p) <= wal.secured
          /\ LatestFrame(p) = 0 => synced.data[p].val = committed[p]
      BY <1>1, <2>1, <2>2, StoredIsCommitted
    <2> QED
      BY <2>3 DEF Stored
  <1> QED
    BY <1>1, WalInvariant, PTL

-----------------------------------------------------------------------------
\* The page store

\* The value the connection sees in page p, and what the abstract store may do
\* in one step.
Seen(p) == View(p).val
StoreStep == [Store!Next]_(Store!vars)

\* The connection sees its own changes, and the last commit everywhere else.
SeesOwnOrCommitted ==
  \A p \in Pages : Seen(p) = IF Dirty(p) THEN cache[p].data.val ELSE committed[p]

\* The invariant with what follows from it for the connection.
SeenInv == WalInv /\ SeesOwnOrCommitted

LEMMA WalInvIsSeen == WalInv => SeenInv
  BY SeenIsOwnOrCommitted DEF SeenInv, SeesOwnOrCommitted, Seen

\* A step that the connection does not notice.
LEMMA StoreStutters ==
  ASSUME \A p \in Pages : Seen(p)' = Seen(p), (state' = "Writer") = (state = "Writer"),
         state = "Writer" => UNCHANGED savepoints, UNCHANGED committed
  PROVE  StoreStep
  <1>1. [p \in Pages |-> View(p).val]' = [p \in Pages |-> View(p).val]
    BY DEF Seen
  <1>2. CASE state = "Writer"
    <2>1. [k \in DOMAIN savepoints |-> SavedValues(savepoints[k])]'
            = [k \in DOMAIN savepoints |-> SavedValues(savepoints[k])]
      BY <1>2 DEF SavedValues
    <2> QED
      BY <1>1, <1>2, <2>1 DEF StoreStep, Store!vars
  <1>3. CASE state # "Writer"
    BY <1>1, <1>3 DEF StoreStep, Store!vars
  <1> QED
    BY <1>2, <1>3

\* Pages may come into the cache, be copied to the log and to the file, and
\* clean ones may leave the cache, unnoticed.
LEMMA DirtySlotsDecide ==
  ASSUME SeenInv, SeenInv', UNCHANGED <<committed, state, savepoints>>,
         \A p \in Pages : /\ Dirty(p)' <=> Dirty(p)
                          /\ Dirty(p) => cache'[p] = cache[p]
  PROVE  StoreStep
  <1>1. \A p \in Pages : Seen(p)' = Seen(p)
    BY DEF SeenInv, SeesOwnOrCommitted
  <1> QED
    BY <1>1, StoreStutters

\* acquire, a commit before its sync, one that fails, and checkpoints.
LEMMA UnnoticedSteps ==
  ASSUME SeenInv, SeenInv',
         Read \/ StartAppend \/ AppendFrame \/ AppendFails \/ CheckpointStep \/ CheckpointFails
  PROVE  StoreStep
  <1>1. CASE Read
    <2>1. PICK p \in Pages : Acquire(p)
      BY <1>1 DEF Read
    <2>2. \A q \in Pages :
            /\ \/ cache'[q] = cache[q]
               \/ cache'[q] = Absent /\ ~Dirty(q)
               \/ ~Cached(q) /\ cache'[q] = Clean(Stored(q))
            /\ cache'[q] # Absent /\ cache'[q].dirty <=> Dirty(q)
      BY <2>1, LoadedSlots DEF Acquire, SeenInv, WalInv
    <2>3. \A q \in Pages : /\ Dirty(q)' <=> Dirty(q)
                           /\ Dirty(q) => cache'[q] = cache[q]
      BY <2>2 DEF Dirty, Cached
    <2> QED
      BY <2>1, <2>3, DirtySlotsDecide DEF Acquire
  <1>2. CASE UNCHANGED <<cache, committed, state, savepoints>>
    BY <1>2, DirtySlotsDecide DEF Dirty, Cached
  <1>3. CASE ~InTxn /\ cache' = Emptied /\ UNCHANGED <<dirtyOrder, dbSize, savepoints, state, committed>>
    <2>1. dirtyOrder = <<>>
      BY <1>3 DEF SeenInv, WalInv, TxnHasLog
    <2>2. \A p \in Pages : ~Dirty(p)
      BY <2>1 DEF SeenInv, WalInv, ListInv, ListsDirty, Front
    <2>3. \A p \in Pages : ~Dirty(p)'
      BY <1>3 DEF Emptied, Dirty, Cached
    <2> QED
      BY <1>3, <2>2, <2>3, DirtySlotsDecide
  <1>4. call.op \in {"copy", "truncate"} => ~InTxn
    BY DEF SeenInv, WalInv, TxnHasLog
  <1> QED
    BY <1>1, <1>2, <1>3, <1>4 DEF StartAppend, AppendFrame, AppendFails, CheckpointStep,
       CheckpointFails, CheckpointNothing, StartCheckpoint, CopyFrame, SyncCopied, TruncateWal

\* begin_write: the store's Begin.
LEMMA BeginWriteIsBegin ==
  ASSUME SeenInv, SeenInv', BeginWrite
  PROVE  StoreStep
  <1>1. /\ state # "Writer" /\ state' = "Writer" /\ savepoints' = <<>>
        /\ UNCHANGED <<cache, committed>>
    BY DEF BeginWrite, InTxn, SeenInv, WalInv, TxnHasLog
  <1>2. [p \in Pages |-> View(p).val]' = [p \in Pages |-> View(p).val]
    <2>1. \A p \in Pages : Seen(p)' = Seen(p)
      BY <1>1 DEF SeenInv, SeesOwnOrCommitted, Dirty, Cached
    <2> QED
      BY <2>1 DEF Seen
  <1>3. Store!Begin
    BY <1>1, <1>2, NoSavesLeft DEF Store!Begin
  <1> QED
    BY <1>3 DEF StoreStep, Store!Next

\* A caller's write, of a value or of the content of another page: the
\* store's Write.
LEMMA WriteIsWrite ==
  ASSUME SeenInv, SeenInv', Write
  PROVE  StoreStep
  <1>1. WalInv /\ TypeOK /\ TypeOK'
    BY DEF SeenInv, WalInv
  <1>2. PICK p \in Pages, c \in Contents : state = "Writer" /\ WriteAccess(p, c)
    BY <1>1, WriteIsWriteAccess
  <1>3. /\ Dirty(p)' /\ cache'[p].data = c
        /\ \A q \in Pages \ {p} : /\ Dirty(q)' <=> Dirty(q)
                                  /\ Dirty(q) => cache'[q] = cache[q]
    BY <1>1, <1>2, WriteAccessKeepsWalInv
  <1>4. UNCHANGED <<committed, savepoints, state>>
    BY <1>2 DEF WriteAccess, Modify
  <1>5. Seen(p)' = c.val /\ \A q \in Pages \ {p} : Seen(q)' = Seen(q)
    BY <1>3, <1>4 DEF SeenInv, SeesOwnOrCommitted
  <1>6. Store!Write(p, c.val)
    <2>1. [q \in Pages |-> View(q).val]' = [[q \in Pages |-> View(q).val] EXCEPT ![p] = c.val]
      BY <1>5 DEF Seen
    <2> QED
      BY <1>2, <1>4, <2>1 DEF Store!Write, SavedValues
  <1>7. c.val \in Vals
    BY DEF Contents
  <1> QED
    BY <1>6, <1>7 DEF StoreStep, Store!Next

\* While the cache and the last commit stay, so does what is seen.
LEMMA SeenFrame ==
  ASSUME SeenInv, SeenInv', UNCHANGED <<cache, committed>>
  PROVE  [p \in Pages |-> View(p).val]' = [p \in Pages |-> View(p).val]
  <1>1. \A p \in Pages : Seen(p)' = Seen(p)
    BY DEF SeenInv, SeesOwnOrCommitted, Dirty, Cached
  <1> QED
    BY <1>1 DEF Seen

\* savepoint: the store's Savepoint; the snapshot and the committed values
\* together are all that is seen.
LEMMA OpenSavepointIsSavepoint ==
  ASSUME SeenInv, SeenInv', state = "Writer", OpenSavepoint
  PROVE  StoreStep
  <1>1. PagerTypeOK /\ savepoints \in Seq(Snapshots) /\ ListsDirty
    BY DEF SeenInv, WalInv, TypeOK, PagerTypeOK, ListInv
  <1>2. UNCHANGED <<cache, state, committed>>
    BY DEF OpenSavepoint
  <1>3. PICK sp \in Snapshots :
          /\ savepoints' = Append(savepoints, sp)
          /\ \A p \in Pages : sp.dirty[p] = IF Dirty(p) THEN cache[p].data ELSE Absent
          /\ \A p \in Pages : sp.dirty[p] # Absent <=> Dirty(p)
    BY <1>1, SnapshotOfDirty
  <1>4. ASSUME NEW p \in Pages PROVE SavedValues(sp)[p] = Seen(p)
    <2>1. SavedValues(sp)[p] = IF sp.dirty[p] = Absent THEN committed[p] ELSE sp.dirty[p].val
      BY DEF SavedValues
    <2> QED
      BY <1>3, <2>1 DEF SeenInv, SeesOwnOrCommitted
  <1>5. SavedValues(sp) = [p \in Pages |-> View(p).val]
    <2>1. SavedValues(sp) = [p \in Pages |-> Seen(p)]
      BY <1>4 DEF SavedValues
    <2> QED
      BY <2>1 DEF Seen
  <1>6. Saves(savepoints') = Append(Saves(savepoints), SavedValues(sp))
    BY <1>1, <1>3, SavesAppend
  <1>7. Store!Savepoint
    BY <1>2, <1>5, <1>6, SavesFrame, SeenFrame DEF Store!Savepoint, Saves
  <1> QED
    BY <1>7 DEF StoreStep, Store!Next

\* savepoint_release: the store's Release.
LEMMA SavepointReleaseIsRelease ==
  ASSUME SeenInv, SeenInv', state = "Writer", NEW k \in DOMAIN savepoints, SavepointRelease(k)
  PROVE  StoreStep
  <1>1. PagerTypeOK /\ savepoints \in Seq(Snapshots) /\ k \in 1..Len(savepoints)
    BY DEF SeenInv, WalInv, TypeOK, PagerTypeOK
  <1>2. savepoints' = SubSeq(savepoints, 1, k - 1) /\ UNCHANGED <<cache, state, committed>>
    BY DEF SavepointRelease
  <1>3. k - 1 \in 0..Len(savepoints)
    BY <1>1
  <1>4. Saves(savepoints') = SubSeq(Saves(savepoints), 1, k - 1)
    BY <1>1, <1>2, <1>3, SavesCut
  <1>5. k \in 1..Len(Saves(savepoints))
    BY <1>1, SavesType
  <1>6. Store!Release(k)
    BY <1>2, <1>4, <1>5, SavesFrame, SeenFrame DEF Store!Release, Saves
  <1>7. k \in 1..Len([j \in DOMAIN savepoints |-> SavedValues(savepoints[j])])
    BY <1>5 DEF Saves
  <1> QED
    BY <1>6, <1>7 DEF StoreStep, Store!Next

\* savepoint_rollback: the store's RollbackTo.
LEMMA SavepointRollbackIsRollbackTo ==
  ASSUME SeenInv, SeenInv', state = "Writer", NEW k \in DOMAIN savepoints, SavepointRollback(k)
  PROVE  StoreStep
  <1> DEFINE sp == savepoints[k]
  <1>1. PagerTypeOK /\ ListInv /\ savepoints \in Seq(Snapshots) /\ k \in 1..Len(savepoints)
    BY DEF SeenInv, WalInv, TypeOK, PagerTypeOK
  <1>2. savepoints' = SubSeq(savepoints, 1, k) /\ state' = "Writer" /\ UNCHANGED committed
    BY DEF SavepointRollback
  <1>3. ASSUME NEW p \in Pages
        PROVE  Seen(p)' = SavedValues(sp)[p]
    <2>1. SavedValues(sp)[p] = IF sp.dirty[p] = Absent THEN committed[p] ELSE sp.dirty[p].val
      BY DEF SavedValues
    <2>2. IF sp.dirty[p] = Absent
            THEN cache'[p] = Absent \/ (Cached(p) /\ ~Dirty(p) /\ cache'[p] = cache[p])
            ELSE cache'[p] # Absent /\ cache'[p].dirty /\ cache'[p].data = sp.dirty[p]
      BY <1>1, RolledBackSlot
    <2>3. Seen(p)' = IF Dirty(p)' THEN cache'[p].data.val ELSE committed[p]
      BY <1>2 DEF SeenInv, SeesOwnOrCommitted
    <2> HIDE DEF sp
    <2> QED
      BY <2>1, <2>2, <2>3 DEF Cached, Dirty
  <1>4. [p \in Pages |-> View(p).val]' = SavedValues(sp)
    <2>1. [p \in Pages |-> View(p).val]' = [p \in Pages |-> Seen(p)']
      BY DEF Seen
    <2>2. SavedValues(sp) = [p \in Pages |-> SavedValues(sp)[p]]
      BY DEF SavedValues
    <2> HIDE DEF sp
    <2> QED
      BY <1>3, <2>1, <2>2
  <1>5. Saves(savepoints') = SubSeq(Saves(savepoints), 1, k)
    BY <1>1, <1>2, SavesCut
  <1>6. Saves(savepoints)[k] = SavedValues(sp) /\ k \in 1..Len(Saves(savepoints))
    BY <1>1, SavesType
  <1> HIDE DEF sp
  <1>7. Store!RollbackTo(k)
    BY <1>2, <1>4, <1>5, <1>6, SavesFrame DEF Store!RollbackTo, Saves
  <1>8. k \in 1..Len([j \in DOMAIN savepoints |-> SavedValues(savepoints[j])])
    BY <1>6 DEF Saves
  <1> QED
    BY <1>7, <1>8 DEF StoreStep, Store!Next

\* The sync of the log is the moment of the commit: the store's Commit, of
\* what the connection sees.  A transaction that was committed already has
\* nothing left to commit.
LEMMA SyncWalIsCommit ==
  ASSUME SeenInv, SeenInv', SyncWal
  PROVE  StoreStep
  <1>1. /\ state' = "WriterLocked" /\ call.op = "append"
        /\ committed' = [p \in Pages |-> View(p).val]
        /\ UNCHANGED <<cache, savepoints>>
    BY DEF SyncWal
  <1>2. \A p \in Pages : committed'[p] = Seen(p)
    BY <1>1 DEF Seen
  <1>3. \A p \in Pages : Seen(p)' = Seen(p)
    BY <1>1, <1>2 DEF SeenInv, SeesOwnOrCommitted, Dirty, Cached
  <1>4. [p \in Pages |-> View(p).val]' = [p \in Pages |-> View(p).val]
    BY <1>3 DEF Seen
  <1>5. CASE state = "Writer"
    <2>1. Store!Commit
      BY <1>1, <1>4, <1>5 DEF Store!Commit
    <2> QED
      BY <2>1 DEF StoreStep, Store!Next
  <1>6. CASE state # "Writer"
    <2>1. state = "WriterLocked"
      BY <1>1, <1>6 DEF SeenInv, WalInv, TxnHasLog, Appending, InTxn
    <2>2. \A p \in Pages : Seen(p) = committed[p]
      BY <2>1 DEF SeenInv, SeesOwnOrCommitted, WalInv, CleanIsCommitted, Dirty
    <2>3. committed' = committed
      BY <1>1, <2>2 DEF Seen, SeenInv, WalInv, TypeOK, PagerTypeOK
    <2> QED
      BY <1>1, <1>3, <1>6, <2>3, StoreStutters
  <1> QED
    BY <1>5, <1>6

\* commit_phase_two: all pages are as committed already.
LEMMA CommitPhaseTwoUnnoticed ==
  ASSUME SeenInv, SeenInv', state = "WriterLocked", CommitPhaseTwo
  PROVE  StoreStep
  <1>1. WalInv /\ TypeOK' /\ state' = "Reader" /\ UNCHANGED committed
    BY DEF SeenInv, WalInv, CommitPhaseTwo
  <1>2. \A p \in Pages : ~Dirty(p)'
    BY <1>1, CommitPhaseTwoKeepsWalInv
  <1>3. \A p \in Pages : Seen(p)' = committed[p]
    BY <1>1, <1>2 DEF SeenInv, SeesOwnOrCommitted
  <1>4. \A p \in Pages : Seen(p) = committed[p]
    BY DEF SeenInv, SeesOwnOrCommitted, WalInv, CleanIsCommitted, Dirty
  <1> QED
    BY <1>1, <1>3, <1>4, StoreStutters

\* With nothing dirty, the connection sees what is committed.
LEMMA NothingDirtySeen ==
  ASSUME SeenInv', \A p \in Pages : ~Dirty(p)'
  PROVE  [p \in Pages |-> View(p).val]' = committed'
  <1>1. \A p \in Pages : Seen(p)' = committed'[p]
    BY DEF SeenInv, SeesOwnOrCommitted
  <1>2. committed' \in [Pages -> Vals]
    BY DEF SeenInv, WalInv, TypeOK, PagerTypeOK
  <1> QED
    BY <1>1, <1>2 DEF Seen

\* rollback: the store's Rollback.
LEMMA RollbackIsRollback ==
  ASSUME SeenInv, SeenInv', state = "Writer", Idle, Rollback
  PROVE  StoreStep
  <1>1. WalInv /\ TypeOK' /\ state' = "Reader" /\ UNCHANGED committed
    BY DEF SeenInv, WalInv, Rollback
  <1>2. [p \in Pages |-> View(p).val]' = committed'
    BY <1>1, RollbackKeepsWalInv, NothingDirtySeen
  <1>3. Store!Rollback
    BY <1>1, <1>2 DEF Store!Rollback
  <1> QED
    BY <1>3 DEF StoreStep, Store!Next

\* A crash between calls: the store's Crash.
LEMMA CrashIsCrash ==
  ASSUME SeenInv, SeenInv', call.op \notin {"append", "failed"}, Crash
  PROVE  StoreStep
  <1>1. WalInv /\ TypeOK' /\ state' = "Unlocked" /\ UNCHANGED committed
    BY DEF SeenInv, WalInv, Crash, ReopenedAs
  <1>2. [p \in Pages |-> View(p).val]' = committed'
    BY <1>1, CrashKeepsWalInv, NothingDirtySeen
  <1>3. Store!Crash
    BY <1>1, <1>2 DEF Store!Crash
  <1> QED
    BY <1>3 DEF StoreStep, Store!Next

\* A pager that was just opened is a store without a transaction.
LEMMA StoreInit == Init => Store!Init
  <1> SUFFICES ASSUME Init PROVE Store!Init
    OBVIOUS
  <1>1. PICK f \in InitFiles : Opened(f) /\ committed = Values(f)
    BY DEF Init
  <1>2. SeenInv /\ state = "Unlocked" /\ \A p \in Pages : ~Dirty(p)
    BY <1>1, WalInvInit, WalInvIsSeen DEF Opened, Dirty, Cached
  <1>3. \A p \in Pages : Seen(p) = committed[p]
    BY <1>2 DEF SeenInv, SeesOwnOrCommitted
  <1>4. committed \in [Pages -> Vals]
    BY <1>2 DEF SeenInv, WalInv, TypeOK, PagerTypeOK
  <1>5. [p \in Pages |-> View(p).val] = committed
    BY <1>3, <1>4 DEF Seen
  <1> QED
    BY <1>2, <1>4, <1>5 DEF Store!Init, Store!Contents

\* The pager in WAL mode is a transactional page store: whatever it caches,
\* logs and copies, through failed commits, failed checkpoints and crashes
\* between calls, what its caller sees is what PageStore says.
THEOREM WalPagerIsPageStore == FaultSpec => ImplementsPageStore
  <1>1. SeenInv /\ SeenInv' /\ [FaultNext]_vars => StoreStep
    <2> SUFFICES ASSUME SeenInv, SeenInv', [FaultNext]_vars PROVE StoreStep
      OBVIOUS
    <2>1. CASE Read \/ AppendFails \/ CheckpointFails \/ CheckpointStep
      BY <2>1, UnnoticedSteps
    <2>2. CASE BeginWrite
      BY <2>2, BeginWriteIsBegin
    <2>3. CASE Write
      BY <2>3, WriteIsWrite
    <2>4. CASE Nest
      BY <2>4, OpenSavepointIsSavepoint, SavepointReleaseIsRelease,
         SavepointRollbackIsRollbackTo DEF Nest
    <2>5. CASE CommitStep
      BY <2>5, UnnoticedSteps, SyncWalIsCommit, CommitPhaseTwoUnnoticed DEF CommitStep
    <2>6. CASE state = "Writer" /\ Idle /\ Rollback
      BY <2>6, RollbackIsRollback
    <2>7. CASE call.op \notin {"append", "failed"} /\ Crash
      BY <2>7, CrashIsCrash
    <2>8. CASE UNCHANGED vars
      BY <2>8, DirtySlotsDecide DEF vars, pagerVars, Dirty, Cached
    <2> QED
      BY <2>1, <2>2, <2>3, <2>4, <2>5, <2>6, <2>7, <2>8 DEF FaultNext, Next
  <1>2. FaultSpec => []SeenInv
    BY WalInvariant, WalInvIsSeen, PTL
  <1> QED
    BY <1>1, <1>2, StoreInit, PTL DEF FaultSpec, ImplementsPageStore, Store!Spec, StoreStep
=============================================================================
