------------------------------- MODULE Pager -------------------------------
(***************************************************************************)
(* The part of liter-pager's Pager that does not depend on how a           *)
(* transaction is made atomic: the page cache, the list of dirty pages,    *)
(* the database size and the savepoints.  JournalPager adds the rollback   *)
(* journal, WalPager the write-ahead log.                                  *)
(*                                                                         *)
(* A page's bytes are abstracted to a value of Vals and, on page 1, the    *)
(* database size that the pager itself writes into the header; the change  *)
(* counter beside it is written and never read.  A file is a total map of *)
(* pages plus its length in pages; pages past the end are Blank.           *)
(***************************************************************************)
EXTENDS Integers, Sequences, FiniteSets

CONSTANTS
  MaxPage,   \* bound: largest page number used
  Vals,      \* what callers write into pages
  Zero,      \* the value of an all-zero page
  NoHdr,     \* the header size of a page that does not start with DB_MAGIC
  Absent,    \* cache slot or snapshot entry that holds nothing
  CacheSize, \* cache_size
  MaxSaves,  \* bound: savepoints open at once
  Headed     \* whether the database opened first starts with DB_MAGIC

Pages == 1..MaxPage
Contents == [val : Vals, ndb : {NoHdr} \cup 0..MaxPage]
Blank == [val |-> Zero, ndb |-> NoHdr]
Slots == {Absent} \cup [data : Contents, dirty : BOOLEAN]

ASSUME PagerConstants ==
  /\ MaxPage \in Nat \ {0}
  /\ CacheSize \in Nat
  /\ MaxSaves \in Nat
  /\ Zero \in Vals
  /\ Headed \in SUBSET BOOLEAN
  /\ NoHdr \notin 0..MaxPage
  /\ Absent \notin Contents \cup [data : Contents, dirty : BOOLEAN]

VARIABLES
  file,       \* the database file as the operating system shows it
  synced,     \* the part of it that survives a power loss
  cache,      \* cache: page -> {data, dirty} or Absent
  dirtyOrder, \* dirty_order
  dbSize,     \* db_size
  state,      \* state
  savepoints, \* savepoints
  call,       \* the pager call in progress: [op, at]
  committed,  \* history: page values as of the last commit
  committedSize \* history: db_size as of the last commit

pagerVars == <<file, synced, cache, dirtyOrder, dbSize, state, savepoints,
               call, committed, committedSize>>

Files == [data : [Pages -> Contents], len : 0..MaxPage]
States == {"Unlocked", "Reader", "Writer", "WriterLocked"}
Snapshots == [dirty : [Pages -> {Absent} \cup Contents],
              n : Nat, size : 0..MaxPage]

-----------------------------------------------------------------------------
\* Files

Larger(a, b) == IF a < b THEN b ELSE a

\* pwrite: pages skipped over when a file grows are holes, which read as zero.
PWrite(f, p, c) ==
  [data |-> [f.data EXCEPT ![p] = c], len |-> Larger(f.len, p)]

Magic(c) == c.ndb # NoHdr

\* The database size Pager::open finds: the header's if there is one.
OpenSize(f) ==
  IF f.len > 0 /\ Magic(f.data[1]) /\ f.data[1].ndb # 0
    THEN f.data[1].ndb
    ELSE f.len

\* What a power loss may leave of file f when s is what sync_all secured: of
\* the pages written since, any may have reached the disk, and so may any
\* part of the growth.
PowerLoss(f, s) ==
  {[data |-> [p \in Pages |-> IF p \in kept /\ p <= n THEN f.data[p] ELSE s.data[p]],
    len |-> n] : kept \in SUBSET Pages, n \in s.len..f.len}

-----------------------------------------------------------------------------
\* The page cache

Cached(p) == cache[p] # Absent
Dirty(p) == Cached(p) /\ cache[p].dirty
Clean(c) == [data |-> c, dirty |-> FALSE]

\* Mutant: eviction takes dirty pages too.
VictimsDirtyToo(p) == {q \in Pages \ {p} : Cached(q)}

\* evict_clean: the pages that may go to make room for page p.
Victims(p) == {q \in Pages \ {p} : Cached(q) /\ ~cache[q].dirty}

\* The caches that inserting page p with content c may leave: above
\* cache_size one victim goes, whichever the map's iteration yields first.
Filled(p, c) ==
  LET full == [cache EXCEPT ![p] = Clean(c)]
      size == Cardinality({q \in Pages : full[q] # Absent})
  IN IF size <= CacheSize \/ Victims(p) = {}
       THEN {full}
       ELSE {[full EXCEPT ![q] = Absent] : q \in Victims(p)}

\* The database file can supply page p (ensure_cached): inside the database
\* and inside the file, or the database is still empty.
FileHolds(p) == dbSize = 0 \/ (p <= dbSize /\ p <= file.len)

InTxn == state \in {"Writer", "WriterLocked"}
Idle == call.op = "none"

\* write_access makes up a page past the end of the database.
MadeUp(p) == IF Cached(p) THEN cache ELSE [cache EXCEPT ![p] = Clean(Blank)]

\* The rest of write_access, and the caller's change of page p to c.
Modify(before, p, c) ==
  /\ cache' = [before EXCEPT ![p] = [data |-> c, dirty |-> TRUE]]
  /\ dirtyOrder' = IF before[p].dirty THEN dirtyOrder ELSE Append(dirtyOrder, p)
  /\ dbSize' = IF before[p].dirty THEN dbSize ELSE Larger(dbSize, p)
  /\ UNCHANGED <<file, synced, state, savepoints, call, committed, committedSize>>

-----------------------------------------------------------------------------
\* Savepoints

OpenSavepoint ==
  /\ Idle
  /\ Len(savepoints) < MaxSaves
  /\ savepoints' = Append(savepoints,
       [dirty |-> [p \in Pages |->
                     IF (\E i \in DOMAIN dirtyOrder : dirtyOrder[i] = p) /\ Cached(p)
                       THEN cache[p].data ELSE Absent],
        n |-> Len(dirtyOrder),
        size |-> dbSize])
  /\ UNCHANGED <<file, synced, cache, dirtyOrder, dbSize, state, call,
                 committed, committedSize>>

\* Mutant: the first page dirtied after the savepoint is missed.
DirtiedAfterOffByOne(sp) == {dirtyOrder[i] : i \in (sp.n + 2)..Len(dirtyOrder)}

\* The pages first dirtied after savepoint sp was opened.
DirtiedAfter(sp) == {dirtyOrder[i] : i \in (sp.n + 1)..Len(dirtyOrder)}

\* Pages dirtied after the savepoint leave the cache, pages that were dirty
\* get their snapshot back.  The slice dirty_order[n..] needs n <= len.
SavepointRollback(k) ==
  /\ Idle
  /\ k \in DOMAIN savepoints
  /\ LET sp == savepoints[k]
         added == DirtiedAfter(sp)
     IN /\ sp.n <= Len(dirtyOrder)
        /\ cache' = [p \in Pages |->
             CASE p \in added \/ ~Cached(p) -> Absent
               [] p \notin added /\ Cached(p) /\ sp.dirty[p] # Absent
                    -> [data |-> sp.dirty[p], dirty |-> TRUE]
               [] OTHER -> cache[p]]
        /\ dirtyOrder' = SubSeq(dirtyOrder, 1, sp.n)
        /\ dbSize' = sp.size
  /\ savepoints' = SubSeq(savepoints, 1, k)
  /\ state' = "Writer"
  /\ UNCHANGED <<file, synced, call, committed, committedSize>>

SavepointRelease(k) ==
  /\ Idle
  /\ k \in DOMAIN savepoints
  /\ savepoints' = SubSeq(savepoints, 1, k - 1)
  /\ UNCHANGED <<file, synced, cache, dirtyOrder, dbSize, state, call,
                 committed, committedSize>>

\* History: the contents that savepoint sp promises to bring back.
SavedValues(sp) ==
  [p \in Pages |-> IF sp.dirty[p] = Absent THEN committed[p] ELSE sp.dirty[p].val]

-----------------------------------------------------------------------------
\* Opening

\* Database files of any length, with a header on page 1 or without.
InitFiles ==
  {[data |-> [p \in Pages |->
       CASE p > n -> Blank
         [] p = 1 /\ p <= n /\ headed -> [val |-> v[p], ndb |-> n]
         [] OTHER -> [val |-> v[p], ndb |-> NoHdr]],
    len |-> n] : n \in 0..MaxPage, v \in [Pages -> Vals], headed \in Headed}

\* Pager::open on file f.
Opened(f) ==
  /\ file = f
  /\ synced = f
  /\ cache = [p \in Pages |-> Absent]
  /\ dirtyOrder = <<>>
  /\ dbSize = OpenSize(f)
  /\ state = "Unlocked"
  /\ savepoints = <<>>
  /\ call = [op |-> "none", at |-> 0]

\* The same after the process stopped and left file f behind, with size
\* pages in the database.
ReopenedAs(f, size) ==
  /\ file' = f
  /\ synced' = f
  /\ cache' = [p \in Pages |-> Absent]
  /\ dirtyOrder' = <<>>
  /\ dbSize' = size
  /\ state' = "Unlocked"
  /\ savepoints' = <<>>
  /\ call' = [op |-> "none", at |-> 0]
  /\ UNCHANGED <<committed, committedSize>>

Values(f) == [p \in Pages |-> f.data[p].val]

-----------------------------------------------------------------------------
Calls == [op : {"none", "pages", "sync", "replay", "append", "copy",
                "truncate", "failed", "undone"}, at : Nat]

PagerTypeOK ==
  /\ file \in Files
  /\ synced \in Files
  /\ cache \in [Pages -> Slots]
  /\ dirtyOrder \in Seq(Pages)
  /\ dbSize \in 0..MaxPage
  /\ state \in States
  /\ savepoints \in Seq(Snapshots)
  /\ call \in Calls
  /\ committed \in [Pages -> Vals]
  /\ committedSize \in 0..MaxPage
=============================================================================
