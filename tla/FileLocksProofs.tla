-------------------------- MODULE FileLocksProofs --------------------------
(***************************************************************************)
(* UnixLock for any set of processes: a process at Exclusive is alone, the *)
(* downgrade from Exclusive always gets its read lock back, Reserved is    *)
(* held once if unlock only goes to Shared or None, and the byte locks     *)
(* implement RWLock.                                                       *)
(*                                                                         *)
(* The properties speak of the levels in the UnixFiles, the kernel only    *)
(* knows bytes: LockInv ties the two together at every point of a call.    *)
(*                                                                         *)
(* WinLock, after that, in the instance Win of FileLocks: a process may    *)
(* read without a lock on a shared byte, on its way to Exclusive, after    *)
(* that way has failed, and for a moment on its way back.  It then has the *)
(* pending byte, and whoever writes has it too: WinInv says so at every    *)
(* point of a call.                                                        *)
(***************************************************************************)
EXTENDS FileLocks, TLAPS

-----------------------------------------------------------------------------
\* The inductive invariant

\* What p's lock on the shared bytes must be, given the level in its UnixFile
\* and how far its unlock call has come.
Backed(p) ==
  CASE lock[p] = None -> range[p] = "none"
    [] lock[p] \in {Shared, Reserved, Pending} -> range[p] = "read"
    [] lock[p] = Exclusive /\ (Stable(p) \/ call[p].at = 1) -> range[p] = "write"
    [] lock[p] = Exclusive /\ ~Stable(p) /\ call[p].at = 2 -> range[p] = "none"
    [] OTHER -> range[p] = IF call[p].level >= Shared THEN "read" ELSE "none"

\* p is still behind the pending byte.
Guarded(p) ==
  lock[p] >= Pending /\ (Stable(p) \/ call[p].at <= 4 \/ call[p].level >= Pending)

WriterAlone == \A p, q \in Procs : p # q /\ range[p] = "write" => range[q] = "none"
OnePending == \A p, q \in pending : p = q
LevelsBacked == \A p \in Procs : Backed(p)
PendingBacked == \A p \in Procs : Guarded(p) => p \in pending
UnlockGoesDown ==
  \A p \in Procs : call[p].op = "unlock" => call[p].level < lock[p] /\ call[p].at \in 1..5

LockInv ==
  /\ TypeOK
  /\ WriterAlone
  /\ OnePending
  /\ LevelsBacked
  /\ PendingBacked
  /\ UnlockGoesDown

\* The inductive invariant holds at the start: no level, no byte, no call.
LEMMA LockInvInit == Init => LockInv
  BY DEF Init, LockInv, TypeOK, WriterAlone, OnePending, LevelsBacked, PendingBacked,
         UnlockGoesDown, Calls, Backed, Guarded, Stable, Resting,
         None, Shared, Reserved, Pending, Exclusive, Levels

\* Every fcntl call and every start or end of a lock or unlock preserves it.
LEMMA LockInvStep == LockInv /\ [Next]_vars => LockInv'
  <1> SUFFICES ASSUME LockInv, [Next]_vars
               PROVE  LockInv'
    OBVIOUS
  <1> USE DEF LockInv, TypeOK, Calls, Resting, Levels, None, Shared, Reserved, Pending, Exclusive
  <1>1. ASSUME NEW p \in Procs, NEW level \in Levels, Lock(p, level)
        PROVE  LockInv'
    <2> USE <1>1 DEF Lock
    <2>1. TypeOK'
      BY SMTT(30)
    <2>2. WriterAlone'
      BY DEF WriterAlone, LevelsBacked, Backed, Stable
    <2>3. OnePending'
      BY DEF OnePending
    <2>4. LevelsBacked'
      BY DEF LevelsBacked, Backed, Stable
    <2>5. PendingBacked'
      BY DEF PendingBacked, Guarded, Stable
    <2>6. UnlockGoesDown'
      BY DEF UnlockGoesDown
    <2>7. QED
      BY <2>1, <2>2, <2>3, <2>4, <2>5, <2>6
  <1>2. ASSUME NEW p \in Procs, NEW level \in Levels, Unlock(p, level)
        PROVE  LockInv'
    BY <1>2 DEF Unlock,
       WriterAlone, OnePending, LevelsBacked, Backed, PendingBacked, Guarded, UnlockGoesDown, Stable
  <1>3. ASSUME NEW p \in Procs, LockShared(p)
        PROVE  LockInv'
    <2> USE <1>3 DEF LockShared, Locking, Reach, Fail
    <2>1. TypeOK'
      BY SMTT(30)
    <2>2. WriterAlone'
      BY DEF WriterAlone, LevelsBacked, Backed, Stable, CanRead
    <2>3. OnePending'
      BY DEF OnePending
    <2>4. LevelsBacked'
      BY DEF LevelsBacked, Backed, Stable
    <2>5. PendingBacked'
      BY DEF PendingBacked, Guarded, Stable
    <2>6. UnlockGoesDown'
      BY DEF UnlockGoesDown
    <2>7. QED
      BY <2>1, <2>2, <2>3, <2>4, <2>5, <2>6
  <1>4. ASSUME NEW p \in Procs, LockReserved(p)
        PROVE  LockInv'
    <2> USE <1>4 DEF LockReserved, Locking, Reach, Fail
    <2>1. TypeOK'
      BY SMTT(30)
    <2>2. WriterAlone'
      BY DEF WriterAlone, LevelsBacked, Backed, Stable
    <2>3. OnePending'
      BY DEF OnePending
    <2>4. LevelsBacked'
      BY DEF LevelsBacked, Backed, Stable
    <2>5. PendingBacked'
      BY DEF PendingBacked, Guarded, Stable
    <2>6. UnlockGoesDown'
      BY DEF UnlockGoesDown
    <2>7. QED
      BY <2>1, <2>2, <2>3, <2>4, <2>5, <2>6
  <1>5. ASSUME NEW p \in Procs, LockPending(p)
        PROVE  LockInv'
    <2> USE <1>5 DEF LockPending, Locking, Reach, Fail
    <2>1. TypeOK'
      BY SMTT(30)
    <2>2. WriterAlone'
      BY DEF WriterAlone, LevelsBacked, Backed, Stable
    <2>3. OnePending'
      BY DEF OnePending, CanPend
    <2>4. LevelsBacked'
      BY DEF LevelsBacked, Backed, Stable
    <2>5. PendingBacked'
      BY DEF PendingBacked, Guarded, Stable
    <2>6. UnlockGoesDown'
      BY DEF UnlockGoesDown
    <2>7. QED
      BY <2>1, <2>2, <2>3, <2>4, <2>5, <2>6
  <1>6. ASSUME NEW p \in Procs, LockExclusive(p)
        PROVE  LockInv'
    <2> USE <1>6 DEF LockExclusive, Locking, Reach, Fail
    <2>1. TypeOK'
      BY SMTT(30)
    <2>2. WriterAlone'
      BY DEF WriterAlone, LevelsBacked, Backed, Stable, CanWrite
    <2>3. OnePending'
      BY DEF OnePending
    <2>4. LevelsBacked'
      BY DEF LevelsBacked, Backed, Stable
    <2>5. PendingBacked'
      BY DEF PendingBacked, Guarded, Stable
    <2>6. UnlockGoesDown'
      BY DEF UnlockGoesDown
    <2>7. QED
      BY <2>1, <2>2, <2>3, <2>4, <2>5, <2>6
  <1>7. ASSUME NEW p \in Procs, DropRange(p)
        PROVE  LockInv'
    BY <1>7 DEF DropRange, Unlocking, Crosses, Advance,
       WriterAlone, OnePending, LevelsBacked, Backed, PendingBacked, Guarded, UnlockGoesDown, Stable
  <1>8. ASSUME NEW p \in Procs, ReadAgain(p)
        PROVE  LockInv'
    BY <1>8 DEF ReadAgain, Unlocking, Crosses, Advance, CanRead,
       WriterAlone, OnePending, LevelsBacked, Backed, PendingBacked, Guarded, UnlockGoesDown, Stable
  <1>9. ASSUME NEW p \in Procs, DropReserved(p)
        PROVE  LockInv'
    BY <1>9 DEF DropReserved, Unlocking, Crosses, Advance,
       WriterAlone, OnePending, LevelsBacked, Backed, PendingBacked, Guarded, UnlockGoesDown, Stable
  <1>10. ASSUME NEW p \in Procs, DropPending(p)
        PROVE  LockInv'
    BY <1>10 DEF DropPending, Unlocking, Crosses, Advance,
       WriterAlone, OnePending, LevelsBacked, Backed, PendingBacked, Guarded, UnlockGoesDown, Stable
  <1>11. ASSUME NEW p \in Procs, DropShared(p)
        PROVE  LockInv'
    BY <1>11 DEF DropShared, Unlocking, Crosses, LevelReached,
       WriterAlone, OnePending, LevelsBacked, Backed, PendingBacked, Guarded, UnlockGoesDown, Stable
  <1>12. ASSUME NEW p \in Procs, Exit(p)
        PROVE  LockInv'
    BY <1>12 DEF Exit,
       WriterAlone, OnePending, LevelsBacked, Backed, PendingBacked, Guarded, UnlockGoesDown, Stable
  <1>13. CASE UNCHANGED vars
    BY <1>13 DEF vars, WriterAlone, OnePending, LevelsBacked, Backed, PendingBacked, Guarded,
       UnlockGoesDown, Stable
  <1>14. QED
    BY <1>1, <1>2, <1>3, <1>4, <1>5, <1>6, <1>7, <1>8, <1>9, <1>10, <1>11, <1>12,
       <1>13, UnlockAssumption DEF Next, LockStep, UnlockStep

\* The levels in the UnixFiles and the bytes in the kernel agree, throughout
\* every lock and unlock call of every process.
THEOREM LockInvariant == Spec => []LockInv
  BY LockInvInit, LockInvStep, PTL DEF Spec

-----------------------------------------------------------------------------
\* What follows from it

\* lock() and unlock() never leave the variables outside their types.
THEOREM TypesHold == Spec => []TypeOK
  <1>1. LockInv => TypeOK
    BY DEF LockInv
  <1>2. QED
    BY <1>1, LockInvariant, PTL

\* Two UnixFiles are never one at Exclusive and the other above None, whatever
\* the interleaving of their fcntl calls.
THEOREM WritersAreAlone == Spec => []ExclusiveIsAlone
  <1>1. LockInv => ExclusiveIsAlone
    BY DEF LockInv, TypeOK, WriterAlone, LevelsBacked, ExclusiveIsAlone, Backed, Stable,
           Calls, Levels, None, Shared, Reserved, Pending, Exclusive
  <1>2. QED
    BY <1>1, LockInvariant, PTL

\* In the gap of the downgrade the pending byte keeps every writer out, so
\* that the read lock that unlock() asks for is free.
LEMMA ReadLockRegained == LockInv => DowngradeSucceeds
  BY DEF LockInv, TypeOK, OnePending, PendingBacked, LevelsBacked, DowngradeSucceeds,
         Unlocking, Crosses, CanRead, Backed, Guarded, Stable,
         Calls, Levels, None, Shared, Reserved, Pending, Exclusive

\* unlock() from Exclusive to Shared or above never fails half-way.
THEOREM DowngradesSucceed == Spec => []DowngradeSucceeds
  BY ReadLockRegained, LockInvariant, PTL

-----------------------------------------------------------------------------
\* Reserved

\* A process at Reserved that is not unlocking has the reserved byte.
ReservedBacked ==
  \A p \in Procs : lock[p] = Reserved /\ (Stable(p) \/ call[p].at <= 3) => p \in reserved

ReservedInv ==
  /\ ReservedBacked
  /\ \A p, q \in reserved : p = q
  /\ \A p \in Procs : call[p].op = "unlock" => call[p].level \in {None, Shared}

\* As long as unlock() is only asked for Shared or None, as C SQLite does, at
\* most one process believes it holds Reserved.  (unlock() never takes the
\* reserved byte, and lock() passes it by on the way to Pending: a process that
\* comes back to Reserved from above would not have it.)
THEOREM ReservedIsExclusive ==
  ASSUME UnlockLevels \subseteq {None, Shared}
  PROVE  Spec => []OneReserved
  <1> USE DEF None, Shared, Reserved, Pending, Exclusive, Levels, Resting
  <1>1. Init => ReservedInv
    BY DEF Init, ReservedInv, ReservedBacked, Stable
  <1>2. LockInv /\ ReservedInv /\ [Next]_vars => ReservedInv'
    <2> SUFFICES ASSUME LockInv, ReservedInv, [Next]_vars
                 PROVE  ReservedInv'
      OBVIOUS
    <2> USE DEF LockInv, TypeOK, Calls, ReservedInv, ReservedBacked, Stable, UnlockGoesDown
    <2>1. ASSUME NEW p \in Procs, NEW level \in Levels, Lock(p, level)
          PROVE  ReservedInv'
      BY <2>1 DEF Lock
    <2>2. ASSUME NEW p \in Procs, NEW level \in UnlockLevels, Unlock(p, level)
          PROVE  ReservedInv'
      BY <2>2 DEF Unlock
    <2>3. ASSUME NEW p \in Procs, LockStep(p)
          PROVE  ReservedInv'
      BY <2>3 DEF LockStep, LockShared, LockReserved, LockPending, LockExclusive,
                  Locking, Reach, Fail, CanReserve
    <2>4. ASSUME NEW p \in Procs, UnlockStep(p)
          PROVE  ReservedInv'
      BY <2>4 DEF UnlockStep, DropRange, ReadAgain, DropReserved, DropPending, DropShared,
                  Unlocking, Crosses, Advance, LevelReached
    <2>5. ASSUME NEW p \in Procs, Exit(p)
          PROVE  ReservedInv'
      BY <2>5 DEF Exit
    <2>6. CASE UNCHANGED vars
      BY <2>6 DEF vars
    <2>7. QED
      BY <2>1, <2>2, <2>3, <2>4, <2>5, <2>6 DEF Next
  <1>3. ReservedInv => OneReserved
    BY DEF ReservedInv, ReservedBacked, OneReserved
  <1>4. QED
    BY <1>1, <1>2, <1>3, LockInvariant, PTL DEF Spec

-----------------------------------------------------------------------------
\* Refinement of RWLock

SameAccess == \A p \in Procs : Access(p)' = Access(p)

\* Only the accesses of the process that moves can change.
LEMMA OthersKeepAccess ==
  ASSUME LockInv, NEW p \in Procs, LockStep(p) \/ UnlockStep(p) \/ Exit(p)
  PROVE  \A q \in Procs \ {p} : Access(q)' = Access(q)
  BY DEF LockInv, TypeOK, Access, Unlocking, LockStep, LockShared, LockReserved, LockPending,
         LockExclusive, Locking, Reach, Fail, UnlockStep, DropRange, ReadAgain, DropReserved,
         DropPending, DropShared, Advance, Exit

\* A process that may write the file has the write lock on all shared bytes.
LEMMA WriteIsLocked ==
  ASSUME LockInv, NEW p \in Procs, Access(p) = "write"
  PROVE  range[p] = "write"
  BY DEF LockInv, TypeOK, LevelsBacked, UnlockGoesDown, Access, Backed, Stable, Unlocking,
         Calls, Levels, None, Shared, Reserved, Pending, Exclusive

\* Every step of lock() and unlock() is a step of RWLock, or changes nobody's
\* access.
LEMMA LockStepsRefine == LockInv /\ [Next]_vars => [File!Next]_(File!vars)
  <1> SUFFICES ASSUME LockInv, [Next]_vars
               PROVE  File!Next \/ SameAccess
    BY DEF SameAccess, File!vars
  <1> USE DEF LockInv, TypeOK, Calls, Resting, Levels, None, Shared, Reserved, Pending, Exclusive
  <1>1. ASSUME NEW p \in Procs, NEW level \in Levels, Lock(p, level) \/ Unlock(p, level)
        PROVE  SameAccess
    BY <1>1 DEF Lock, Unlock, SameAccess, Access, Unlocking
  <1>2. ASSUME NEW p \in Procs, LockReserved(p) \/ LockPending(p)
        PROVE  SameAccess
    BY <1>2 DEF LockReserved, LockPending, Locking, Reach, Fail, LevelsBacked, Backed,
                SameAccess, Access, Unlocking
  <1>3. ASSUME NEW p \in Procs, ReadAgain(p)
        PROVE  SameAccess
    <2>1. Crosses(p, Exclusive) => CanRead(p)
      BY <1>3, ReadLockRegained DEF ReadAgain, DowngradeSucceeds
    <2>2. \A q \in Procs \ {p} : Access(q)' = Access(q)
      BY <1>3, OthersKeepAccess DEF UnlockStep
    <2>3. Access(p)' = Access(p)
      BY <1>3, <2>1 DEF ReadAgain, Advance, LevelsBacked, Backed, UnlockGoesDown, Stable,
                        Access, Unlocking, Crosses
    <2>4. QED
      BY <2>2, <2>3 DEF SameAccess
  <1>4. ASSUME NEW p \in Procs, DropReserved(p) \/ DropPending(p)
        PROVE  SameAccess
    BY <1>4 DEF DropReserved, DropPending, Advance, LevelsBacked, Backed,
                SameAccess, Access, Unlocking
  <1>5. ASSUME NEW p \in Procs, LockShared(p)
        PROVE  File!Read(p) \/ SameAccess
    <2>1. CASE CanRead(p)
      <3>1. \A q \in Procs \ {p} : Access(q)' = Access(q) /\ Access(q) # "write"
        BY <1>5, <2>1, OthersKeepAccess, WriteIsLocked DEF LockStep, CanRead
      <3>2. Access(p) = "none" /\ Access(p)' = "read"
        BY <1>5, <2>1 DEF LockShared, Locking, Reach, Fail, LevelsBacked, Backed, Access, Unlocking
      <3>3. QED
        BY <3>1, <3>2 DEF File!Read
    <2>2. CASE ~CanRead(p)
      BY <1>5, <2>2 DEF LockShared, Locking, Fail, SameAccess, Access, Unlocking
    <2>3. QED
      BY <2>1, <2>2
  <1>6. ASSUME NEW p \in Procs, LockExclusive(p)
        PROVE  File!Write(p) \/ SameAccess
    <2>1. CASE CanWrite(p)
      <3>1. \A q \in Procs \ {p} : ~(Unlocking(q, 2) /\ lock[q] = Exclusive)
        BY <1>6 DEF LockExclusive, Locking, PendingBacked, Guarded, OnePending, Unlocking, Stable
      <3>2. \A q \in Procs \ {p} : Access(q) = "none"
        BY <2>1, <3>1 DEF CanWrite, LevelsBacked, Backed, UnlockGoesDown, Access, Unlocking, Stable
      <3>3. \A q \in Procs \ {p} : Access(q)' = Access(q)
        BY <1>6, OthersKeepAccess DEF LockStep
      <3>4. Access(p)' = "write"
        BY <1>6, <2>1 DEF LockExclusive, Locking, Reach, Fail, Access, Unlocking
      <3>5. QED
        BY <3>2, <3>3, <3>4 DEF File!Write
    <2>2. CASE ~CanWrite(p)
      BY <1>6, <2>2 DEF LockExclusive, Locking, Fail, SameAccess, Access, Unlocking
    <2>3. QED
      BY <2>1, <2>2
  <1>7. ASSUME NEW p \in Procs, DropRange(p) \/ DropShared(p) \/ Exit(p)
        PROVE  File!Release(p) \/ SameAccess
    <2>1. \A q \in Procs \ {p} : Access(q)' = Access(q)
      BY <1>7, OthersKeepAccess DEF UnlockStep
    <2>2. Access(p)' = "none" \/ (Access(p)' = "read" /\ Access(p) # "none")
      BY <1>7 DEF DropRange, DropShared, Exit, Advance, LevelsBacked, Backed, UnlockGoesDown,
                  Stable, Access, Unlocking, Crosses, LevelReached
    <2>3. QED
      BY <2>1, <2>2 DEF File!Release, SameAccess
  <1>8. CASE UNCHANGED vars
    BY <1>8 DEF vars, SameAccess, Access, Unlocking
  <1>9. QED
    BY <1>1, <1>2, <1>3, <1>4, <1>5, <1>6, <1>7, <1>8, UnlockAssumption
       DEF Next, LockStep, UnlockStep, File!Next

\* The fcntl protocol of lock() and unlock() implements exclusive access for
\* writers, for every number of processes.
THEOREM UnixLockImplementsRWLock == Spec => ImplementsRWLock
  <1>1. Init => File!Init
    BY DEF Init, File!Init, Access, Unlocking, Resting, None, Shared, Exclusive
  <1>2. QED
    BY <1>1, LockStepsRefine, LockInvariant, PTL DEF Spec, ImplementsRWLock, File!Spec

-----------------------------------------------------------------------------
\* Windows: the inductive invariant

WinCalls == [op : {"none", "lock", "unlock", "check"}, level : Win!Levels, at : 0..4]

WinTypeOK ==
  /\ wlock \in [Procs -> {Win!None, Win!Shared, Win!Reserved, Win!Exclusive}]
  /\ shared \subseteq Procs /\ wrange \subseteq Procs
  /\ wreserved \subseteq Procs /\ wpending \subseteq Procs
  /\ wcall \in [Procs -> WinCalls]

WinUnlocking(p) == wcall[p].op = "unlock"
WinClimbing(p) == wcall[p].op = "lock" /\ wcall[p].at \in {2, 3}

\* Calls are made for levels that callers ask for, and pass the positions
\* that their levels lead to.
CallsFit ==
  \A p \in Procs :
    /\ wcall[p].op = "lock" =>
         /\ wcall[p].at \in 1..3 /\ Win!Asks(p, wcall[p].level)
         /\ WinClimbing(p) => wlock[p] = Win!Reserved /\ wcall[p].level = Win!Exclusive
    /\ WinUnlocking(p) =>
         /\ wcall[p].level \in {Win!None, Win!Shared} /\ wcall[p].level < wlock[p]
         /\ wlock[p] # Win!Exclusive => wcall[p].at \in 2..4
         /\ wcall[p].at = 1 => wcall[p].level = Win!Shared
    /\ wcall[p].op = "none" => wcall[p] = Win!Resting

\* The lock on the whole range is a writer's, who excludes the readers and has
\* the pending byte.
RangeIsWriters ==
  /\ \A p \in Procs : p \in wrange <=> wlock[p] = Win!Exclusive /\ (~WinUnlocking(p) \/ wcall[p].at = 0)
  /\ wrange # {} => shared = {}
  /\ wrange \subseteq wpending

OnePendingOnWindows == \A p, q \in wpending : p = q

\* Whoever reads has a shared byte or the pending byte.
WinReadersBacked ==
  \A p \in Procs :
    /\ wlock[p] \in {Win!Shared, Win!Reserved} => p \in shared \cup wpending
    /\ WinClimbing(p) => p \in wpending
    /\ WinUnlocking(p) /\ wlock[p] = Win!Exclusive =>
         /\ wcall[p].at <= 1 => p \in wpending
         /\ wcall[p].at >= 2 /\ wcall[p].level = Win!Shared => p \in shared

\* Reserved is lost without the level being lost only by a process that keeps
\* the pending byte; so no writer has lost it before unlock lets go of it.
WinReservedBacked ==
  \A p \in Procs :
    /\ wlock[p] = Win!Reserved /\ p \notin wreserved /\ ~(WinUnlocking(p) /\ wcall[p].at = 4) =>
         p \in wpending /\ ~WinClimbing(p)
    /\ wlock[p] = Win!Exclusive /\ ~(WinUnlocking(p) /\ wcall[p].at = 4) => p \in wreserved
    /\ wcall[p].op = "check" /\ wcall[p].at = 2 =>
         wlock[p] # Win!Exclusive /\ (wlock[p] = Win!Reserved => p \in wpending)

WinInv ==
  /\ WinTypeOK
  /\ CallsFit
  /\ RangeIsWriters
  /\ OnePendingOnWindows
  /\ WinReadersBacked
  /\ WinReservedBacked

-----------------------------------------------------------------------------
\* It is inductive

\* It holds at the start: no level, no byte, no call.
LEMMA WinInvInit == Win!Init => WinInv
  BY DEF Win!Init, WinInv, WinTypeOK, CallsFit, RangeIsWriters, OnePendingOnWindows,
         WinReadersBacked, WinReservedBacked,
         WinCalls, WinUnlocking, WinClimbing, Win!Asks, Win!Resting, Win!None, Win!Shared,
         Win!Reserved, Win!Pending, Win!Exclusive, Win!Levels

\* Every LockFileEx and UnlockFile, and every start, end and failure of a call
\* preserves it.
LEMMA WinInvStep == WinInv /\ [Win!Next]_(Win!vars) => WinInv'
  <1> SUFFICES ASSUME WinInv, [Win!Next]_(Win!vars)
               PROVE  WinInv'
    OBVIOUS
  <1> USE DEF WinInv, WinTypeOK, WinCalls, WinUnlocking, WinClimbing, Win!Asks, Win!In,
              Win!To, Win!Start, Win!GoOn, Win!Succeed, Win!Fail,
              Win!bytes, Win!Resting, Win!Levels, Win!None, Win!Shared, Win!Reserved,
              Win!Pending, Win!Exclusive
  <1>1. ASSUME NEW p \in Procs, NEW level \in Win!Levels, Win!Lock(p, level)
        PROVE  WinInv'
    <2> USE <1>1 DEF Win!Lock
    <2>1. WinTypeOK'
      BY SMTT(30)
    <2>2. CallsFit'
      BY DEF CallsFit
    <2>3. RangeIsWriters'
      BY DEF RangeIsWriters, OnePendingOnWindows, CallsFit, WinReadersBacked
    <2>4. OnePendingOnWindows'
      BY DEF OnePendingOnWindows
    <2>5. WinReadersBacked'
      BY DEF WinReadersBacked, RangeIsWriters, CallsFit, OnePendingOnWindows
    <2>6. WinReservedBacked'
      BY DEF WinReservedBacked, CallsFit, WinReadersBacked
    <2>7. QED
      BY <2>1, <2>2, <2>3, <2>4, <2>5, <2>6
  <1>2. ASSUME NEW p \in Procs, NEW level \in {Win!None, Win!Shared}, Win!Unlock(p, level)
        PROVE  WinInv'
    <2> USE <1>2 DEF Win!Unlock
    <2>1. WinTypeOK'
      BY SMTT(30)
    <2>2. CallsFit'
      BY DEF CallsFit
    <2>3. RangeIsWriters'
      BY DEF RangeIsWriters, OnePendingOnWindows, CallsFit, WinReadersBacked
    <2>4. OnePendingOnWindows'
      BY DEF OnePendingOnWindows
    <2>5. WinReadersBacked'
      BY DEF WinReadersBacked, RangeIsWriters, CallsFit, OnePendingOnWindows
    <2>6. WinReservedBacked'
      BY DEF WinReservedBacked, CallsFit, WinReadersBacked
    <2>7. QED
      BY <2>1, <2>2, <2>3, <2>4, <2>5, <2>6
  <1>3. ASSUME NEW p \in Procs, Win!LockShared(p)
        PROVE  WinInv'
    <2> USE <1>3 DEF Win!LockShared
    <2>1. WinTypeOK'
      BY SMTT(30)
    <2>2. CallsFit'
      BY DEF CallsFit
    <2>3. RangeIsWriters'
      BY DEF RangeIsWriters, OnePendingOnWindows, CallsFit, WinReadersBacked
    <2>4. OnePendingOnWindows'
      BY DEF OnePendingOnWindows
    <2>5. WinReadersBacked'
      BY DEF WinReadersBacked, RangeIsWriters, CallsFit, OnePendingOnWindows
    <2>6. WinReservedBacked'
      BY DEF WinReservedBacked, CallsFit, WinReadersBacked
    <2>7. QED
      BY <2>1, <2>2, <2>3, <2>4, <2>5, <2>6
  <1>4. ASSUME NEW p \in Procs, Win!LockReserved(p)
        PROVE  WinInv'
    <2> USE <1>4 DEF Win!LockReserved
    <2>1. WinTypeOK'
      BY SMTT(30)
    <2>2. CallsFit'
      BY DEF CallsFit
    <2>3. RangeIsWriters'
      BY DEF RangeIsWriters, OnePendingOnWindows, CallsFit, WinReadersBacked
    <2>4. OnePendingOnWindows'
      BY DEF OnePendingOnWindows
    <2>5. WinReadersBacked'
      BY DEF WinReadersBacked, RangeIsWriters, CallsFit, OnePendingOnWindows
    <2>6. WinReservedBacked'
      BY DEF WinReservedBacked, CallsFit, WinReadersBacked
    <2>7. QED
      BY <2>1, <2>2, <2>3, <2>4, <2>5, <2>6
  <1>5. ASSUME NEW p \in Procs, Win!TakePending(p)
        PROVE  WinInv'
    <2> USE <1>5 DEF Win!TakePending, Win!PendingFree
    <2>1. WinTypeOK'
      BY SMTT(30)
    <2>2. CallsFit'
      BY DEF CallsFit
    <2>3. RangeIsWriters'
      BY DEF RangeIsWriters, OnePendingOnWindows, CallsFit, WinReadersBacked
    <2>4. OnePendingOnWindows'
      BY DEF OnePendingOnWindows
    <2>5. WinReadersBacked'
      BY DEF WinReadersBacked, RangeIsWriters, CallsFit, OnePendingOnWindows
    <2>6. WinReservedBacked'
      BY DEF WinReservedBacked, CallsFit, WinReadersBacked
    <2>7. QED
      BY <2>1, <2>2, <2>3, <2>4, <2>5, <2>6
  <1>6. ASSUME NEW p \in Procs, Win!GiveUpShared(p)
        PROVE  WinInv'
    <2> USE <1>6 DEF Win!GiveUpShared
    <2>1. WinTypeOK'
      BY SMTT(30)
    <2>2. CallsFit'
      BY DEF CallsFit
    <2>3. RangeIsWriters'
      BY DEF RangeIsWriters, OnePendingOnWindows, CallsFit, WinReadersBacked
    <2>4. OnePendingOnWindows'
      BY DEF OnePendingOnWindows
    <2>5. WinReadersBacked'
      BY DEF WinReadersBacked, RangeIsWriters, CallsFit, OnePendingOnWindows
    <2>6. WinReservedBacked'
      BY DEF WinReservedBacked, CallsFit, WinReadersBacked
    <2>7. QED
      BY <2>1, <2>2, <2>3, <2>4, <2>5, <2>6
  <1>7. ASSUME NEW p \in Procs, Win!TakeRange(p)
        PROVE  WinInv'
    <2> USE <1>7 DEF Win!TakeRange
    <2>1. WinTypeOK'
      BY SMTT(30) DEF CallsFit
    <2>2. CallsFit'
      BY DEF CallsFit
    <2>3. RangeIsWriters'
      BY DEF RangeIsWriters, OnePendingOnWindows, CallsFit, WinReadersBacked
    <2>4. OnePendingOnWindows'
      BY DEF OnePendingOnWindows
    <2>5. WinReadersBacked'
      BY DEF WinReadersBacked, RangeIsWriters, CallsFit, OnePendingOnWindows
    <2>6. WinReservedBacked'
      BY DEF WinReservedBacked, CallsFit, WinReadersBacked
    <2>7. QED
      BY <2>1, <2>2, <2>3, <2>4, <2>5, <2>6
  <1>8. ASSUME NEW p \in Procs, Win!DropRange(p)
        PROVE  WinInv'
    <2> USE <1>8 DEF Win!DropRange
    <2>1. WinTypeOK'
      BY SMTT(30)
    <2>2. CallsFit'
      BY DEF CallsFit
    <2>3. RangeIsWriters'
      BY DEF RangeIsWriters, OnePendingOnWindows, CallsFit, WinReadersBacked
    <2>4. OnePendingOnWindows'
      BY DEF OnePendingOnWindows
    <2>5. WinReadersBacked'
      BY DEF WinReadersBacked, RangeIsWriters, CallsFit, OnePendingOnWindows
    <2>6. WinReservedBacked'
      BY DEF WinReservedBacked, CallsFit, WinReadersBacked
    <2>7. QED
      BY <2>1, <2>2, <2>3, <2>4, <2>5, <2>6
  <1>9. ASSUME NEW p \in Procs, Win!ReadAgain(p)
        PROVE  WinInv'
    <2> USE <1>9 DEF Win!ReadAgain
    <2>1. WinTypeOK'
      BY SMTT(30)
    <2>2. CallsFit'
      BY DEF CallsFit
    <2>3. RangeIsWriters'
      BY DEF RangeIsWriters, OnePendingOnWindows, CallsFit, WinReadersBacked
    <2>4. OnePendingOnWindows'
      BY DEF OnePendingOnWindows
    <2>5. WinReadersBacked'
      BY DEF WinReadersBacked, RangeIsWriters, CallsFit, OnePendingOnWindows
    <2>6. WinReservedBacked'
      BY DEF WinReservedBacked, CallsFit, WinReadersBacked
    <2>7. QED
      BY <2>1, <2>2, <2>3, <2>4, <2>5, <2>6
  <1>10. ASSUME NEW p \in Procs, Win!DropPending(p)
        PROVE  WinInv'
    <2> USE <1>10 DEF Win!DropPending
    <2>1. WinTypeOK'
      BY SMTT(30)
    <2>2. CallsFit'
      BY DEF CallsFit
    <2>3. RangeIsWriters'
      BY DEF RangeIsWriters, OnePendingOnWindows, CallsFit, WinReadersBacked
    <2>4. OnePendingOnWindows'
      BY DEF OnePendingOnWindows
    <2>5. WinReadersBacked'
      BY DEF WinReadersBacked, RangeIsWriters, CallsFit, OnePendingOnWindows
    <2>6. WinReservedBacked'
      BY DEF WinReservedBacked, CallsFit, WinReadersBacked
    <2>7. QED
      BY <2>1, <2>2, <2>3, <2>4, <2>5, <2>6
  <1>11. ASSUME NEW p \in Procs, Win!DropReserved(p)
        PROVE  WinInv'
    <2> USE <1>11 DEF Win!DropReserved
    <2>1. WinTypeOK'
      BY SMTT(30)
    <2>2. CallsFit'
      BY DEF CallsFit
    <2>3. RangeIsWriters'
      BY DEF RangeIsWriters, OnePendingOnWindows, CallsFit, WinReadersBacked,
             WinReservedBacked
    <2>4. OnePendingOnWindows'
      BY DEF OnePendingOnWindows
    <2>5. WinReadersBacked'
      BY DEF WinReadersBacked, RangeIsWriters, CallsFit, OnePendingOnWindows
    <2>6. WinReservedBacked'
      BY DEF WinReservedBacked, CallsFit, WinReadersBacked
    <2>7. QED
      BY <2>1, <2>2, <2>3, <2>4, <2>5, <2>6
  <1>12. ASSUME NEW p \in Procs, Win!DropShared(p)
        PROVE  WinInv'
    <2> USE <1>12 DEF Win!DropShared
    <2>1. WinTypeOK'
      BY SMTT(30) DEF CallsFit
    <2>2. CallsFit'
      BY DEF CallsFit
    <2>3. RangeIsWriters'
      BY DEF RangeIsWriters, OnePendingOnWindows, CallsFit, WinReadersBacked
    <2>4. OnePendingOnWindows'
      BY DEF OnePendingOnWindows
    <2>5. WinReadersBacked'
      BY DEF WinReadersBacked, RangeIsWriters, CallsFit, OnePendingOnWindows
    <2>6. WinReservedBacked'
      BY DEF WinReservedBacked, CallsFit, WinReadersBacked
    <2>7. QED
      BY <2>1, <2>2, <2>3, <2>4, <2>5, <2>6
  <1>13. ASSUME NEW p \in Procs, Win!Check(p)
        PROVE  WinInv'
    <2> USE <1>13 DEF Win!Check
    <2>1. WinTypeOK'
      BY SMTT(30)
    <2>2. CallsFit'
      BY DEF CallsFit
    <2>3. RangeIsWriters'
      BY DEF RangeIsWriters, OnePendingOnWindows, CallsFit, WinReadersBacked
    <2>4. OnePendingOnWindows'
      BY DEF OnePendingOnWindows
    <2>5. WinReadersBacked'
      BY DEF WinReadersBacked, RangeIsWriters, CallsFit, OnePendingOnWindows
    <2>6. WinReservedBacked'
      BY DEF WinReservedBacked, CallsFit, WinReadersBacked
    <2>7. QED
      BY <2>1, <2>2, <2>3, <2>4, <2>5, <2>6
  <1>14. ASSUME NEW p \in Procs, Win!ProbeReserved(p)
        PROVE  WinInv'
    <2> USE <1>14 DEF Win!ProbeReserved
    <2>1. WinTypeOK'
      BY SMTT(30)
    <2>2. CallsFit'
      BY DEF CallsFit
    <2>3. RangeIsWriters'
      BY DEF RangeIsWriters, OnePendingOnWindows, CallsFit, WinReadersBacked
    <2>4. OnePendingOnWindows'
      BY DEF OnePendingOnWindows
    <2>5. WinReadersBacked'
      BY DEF WinReadersBacked, RangeIsWriters, CallsFit, OnePendingOnWindows
    <2>6. WinReservedBacked'
      BY DEF WinReservedBacked, CallsFit, WinReadersBacked
    <2>7. QED
      BY <2>1, <2>2, <2>3, <2>4, <2>5, <2>6
  <1>15. ASSUME NEW p \in Procs, Win!EndProbe(p)
        PROVE  WinInv'
    <2> USE <1>15 DEF Win!EndProbe
    <2>1. WinTypeOK'
      BY SMTT(30)
    <2>2. CallsFit'
      BY DEF CallsFit
    <2>3. RangeIsWriters'
      BY DEF RangeIsWriters, OnePendingOnWindows, CallsFit, WinReadersBacked
    <2>4. OnePendingOnWindows'
      BY DEF OnePendingOnWindows
    <2>5. WinReadersBacked'
      BY DEF WinReadersBacked, RangeIsWriters, CallsFit, OnePendingOnWindows
    <2>6. WinReservedBacked'
      BY DEF WinReservedBacked, CallsFit, WinReadersBacked
    <2>7. QED
      BY <2>1, <2>2, <2>3, <2>4, <2>5, <2>6
  <1>16. ASSUME NEW p \in Procs, Win!Exit(p)
        PROVE  WinInv'
    <2> USE <1>16 DEF Win!Exit
    <2>1. WinTypeOK'
      BY SMTT(30)
    <2>2. CallsFit'
      BY DEF CallsFit
    <2>3. RangeIsWriters'
      BY DEF RangeIsWriters, OnePendingOnWindows, CallsFit, WinReadersBacked
    <2>4. OnePendingOnWindows'
      BY DEF OnePendingOnWindows
    <2>5. WinReadersBacked'
      BY DEF WinReadersBacked, RangeIsWriters, CallsFit, OnePendingOnWindows
    <2>6. WinReservedBacked'
      BY DEF WinReservedBacked, CallsFit, WinReadersBacked
    <2>7. QED
      BY <2>1, <2>2, <2>3, <2>4, <2>5, <2>6
  <1>17. CASE UNCHANGED Win!vars
    BY <1>17 DEF Win!vars, CallsFit, RangeIsWriters, OnePendingOnWindows,
              WinReadersBacked, WinReservedBacked
  <1>18. QED
    BY <1>1, <1>2, <1>3, <1>4, <1>5, <1>6, <1>7, <1>8, <1>9, <1>10, <1>11, <1>12, <1>13,
       <1>14, <1>15, <1>16, <1>17 DEF Win!Next, Win!LockStep, Win!UnlockStep

\* Levels, byte locks and calls agree throughout every call of every process.
THEOREM WinInvariant == Win!Spec => []WinInv
  BY WinInvInit, WinInvStep, PTL DEF Win!Spec

-----------------------------------------------------------------------------
\* The byte locks implement RWLock

WriterAloneOnWindows == \A p, q \in Procs : p # q /\ Win!Access(p) = "write" => Win!Access(q) = "none"

\* Whoever writes is alone: the pending byte or the shared bytes tell it of
\* every reader, the one on its way to Exclusive or back included.
LEMMA WriterIsAlone == WinInv => WriterAloneOnWindows
  <1> SUFFICES ASSUME WinInv, NEW p \in Procs, NEW q \in Procs, p # q, Win!Access(p) = "write"
               PROVE  Win!Access(q) = "none"
    BY DEF WriterAloneOnWindows
  <1> USE DEF WinInv, WinTypeOK, WinCalls, WinUnlocking, WinClimbing, Win!To, Win!Levels,
              Win!None, Win!Shared, Win!Reserved, Win!Pending, Win!Exclusive
  <1>1. p \in wrange /\ p \in wpending /\ shared = {}
    BY DEF Win!Access, RangeIsWriters
  <1>2. q \notin shared \cup wpending
    BY <1>1 DEF OnePendingOnWindows
  <1>3. q \notin wrange
    BY <1>2 DEF RangeIsWriters
  <1>4. wlock[q] \notin {Win!Shared, Win!Reserved}
    BY <1>2 DEF WinReadersBacked
  <1>5. wlock[q] = Win!Exclusive => WinUnlocking(q) /\ wcall[q].at # 0 /\ wcall[q].level # Win!Shared
    BY <1>2, <1>3 DEF RangeIsWriters, WinReadersBacked, CallsFit
  <1>6. wlock[q] = Win!Exclusive => ~Win!To(q, Win!Shared)
    BY <1>5 DEF CallsFit
  <1>7. QED
    BY <1>4, <1>5, <1>6 DEF Win!Access

\* A step is one process's: the levels and calls of the others are left alone.
LEMMA OneProcessSteps ==
  ASSUME WinTypeOK, Win!Next
  PROVE  \E p \in Procs : \A q \in Procs \ {p} : wlock'[q] = wlock[q] /\ wcall'[q] = wcall[q]
  <1> USE DEF WinTypeOK, Win!Start, Win!GoOn, Win!Succeed, Win!Fail
  <1>1. PICK p \in Procs :
          \/ \E level \in Win!Levels : Win!Lock(p, level)
          \/ \E level \in {Win!None, Win!Shared} : Win!Unlock(p, level)
          \/ Win!Check(p)
          \/ Win!LockStep(p) \/ Win!UnlockStep(p) \/ Win!ProbeReserved(p) \/ Win!EndProbe(p)
          \/ Win!Exit(p)
    BY DEF Win!Next
  <1> SUFFICES ASSUME NEW q \in Procs \ {p}
               PROVE  wlock'[q] = wlock[q] /\ wcall'[q] = wcall[q]
    BY <1>1
  <1>2. ASSUME NEW level \in Win!Levels, Win!Lock(p, level)
        PROVE  wlock'[q] = wlock[q] /\ wcall'[q] = wcall[q]
    BY <1>2 DEF Win!Lock
  <1>3. ASSUME NEW level \in {Win!None, Win!Shared}, Win!Unlock(p, level)
        PROVE  wlock'[q] = wlock[q] /\ wcall'[q] = wcall[q]
    BY <1>3 DEF Win!Unlock
  <1>4. CASE Win!LockStep(p)
    BY <1>4 DEF Win!LockStep, Win!LockShared, Win!LockReserved, Win!TakePending,
              Win!GiveUpShared, Win!TakeRange
  <1>5. CASE Win!UnlockStep(p)
    BY <1>5 DEF Win!UnlockStep, Win!DropRange, Win!ReadAgain, Win!DropPending,
              Win!DropReserved, Win!DropShared
  <1>6. CASE Win!Check(p) \/ Win!ProbeReserved(p) \/ Win!EndProbe(p) \/ Win!Exit(p)
    BY <1>6 DEF Win!Check, Win!ProbeReserved, Win!EndProbe, Win!Exit
  <1>7. QED
    BY <1>1, <1>2, <1>3, <1>4, <1>5, <1>6

\* Every step of the code is a step of RWLock or leaves all access as it was.
\* That the new access is allowed follows from the invariant after the step.
LEMMA StepIsFileStep ==
  ASSUME WinInv, WinInv', [Win!Next]_(Win!vars)
  PROVE  [Win!File!Next]_(Win!File!vars)
  <1> DEFINE A == [p \in Procs |-> Win!Access(p)]
  <1> SUFFICES ASSUME Win!Next
               PROVE  [Win!File!Next]_(Win!File!vars)
    BY DEF Win!vars, Win!bytes, Win!File!vars, Win!Access, Win!To
  <1>1. PICK p \in Procs : \A q \in Procs \ {p} : wlock'[q] = wlock[q] /\ wcall'[q] = wcall[q]
    BY OneProcessSteps DEF WinInv
  <1>2. \A q \in Procs \ {p} : Win!Access(q)' = Win!Access(q)
    BY <1>1 DEF Win!Access, Win!To
  <1>3. A' = [A EXCEPT ![p] = Win!Access(p)']
    BY <1>2
  <1>4. WriterAloneOnWindows'
    BY WriterIsAlone, PTL
  <1>5. ASSUME NEW q \in Procs \ {p}, Win!Access(p)' = "write"
        PROVE  Win!Access(q) = "none"
    BY <1>4, <1>2, <1>5 DEF WriterAloneOnWindows
  <1>6. ASSUME NEW q \in Procs \ {p}, Win!Access(p)' # "none"
        PROVE  Win!Access(q) # "write"
    BY <1>4, <1>2, <1>6 DEF WriterAloneOnWindows
  <1>7. Win!Access(p) \in {"none", "read", "write"} /\ Win!Access(p)' \in {"none", "read", "write"}
    BY DEF Win!Access
  <1>8. CASE Win!Access(p)' = "write"
    BY <1>3, <1>5, <1>8 DEF Win!File!Next, Win!File!Write
  <1>9. CASE Win!Access(p)' = "read" /\ Win!Access(p) = "none"
    BY <1>3, <1>6, <1>9 DEF Win!File!Next, Win!File!Read
  <1>10. CASE Win!Access(p)' # "write" /\ Win!Access(p) # "none"
    BY <1>3, <1>7, <1>10 DEF Win!File!Next, Win!File!Release
  <1>11. CASE Win!Access(p)' = "none" /\ Win!Access(p) = "none"
    BY <1>3, <1>11 DEF Win!File!vars
  <1>12. QED
    BY <1>7, <1>8, <1>9, <1>10, <1>11

\* For any set of processes: reading and writing through LockFileEx and
\* UnlockFile in the order of lock() and unlock() is a readers-writer lock, and
\* a lock() or unlock() that fails half-way, or a process that exits, does not
\* break it.
THEOREM WindowsLocksAreRWLock == Win!Spec => Win!ImplementsRWLockOnWindows
  <1>1. Win!Init => Win!File!Init
    BY DEF Win!Init, Win!File!Init, Win!Access, Win!Resting, Win!None, Win!Shared,
           Win!Reserved, Win!Pending, Win!Exclusive
  <1>2. WinInv /\ WinInv' /\ [Win!Next]_(Win!vars) => [Win!File!Next]_(Win!File!vars)
    BY StepIsFileStep
  <1>3. QED
    BY <1>1, <1>2, WinInvariant, PTL DEF Win!Spec, Win!ImplementsRWLockOnWindows,
              Win!File!Spec

-----------------------------------------------------------------------------
\* Either system

\* Whichever system a build is for, its locks implement RWLock.
THEOREM LocksAreRWLocks == LocksSpec => ImplementsRWLock /\ ImplementsRWLockOnWindows
  <1>1. LocksInit => Init /\ Win!Init
    BY DEF LocksInit
  <1>2. [LocksNext]_<<windows, vars, wvars>> => [Next]_vars /\ [Win!Next]_(Win!vars)
    BY DEF LocksNext, wvars, Win!vars, Win!bytes
  <1>3. LocksSpec => Spec /\ Win!Spec
    BY <1>1, <1>2, PTL DEF LocksSpec, Spec, Win!Spec
  <1> QED
    BY <1>3, UnixLockImplementsRWLock, WindowsLocksAreRWLock, PTL DEF ImplementsRWLockOnWindows
=============================================================================
