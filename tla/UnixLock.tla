------------------------------ MODULE UnixLock ------------------------------
(***************************************************************************)
(* UnixFile::lock and UnixFile::unlock of liter-vfs-unix: one open file    *)
(* per process, the five SQLite lock levels, and the fcntl byte-range      *)
(* locks that carry them from process to process.                          *)
(*                                                                         *)
(* Every fcntl call is one step, and the steps of different processes      *)
(* interleave.  F_SETLK never waits: a conflict is an error, which lock()  *)
(* returns at once, keeping the levels it has reached.  Which fcntl comes  *)
(* next depends, in lock(), on the level reached and the level asked for;  *)
(* in unlock() on a position in the code, since self.lock only changes at  *)
(* its end.                                                                *)
(***************************************************************************)
EXTENDS Integers

CONSTANTS
  Procs,       \* processes, each with the file open once
  UnlockLevels \* levels that unlock is called with

None == 0
Shared == 1
Reserved == 2
Pending == 3
Exclusive == 4
Levels == None..Exclusive

ASSUME UnlockAssumption == UnlockLevels \subseteq Levels

VARIABLES
  lock,     \* self.lock of each process's UnixFile
  range,    \* its lock on the shared bytes: none, read (first byte) or write (all)
  reserved, \* the processes with a write lock on RESERVED_BYTE
  pending,  \* the processes with a write lock on PENDING_BYTE
  call      \* the call in progress: [op, level, at]

vars == <<lock, range, reserved, pending, call>>

Resting == [op |-> "none", level |-> None, at |-> 0]
Calls == [op : {"none", "lock", "unlock"}, level : Levels, at : 0..5]

TypeOK ==
  /\ lock \in [Procs -> Levels]
  /\ range \in [Procs -> {"none", "read", "write"}]
  /\ reserved \in SUBSET Procs
  /\ pending \in SUBSET Procs
  /\ call \in [Procs -> Calls]

Init ==
  /\ lock = [p \in Procs |-> None]
  /\ range = [p \in Procs |-> "none"]
  /\ reserved = {}
  /\ pending = {}
  /\ call = [p \in Procs |-> Resting]

-----------------------------------------------------------------------------
\* fcntl

CanRead(p) == \A q \in Procs \ {p} : range[q] # "write"

CanWrite(p) == \A q \in Procs \ {p} : range[q] = "none"

CanReserve(p) == reserved \subseteq {p}

CanPend(p) == pending \subseteq {p}

-----------------------------------------------------------------------------
\* lock(level)

Lock(p, level) ==
  /\ call[p].op = "none"
  /\ level > lock[p]
  /\ call' = [call EXCEPT ![p] = [op |-> "lock", level |-> level, at |-> 0]]
  /\ UNCHANGED <<lock, range, reserved, pending>>

Locking(p, from) == call[p].op = "lock" /\ lock[p] \in from /\ lock[p] < call[p].level

\* Reaching a level ends the call if it is the one asked for.
Reach(p, level) ==
  /\ lock' = [lock EXCEPT ![p] = level]
  /\ call' = IF call[p].level = level THEN [call EXCEPT ![p] = Resting] ELSE call

\* Mutant: a failed call lets go of the bytes and keeps the level.
FailLetsGo(p) ==
  /\ call' = [call EXCEPT ![p] = Resting]
  /\ reserved' = reserved \ {p}
  /\ pending' = pending \ {p}
  /\ UNCHANGED <<lock, range>>

Fail(p) ==
  /\ call' = [call EXCEPT ![p] = Resting]
  /\ UNCHANGED <<lock, range, reserved, pending>>

LockShared(p) ==
  /\ Locking(p, {None})
  /\ \/ /\ CanRead(p)
        /\ range' = [range EXCEPT ![p] = "read"]
        /\ Reach(p, Shared)
        /\ UNCHANGED <<reserved, pending>>
     \/ ~CanRead(p) /\ Fail(p)

LockReserved(p) ==
  /\ Locking(p, {Shared})
  /\ call[p].level = Reserved
  /\ \/ /\ CanReserve(p)
        /\ reserved' = reserved \cup {p}
        /\ Reach(p, Reserved)
        /\ UNCHANGED <<range, pending>>
     \/ ~CanReserve(p) /\ Fail(p)

\* A process on its way to Pending or Exclusive passes Reserved by.
LockPending(p) ==
  /\ Locking(p, {Shared, Reserved})
  /\ call[p].level >= Pending
  /\ \/ /\ CanPend(p)
        /\ pending' = pending \cup {p}
        /\ Reach(p, Pending)
        /\ UNCHANGED <<range, reserved>>
     \/ ~CanPend(p) /\ Fail(p)

LockExclusive(p) ==
  /\ Locking(p, {Pending})
  /\ \/ /\ CanWrite(p)
        /\ range' = [range EXCEPT ![p] = "write"]
        /\ Reach(p, Exclusive)
        /\ UNCHANGED <<reserved, pending>>
     \/ ~CanWrite(p) /\ Fail(p)

-----------------------------------------------------------------------------
\* unlock(level): five fcntl calls, each made or skipped

Unlock(p, level) ==
  /\ call[p].op = "none"
  /\ level < lock[p]
  /\ call' = [call EXCEPT ![p] = [op |-> "unlock", level |-> level, at |-> 1]]
  /\ UNCHANGED <<lock, range, reserved, pending>>

Unlocking(p, at) == call[p].op = "unlock" /\ call[p].at = at
Advance(p) == call' = [call EXCEPT ![p].at = @ + 1]

\* Mutant: a lock goes although the call stops at its level.
CrossesOrStays(p, upper) == lock[p] >= upper /\ call[p].level <= upper

\* The held level is at least upper and the call goes below it.
Crosses(p, upper) == lock[p] >= upper /\ call[p].level < upper

\* Mutant: the pending byte goes first.
DropRangeAndPending(p) ==
  /\ Unlocking(p, 1)
  /\ range' = IF Crosses(p, Exclusive) THEN [range EXCEPT ![p] = "none"] ELSE range
  /\ pending' = IF Crosses(p, Pending) THEN pending \ {p} ELSE pending
  /\ Advance(p)
  /\ UNCHANGED <<lock, reserved>>

DropRange(p) ==
  /\ Unlocking(p, 1)
  /\ range' = IF Crosses(p, Exclusive) THEN [range EXCEPT ![p] = "none"] ELSE range
  /\ Advance(p)
  /\ UNCHANGED <<lock, reserved, pending>>

\* Between the two calls the process has no lock on the shared bytes; if the
\* read lock is refused the call ends there, with self.lock unchanged.
ReadAgain(p) ==
  /\ Unlocking(p, 2)
  /\ \/ /\ Crosses(p, Exclusive) /\ call[p].level >= Shared
        /\ \/ /\ CanRead(p)
              /\ range' = [range EXCEPT ![p] = "read"]
              /\ Advance(p)
           \/ /\ ~CanRead(p)
              /\ call' = [call EXCEPT ![p] = Resting]
              /\ UNCHANGED range
     \/ /\ ~(Crosses(p, Exclusive) /\ call[p].level >= Shared)
        /\ Advance(p)
        /\ UNCHANGED range
  /\ UNCHANGED <<lock, reserved, pending>>

DropReserved(p) ==
  /\ Unlocking(p, 3)
  /\ reserved' = IF Crosses(p, Reserved) THEN reserved \ {p} ELSE reserved
  /\ Advance(p)
  /\ UNCHANGED <<lock, range, pending>>

DropPending(p) ==
  /\ Unlocking(p, 4)
  /\ pending' = IF Crosses(p, Pending) THEN pending \ {p} ELSE pending
  /\ Advance(p)
  /\ UNCHANGED <<lock, range, reserved>>

LevelReached(p) == call[p].level

DropShared(p) ==
  /\ Unlocking(p, 5)
  /\ range' = IF Crosses(p, Shared) THEN [range EXCEPT ![p] = "none"] ELSE range
  /\ lock' = [lock EXCEPT ![p] = LevelReached(p)]
  /\ call' = [call EXCEPT ![p] = Resting]
  /\ UNCHANGED <<reserved, pending>>

-----------------------------------------------------------------------------
\* The process exits, or closes the file: the kernel drops all its locks.
Exit(p) ==
  /\ lock' = [lock EXCEPT ![p] = None]
  /\ range' = [range EXCEPT ![p] = "none"]
  /\ reserved' = reserved \ {p}
  /\ pending' = pending \ {p}
  /\ call' = [call EXCEPT ![p] = Resting]

LockStep(p) == LockShared(p) \/ LockReserved(p) \/ LockPending(p) \/ LockExclusive(p)

UnlockStep(p) ==
  DropRange(p) \/ ReadAgain(p) \/ DropReserved(p) \/ DropPending(p) \/ DropShared(p)

Next == \E p \in Procs :
  \/ \E level \in Levels : Lock(p, level)
  \/ \E level \in UnlockLevels : Unlock(p, level)
  \/ LockStep(p)
  \/ UnlockStep(p)
  \/ Exit(p)

Spec == Init /\ [][Next]_vars

-----------------------------------------------------------------------------
\* Properties

Stable(p) == call[p].op # "unlock"

\* A process at Exclusive is alone: every other one is at None, or in the
\* middle of unlock.  The Exclusive-to-Shared downgrade, which lets go of the
\* shared bytes before it takes one of them again, must not open a gap.
ExclusiveIsAlone ==
  \A p, q \in Procs : p # q /\ Stable(p) /\ Stable(q) /\ lock[p] = Exclusive =>
    lock[q] = None

\* At most one process believes it holds Reserved.
OneReserved ==
  \A p, q \in Procs :
    p # q /\ Stable(p) /\ Stable(q) /\ lock[p] = Reserved => lock[q] # Reserved

\* A downgrade from Exclusive to Shared always gets its read lock: unlock
\* never returns an error that leaves self.lock at a level no longer held.
DowngradeSucceeds ==
  \A p \in Procs : Unlocking(p, 2) /\ Crosses(p, Exclusive) => CanRead(p)

\* What a process may do with the file: at Shared and above it reads, also
\* during a downgrade; at Exclusive it writes until unlock begins to let go.
Access(p) ==
  CASE lock[p] = Exclusive /\ ~(call[p].op = "unlock" /\ call[p].at > 1) -> "write"
    [] range[p] = "none" /\ ~(Unlocking(p, 2) /\ call[p].level >= Shared) -> "none"
    [] OTHER -> "read"

File == INSTANCE RWLock WITH access <- [p \in Procs |-> Access(p)]

\* The byte locks implement exclusive access for writers.
ImplementsRWLock == File!Spec
=============================================================================
