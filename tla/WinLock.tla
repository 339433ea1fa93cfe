------------------------------- MODULE WinLock -------------------------------
(***************************************************************************)
(* WinFile::lock, unlock and check_reserved_lock of liter-vfs-win: one     *)
(* open file per process, and the byte ranges that LockFileEx locks for    *)
(* it.  Every LockFileEx and UnlockFile is one step; a lock that conflicts *)
(* is refused at once, one of the same process too, and the call ends with *)
(* self.lock as it was.                                                    *)
(*                                                                         *)
(* Whether UnlockFile refuses a range that is not locked differs between   *)
(* Windows builds, as the tests of liter-vfs-win have it: it may or not.   *)
(***************************************************************************)
EXTENDS Integers

CONSTANT Procs

None == 0
Shared == 1
Reserved == 2
Pending == 3
Exclusive == 4
Levels == None..Exclusive

VARIABLES
  lock,     \* self.lock of each process's WinFile
  shared,   \* the processes with a shared lock on the first shared byte
  range,    \* those with an exclusive lock on all shared bytes
  reserved, \* those with an exclusive lock on RESERVED_BYTE
  pending,  \* those with one on PENDING_BYTE
  call      \* the call in progress: [op, level, at]

bytes == <<shared, range, reserved, pending>>
vars == <<lock, bytes, call>>

Resting == [op |-> "none", level |-> None, at |-> 0]

Init ==
  /\ lock = [p \in Procs |-> None]
  /\ shared = {} /\ range = {} /\ reserved = {} /\ pending = {}
  /\ call = [p \in Procs |-> Resting]

-----------------------------------------------------------------------------
Start(p, op, level, at) ==
  /\ call[p] = Resting
  /\ call' = [call EXCEPT ![p] = [op |-> op, level |-> level, at |-> at]]
  /\ UNCHANGED <<lock, bytes>>

In(p, op, at) == call[p].op = op /\ call[p].at = at

GoOn(p, at) == call' = [call EXCEPT ![p].at = at] /\ UNCHANGED lock

Succeed(p) ==
  /\ lock' = [lock EXCEPT ![p] = call[p].level]
  /\ call' = [call EXCEPT ![p] = Resting]

Fail(p) ==
  /\ call' = [call EXCEPT ![p] = Resting]
  /\ UNCHANGED <<lock, bytes>>

-----------------------------------------------------------------------------
\* lock(level), which goes through no level in between

\* Callers climb as C SQLite does: Shared, Reserved, Exclusive.
Asks(p, level) == <<lock[p], level>> \in
  {<<None, Shared>>, <<Shared, Reserved>>, <<Reserved, Exclusive>>}

Lock(p, level) == Asks(p, level) /\ Start(p, "lock", level, 1)

LockShared(p) ==
  /\ In(p, "lock", 1) /\ call[p].level = Shared
  /\ \/ /\ range = {} /\ shared' = shared \cup {p} /\ Succeed(p)
        /\ UNCHANGED <<range, reserved, pending>>
     \/ range # {} /\ Fail(p)

LockReserved(p) ==
  /\ In(p, "lock", 1) /\ call[p].level = Reserved
  /\ \/ /\ reserved = {} /\ reserved' = {p} /\ Succeed(p)
        /\ UNCHANGED <<shared, range, pending>>
     \/ reserved # {} /\ Fail(p)

\* Mutant: a pending byte held by another is no obstacle.
PendingFreeOrOwn(p) == TRUE

\* A process that holds the byte from a call that failed is refused too.
PendingFree(p) == pending = {}

TakePending(p) ==
  /\ In(p, "lock", 1) /\ call[p].level = Exclusive
  /\ \/ /\ PendingFree(p) /\ pending' = pending \cup {p} /\ GoOn(p, 2)
        /\ UNCHANGED <<shared, range, reserved>>
     \/ ~PendingFree(p) /\ Fail(p)

GiveUpShared(p) ==
  /\ In(p, "lock", 2)
  /\ \/ /\ shared' = shared \ {p} /\ GoOn(p, 3)
        /\ UNCHANGED <<range, reserved, pending>>
     \/ p \notin shared /\ Fail(p)

\* On failure the shared byte is gone and the pending byte stays.
TakeRange(p) ==
  /\ In(p, "lock", 3)
  /\ \/ /\ shared = {} /\ range = {} /\ range' = {p} /\ Succeed(p)
        /\ UNCHANGED <<shared, reserved, pending>>
     \/ (shared # {} \/ range # {}) /\ Fail(p)

-----------------------------------------------------------------------------
\* unlock(level)

Unlock(p, level) ==
  /\ level < lock[p]
  /\ Start(p, "unlock", level, IF lock[p] = Exclusive THEN 0 ELSE 2)

To(p, level) == call[p].level >= level

DropRange(p) ==
  /\ In(p, "unlock", 0)
  /\ range' = range \ {p} /\ GoOn(p, IF To(p, Shared) THEN 1 ELSE 2)
  /\ UNCHANGED <<shared, reserved, pending>>

ReadAgain(p) ==
  /\ In(p, "unlock", 1)
  /\ \/ /\ range = {} /\ shared' = shared \cup {p} /\ GoOn(p, 2)
        /\ UNCHANGED <<range, reserved, pending>>
     \/ range # {} /\ Fail(p)

DropPending(p) ==
  /\ In(p, "unlock", 2)
  /\ \/ /\ lock[p] >= Pending /\ ~To(p, Pending) /\ pending' = pending \ {p} /\ GoOn(p, 3)
        /\ UNCHANGED <<shared, range, reserved>>
     \/ ~(lock[p] >= Pending /\ ~To(p, Pending)) /\ GoOn(p, 3) /\ UNCHANGED bytes

DropReserved(p) ==
  /\ In(p, "unlock", 3)
  /\ \/ /\ lock[p] >= Reserved /\ ~To(p, Reserved) /\ reserved' = reserved \ {p} /\ GoOn(p, 4)
        /\ UNCHANGED <<shared, range, pending>>
     \/ lock[p] >= Reserved /\ ~To(p, Reserved) /\ p \notin reserved /\ Fail(p)
     \/ ~(lock[p] >= Reserved /\ ~To(p, Reserved)) /\ GoOn(p, 4) /\ UNCHANGED bytes

\* At Exclusive the byte was part of the range.
DropShared(p) ==
  /\ In(p, "unlock", 4)
  /\ LET due == lock[p] \in Shared..Pending /\ ~To(p, Shared)
     IN  \/ /\ shared' = (IF due THEN shared \ {p} ELSE shared) /\ Succeed(p)
            /\ UNCHANGED <<range, reserved, pending>>
         \/ due /\ p \notin shared /\ Fail(p)

-----------------------------------------------------------------------------
\* check_reserved_lock takes the reserved byte for a moment

Check(p) == Start(p, "check", None, 1)

ProbeReserved(p) ==
  /\ In(p, "check", 1)
  /\ \/ /\ reserved = {} /\ reserved' = {p} /\ GoOn(p, 2)
        /\ UNCHANGED <<shared, range, pending>>
     \/ reserved # {} /\ Fail(p)

EndProbe(p) ==
  /\ In(p, "check", 2)
  /\ reserved' = reserved \ {p}
  /\ call' = [call EXCEPT ![p] = Resting]
  /\ UNCHANGED <<lock, shared, range, pending>>

-----------------------------------------------------------------------------
\* The process exits, or closes the file: its locks are gone.
Exit(p) ==
  /\ lock' = [lock EXCEPT ![p] = None]
  /\ shared' = shared \ {p} /\ range' = range \ {p}
  /\ reserved' = reserved \ {p} /\ pending' = pending \ {p}
  /\ call' = [call EXCEPT ![p] = Resting]

LockStep(p) ==
  LockShared(p) \/ LockReserved(p) \/ TakePending(p) \/ GiveUpShared(p) \/ TakeRange(p)

UnlockStep(p) ==
  DropRange(p) \/ ReadAgain(p) \/ DropPending(p) \/ DropReserved(p) \/ DropShared(p)

Next == \E p \in Procs :
  \/ \E level \in Levels : Lock(p, level)
  \/ \E level \in {None, Shared} : Unlock(p, level)
  \/ Check(p)
  \/ LockStep(p) \/ UnlockStep(p) \/ ProbeReserved(p) \/ EndProbe(p)
  \/ Exit(p)

Spec == Init /\ [][Next]_vars

-----------------------------------------------------------------------------
\* Properties

\* What a process may do with the file: it reads from Shared on, also on its
\* way to Exclusive and back, and writes at Exclusive until unlock begins.
Access(p) ==
  CASE lock[p] = Exclusive /\ (call[p].op # "unlock" \/ call[p].at = 0) -> "write"
    [] lock[p] # Exclusive /\ lock[p] >= Shared /\ ~(call[p].op = "unlock" /\ ~To(p, Shared)) -> "read"
    [] lock[p] = Exclusive /\ call[p].op = "unlock" /\ call[p].at # 0 /\ To(p, Shared) -> "read"
    [] OTHER -> "none"

File == INSTANCE RWLock WITH access <- [p \in Procs |-> Access(p)]

(* On Windows too a process that may write is alone, between the steps in  *)
(* which one of them comes down from Exclusive, and although a lock to     *)
(* Exclusive that fails has already given up its shared byte.              *)
ImplementsRWLockOnWindows == File!Spec
=============================================================================
