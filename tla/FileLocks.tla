----------------------------- MODULE FileLocks -----------------------------
(***************************************************************************)
(* UnixLock and WinLock side by side, for the same processes: a build of   *)
(* liter has one of the two, which the configuration chooses.              *)
(***************************************************************************)
EXTENDS UnixLock

VARIABLES
  windows, \* what the build is for
  wlock, shared, wrange, wreserved, wpending, wcall \* those of WinLock

Win == INSTANCE WinLock WITH
  lock <- wlock, range <- wrange, reserved <- wreserved, pending <- wpending, call <- wcall

wvars == <<wlock, shared, wrange, wreserved, wpending, wcall>>

LocksInit == windows \in BOOLEAN /\ Init /\ Win!Init

LocksNext ==
  /\ UNCHANGED windows
  /\ IF windows THEN Win!Next /\ UNCHANGED vars ELSE Next /\ UNCHANGED wvars

LocksSpec == LocksInit /\ [][LocksNext]_<<windows, vars, wvars>>

(* On Windows too a process that may write is alone (WinLock).             *)
ImplementsRWLockOnWindows == Win!ImplementsRWLockOnWindows
=============================================================================
