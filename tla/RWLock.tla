------------------------------- MODULE RWLock -------------------------------
(***************************************************************************)
(* What the locks on a database file are for: a process that may write the *)
(* file is alone on it.  A process asks for a level of access, may be      *)
(* turned down, and may give access back at any time.                      *)
(***************************************************************************)
CONSTANT Procs

VARIABLE access \* what each process may do with the file

vars == access

Init == access = [p \in Procs |-> "none"]

Read(p) ==
  /\ access[p] = "none"
  /\ \A q \in Procs \ {p} : access[q] # "write"
  /\ access' = [access EXCEPT ![p] = "read"]

Write(p) ==
  /\ \A q \in Procs \ {p} : access[q] = "none"
  /\ access' = [access EXCEPT ![p] = "write"]

Release(p) ==
  /\ access[p] # "none"
  /\ \E a \in {"none", "read"} : access' = [access EXCEPT ![p] = a]

Next == \E p \in Procs : Read(p) \/ Write(p) \/ Release(p)

Spec == Init /\ [][Next]_vars
=============================================================================
