----------------------------- MODULE StaticAlloc -----------------------------
(***************************************************************************)
(* StaticAlloc::malloc of liter-alloc: threads take memory from one static *)
(* buffer by moving an atomic top.  A request that does not fit moves top  *)
(* too, and moves it back with a second atomic step; other threads run in  *)
(* between, and may be given a region that lies behind the top to come.    *)
(* free does nothing and realloc is malloc.                                *)
(*                                                                         *)
(* Sizes are counted in the 8-byte units that roundup makes of them, and   *)
(* the sum old + n does not overflow a usize.                              *)
(***************************************************************************)
EXTENDS Integers, Sequences, SequencesExt

CONSTANTS
  Threads,
  Room,    \* N, in units
  Sizes    \* what is asked for, in units

StaticAllocConstants == Room \in Nat /\ Sizes \subseteq Nat \ {0}

VARIABLES
  top,     \* top
  undoing, \* the size each thread has to take off top again, or 0
  regions, \* what malloc has returned to each thread: [from, n]
  crossed  \* has a request been given a region before another was undone?

vars == <<top, undoing, regions, crossed>>

\* Parts of the buffer.
Regions == {r \in [from : 0..Room, n : Sizes] : r.from + r.n <= Room}

\* What malloc returns lies inside the buffer.
TypeOK ==
  /\ top \in Nat
  /\ undoing \in [Threads -> {0} \cup Sizes]
  /\ regions \in [Threads -> Seq(Regions)]
  /\ crossed \in BOOLEAN

Init ==
  /\ top = 0
  /\ undoing = [t \in Threads |-> 0]
  /\ regions = [t \in Threads |-> <<>>]
  /\ crossed = FALSE

Bumped(n) == top + n

Fits(n) == top + n <= Room

\* fetch_add, and the check of the value it returned.
Malloc(t, n) ==
  /\ undoing[t] = 0
  /\ top' = Bumped(n)
  /\ IF Fits(n)
       THEN /\ regions' = [regions EXCEPT ![t] = Append(@, [from |-> top, n |-> n])]
            /\ crossed' = (crossed \/ \E u \in Threads : undoing[u] # 0)
            /\ UNCHANGED undoing
       ELSE /\ undoing' = [undoing EXCEPT ![t] = n]
            /\ UNCHANGED <<regions, crossed>>

Lowered(n) == top - n

\* fetch_sub, after which malloc returns null.
Undo(t) ==
  /\ undoing[t] # 0
  /\ top' = Lowered(undoing[t])
  /\ undoing' = [undoing EXCEPT ![t] = 0]
  /\ UNCHANGED <<regions, crossed>>

Next == \E t \in Threads : Undo(t) \/ \E n \in Sizes : Malloc(t, n)

Spec == Init /\ [][Next]_vars

-----------------------------------------------------------------------------
\* Properties

Apart(r, s) == r.from + r.n <= s.from \/ s.from + s.n <= r.from

\* The moves of top in malloc guard the buffer: no two regions handed out share
\* a byte, whichever threads asked and whatever requests failed meanwhile.
RegionsApart ==
  \A t, u \in Threads : \A i \in DOMAIN regions[t], j \in DOMAIN regions[u] :
    <<t, i>> # <<u, j>> => Apart(regions[t][i], regions[u][j])

\* What is true of malloc: as long as no request was given a region while that
\* of another thread was still to be taken off top, no two regions overlap.
UncrossedApart == ~crossed => RegionsApart

Given(t) == FoldLeft(LAMBDA sum, r : sum + r.n, 0, regions[t])

\* top counts what was handed out and what is about to be taken off again:
\* requests that fail cost no memory in the end.
TopIsAccounted ==
  top = MapThenSumSet(LAMBDA t : Given(t) + undoing[t], Threads)
=============================================================================
