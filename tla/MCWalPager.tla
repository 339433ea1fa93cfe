----------------------------- MODULE MCWalPager -----------------------------
\* WalPager with the two values that tell old contents from new.
EXTENDS WalPager

CONSTANTS z, a

MCVals == {z, a}

\* Bound: savepoints are opened while the log has one frame at most.
MCNext == FaultNext /\ (Len(savepoints') > Len(savepoints) => Len(wal.frames) <= 1)

MCSpec == Init /\ [][MCNext]_vars
=============================================================================
