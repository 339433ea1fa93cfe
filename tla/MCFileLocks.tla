---------------------------- MODULE MCFileLocks ----------------------------
\* FileLocks with three processes.
EXTENDS FileLocks

CONSTANTS p1, p2, p3

MCProcs == {p1, p2, p3}

\* C SQLite only ever unlocks to Shared or None.
MCDowngrades == {None, Shared}
=============================================================================
