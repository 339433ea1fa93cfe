---------------------------- MODULE MCCInterface ----------------------------
\* CInterface with two tables and one statement prepared.
EXTENDS CInterface, TLC

CONSTANTS t1, t2, v1, v2, h1

MCNames == {t1, t2}
MCVals == <<v1, v2>>
MCUnwanted == {v2}
MCHandles == {h1}

Interchangeable == Permutations(MCNames)
=============================================================================
