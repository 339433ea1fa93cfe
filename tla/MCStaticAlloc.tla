---------------------------- MODULE MCStaticAlloc ----------------------------
\* StaticAlloc with three threads.
EXTENDS StaticAlloc

CONSTANTS t1, t2, t3

MCThreads == {t1, t2, t3}
=============================================================================
